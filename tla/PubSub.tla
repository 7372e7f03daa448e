-------------------------------- MODULE PubSub --------------------------------
(***************************************************************************)
(* Publishing and subscribing inside one process (swiftrobotc.h,           *)
(* swiftrobotc.cpp).  notify() walks over the subscribers of a channel and *)
(* hands a function to the dispatch queue for each one whose binary        *)
(* semaphore it can take; the function calls the subscriber's callback and *)
(* releases the semaphore.  A subscriber that is still busy misses the     *)
(* message.                                                                *)
(*                                                                         *)
(* The dispatch queue is used through what it promises, JobService: one    *)
(* task for each pair of a subscriber and a message.  Nothing is assumed   *)
(* about the order in which the pool takes its tasks.                      *)
(***************************************************************************)
EXTENDS Integers, Sequences, FiniteSets

CONSTANTS Threads,      \* application threads, and the listening threads that
                        \* bring messages and status updates of other devices
          Subscribers,  \* one for each call of subscribe()
          Msgs,         \* messages; each is published at most once
          Channels,
          Types,
          ChannelOf,    \* the channel of a subscriber or a message
          TypeOf,       \* the type a subscriber asks for; that of a message
          Capacity      \* number of workers in the pool

ASSUME ActorAssumption == Threads \cap Subscribers = {}
ASSUME DataAssumption ==
  /\ ChannelOf \in [Subscribers \cup Msgs -> Channels]
  /\ TypeOf \in [Subscribers \cup Msgs -> Types]
  /\ Capacity \in Nat

VARIABLES subs,       \* subscriber_channel_map
          sem,        \* the semaphore of each subscriber
          stage,      \* how far each task has come (see JobService)
          loop,       \* what is left of the notify() loop each actor is in
          published,  \* messages each actor has published, in order
          heard,      \* messages given to each callback, in order
          gone,       \* ~SwiftRobotClient() has destroyed client_dispatcher
          closed,     \* ... and has told the pool to quit
          crashed     \* undefined behaviour has brought the process down

vars == <<subs, sem, stage, loop, published, heard, gone, closed, crashed>>

\* A callback may publish and subscribe too: while it runs it is an actor.
Actors == Threads \cup Subscribers

Tasks == {t \in Subscribers \X Msgs : ChannelOf[t[1]] = ChannelOf[t[2]]}

Pool == INSTANCE JobService WITH Jobs <- Tasks

TypeOK ==
  /\ subs \in [Channels -> Seq(Subscribers)]
  /\ sem \in [Subscribers -> {0, 1}]
  /\ stage \in [Tasks -> Pool!Stages]
  /\ loop \in [Actors -> Seq(Tasks)]
  /\ published \in [Actors -> Seq(Msgs)]
  /\ heard \in [Subscribers -> Seq(Msgs)]
  /\ gone \in BOOLEAN /\ closed \in BOOLEAN /\ crashed \in BOOLEAN

Occurs(x, s) == \E i \in 1..Len(s) : s[i] = x

RightType(t) == TypeOf[t[1]] = TypeOf[t[2]]

Init ==
  /\ subs = [c \in Channels |-> <<>>]
  /\ sem = [s \in Subscribers |-> 1]
  /\ stage = [t \in Tasks |-> "fresh"]
  /\ loop = [a \in Actors |-> <<>>]
  /\ published = [a \in Actors |-> <<>>]
  /\ heard = [s \in Subscribers |-> <<>>]
  /\ gone = FALSE /\ closed = FALSE /\ crashed = FALSE

-----------------------------------------------------------------------------
InCallback(s) ==
  \E t \in Tasks : t[1] = s /\ stage[t] = "running" /\ RightType(t)

MayCall(a) ==
  /\ loop[a] = <<>>
  /\ IF a \in Subscribers THEN InCallback(a) ELSE ~gone

Iterates(a, c) == loop[a] # <<>> /\ ChannelOf[Head(loop[a])[1]] = c

(***************************************************************************)
(* subscribe() appends to the vector of the channel.  Another thread whose *)
(* range-for is on that vector goes on with the iterators it has: it does  *)
(* not see the new element and, if the vector has moved, may crash.  Then  *)
(* subscribeRequest() of client_dispatcher is called (for channels but 0), *)
(* also from a callback that still runs when the dispatcher is gone.       *)
(***************************************************************************)
Subscribe(a, s) ==
  LET c == ChannelOf[s] IN
  /\ MayCall(a)
  /\ \A d \in Channels : ~Occurs(s, subs[d])
  /\ subs' = [subs EXCEPT ![c] = Append(@, s)]
  /\ crashed' \in IF gone \/ \E b \in Actors : Iterates(b, c) THEN BOOLEAN ELSE {FALSE}
  /\ UNCHANGED <<sem, stage, loop, published, heard, gone, closed>>

\* The end of publish() calls client_dispatcher->dispatchMessage(), likewise.
Forward(atEnd) == crashed' \in IF atEnd /\ gone THEN BOOLEAN ELSE {FALSE}

\* notify() begins, called by publish(), didReceiveMessage() or didReceiveUpdate().
Publish(a, m) ==
  /\ MayCall(a)
  /\ \A b \in Actors : ~Occurs(m, published[b])
  /\ published' = [published EXCEPT ![a] = Append(@, m)]
  /\ loop' = [loop EXCEPT ![a] =
                [i \in 1..Len(subs[ChannelOf[m]]) |-> <<subs[ChannelOf[m]][i], m>>]]
  /\ Forward(subs[ChannelOf[m]] = <<>>)
  /\ UNCHANGED <<subs, sem, stage, heard, gone, closed>>

Pass(a) ==
  /\ loop' = [loop EXCEPT ![a] = Tail(@)]
  /\ Forward(Tail(loop[a]) = <<>>)

\* Faulty: dispatch without looking at the semaphore.
VisitAlways(a) ==
  /\ loop[a] # <<>>
  /\ LET t == Head(loop[a]) IN
       /\ sem' = [sem EXCEPT ![t[1]] = @ - 1]
       /\ Pool!Submit(t)
  /\ UNCHANGED <<subs, loop, published, heard, gone, crashed>>

\* Faulty: wait for the semaphore.
VisitBlocking(a) ==
  /\ loop[a] # <<>>
  /\ LET t == Head(loop[a]) IN
       /\ sem[t[1]] = 1
       /\ sem' = [sem EXCEPT ![t[1]] = @ - 1]
       /\ Pool!Submit(t)
  /\ UNCHANGED <<subs, loop, published, heard, gone, crashed>>

\* try_acquire() on the next subscriber; if it succeeds, dispatch() begins.
Visit(a) ==
  /\ loop[a] # <<>>
  /\ LET t == Head(loop[a]) IN
       /\ stage[t] = "fresh"
       /\ \/ /\ sem[t[1]] = 1
             /\ sem' = [sem EXCEPT ![t[1]] = @ - 1]
             /\ Pool!Submit(t)
             /\ UNCHANGED <<loop, crashed>>
          \/ /\ sem[t[1]] = 0
             /\ Pass(a)
             /\ UNCHANGED <<sem, stage, closed>>
  /\ UNCHANGED <<subs, published, heard, gone>>

\* dispatch() returns.
Dispatched(a) ==
  /\ loop[a] # <<>>
  /\ Pool!Enqueue(Head(loop[a]))
  /\ Pass(a)
  /\ UNCHANGED <<subs, sem, published, heard, gone>>

\* Faulty: the semaphore guards the queueing only.
StartReleasing(t) ==
  /\ Pool!Start(t)
  /\ sem' = [sem EXCEPT ![t[1]] = 1]
  /\ heard' = [heard EXCEPT ![t[1]] = IF RightType(t) THEN Append(@, t[2]) ELSE @]
  /\ UNCHANGED <<subs, loop, published, gone, crashed>>

\* A worker takes the task and, unless any_cast throws, calls the callback.
Start(t) ==
  /\ Pool!Start(t)
  /\ heard' = [heard EXCEPT ![t[1]] = IF RightType(t) THEN Append(@, t[2]) ELSE @]
  /\ UNCHANGED <<subs, sem, loop, published, gone, crashed>>

\* Faulty: the semaphore is not released.
CallbackKeeps(t) ==
  /\ RightType(t) /\ loop[t[1]] = <<>>
  /\ Pool!Finish(t)
  /\ UNCHANGED <<subs, sem, loop, published, heard, gone, crashed>>

CallbackReturns(t) ==
  /\ RightType(t) /\ loop[t[1]] = <<>>
  /\ Pool!Finish(t)
  /\ sem' = [sem EXCEPT ![t[1]] = 1]
  /\ UNCHANGED <<subs, loop, published, heard, gone, crashed>>

\* bad_any_cast is caught and reported; the semaphore stays taken.
WrongType(t) ==
  /\ ~RightType(t)
  /\ Pool!Finish(t)
  /\ UNCHANGED <<subs, sem, loop, published, heard, gone, crashed>>

(***************************************************************************)
(* ~SwiftRobotClient(), called when the application's own threads and the  *)
(* listening threads are out of the client: client_dispatcher is destroyed *)
(* first, then the queue, whose destructor tells the workers to quit.      *)
(***************************************************************************)
Destroy ==
  /\ ~gone /\ \A t \in Threads : loop[t] = <<>>
  /\ gone' = TRUE
  /\ UNCHANGED <<subs, sem, stage, loop, published, heard, closed, crashed>>

DestroyQueue ==
  /\ gone /\ Pool!Close
  /\ UNCHANGED <<subs, sem, loop, published, heard, gone, crashed>>

Next ==
  /\ ~crashed
  /\ \/ \E a \in Actors :
          \/ \E s \in Subscribers : Subscribe(a, s)
          \/ \E m \in Msgs : Publish(a, m)
          \/ Visit(a) \/ Dispatched(a)
     \/ \E t \in Tasks : Start(t) \/ CallbackReturns(t) \/ WrongType(t)
     \/ Destroy \/ DestroyQueue

Spec == Init /\ [][Next]_vars

(***************************************************************************)
(* Fairness: notify() does not stop half way, the pool keeps its promise   *)
(* (JobService), and callbacks return.                                     *)
(***************************************************************************)
Running(A) == ~crashed /\ A

Fairness ==
  /\ \A a \in Actors : WF_vars(Running(Visit(a))) /\ WF_vars(Running(Dispatched(a)))
  /\ \A t \in Tasks :
       /\ SF_vars(Running(Start(t)))
       /\ WF_vars(Running(CallbackReturns(t) \/ WrongType(t)))

FairSpec == Spec /\ Fairness

-----------------------------------------------------------------------------
(* Properties *)

\* The task has been accepted and has not ended.
InFlight(t) == stage[t] \in {"submitted", "queued", "running"}

(***************************************************************************)
(* A subscriber has at most one task between try_acquire() and release(),  *)
(* whichever threads publish, and its semaphore is taken for that long: no *)
(* callback is ever entered twice at a time, and none is released twice    *)
(* (swiftrobotc.h:93-99).                                                  *)
(***************************************************************************)
OneCallback ==
  \A t \in Tasks : InFlight(t) =>
    /\ sem[t[1]] = 0
    /\ \A u \in Tasks : u[1] = t[1] /\ InFlight(u) => u = t

\* What keeps the semaphore of s taken.
BusyWith(s, t) ==
  t[1] = s /\ (InFlight(t) \/ (stage[t] = "finished" /\ ~RightType(t)))

(***************************************************************************)
(* A semaphore that is taken has a reason: a task that will release it, or *)
(* a message of the wrong type that never did (swiftrobotc.h:100).         *)
(***************************************************************************)
SemaphoreAccounted ==
  \A s \in Subscribers : sem[s] = 0 =>
    \E t \in Tasks : BusyWith(s, t)

(***************************************************************************)
(* Messages that one thread publishes reach a callback in the order of     *)
(* publication, although any worker may run any task: only the semaphore,  *)
(* held from before the dispatch to after the callback, keeps them in      *)
(* order (swiftrobotc.h:92-106).                                           *)
(***************************************************************************)
Before(x, y, s) == \E i, j \in 1..Len(s) : i < j /\ s[i] = x /\ s[j] = y

InOrder ==
  \A s \in Subscribers, a \in Actors, x, y \in Msgs :
    Before(x, y, heard[s]) => ~Before(y, x, published[a])

(***************************************************************************)
(* publish() returns although callbacks publish on the channel they are    *)
(* subscribed to and every worker may be busy (swiftrobotc.h:94).          *)
(***************************************************************************)
PublishReturns == \A a \in Actors : loop[a] # <<>> ~> loop[a] = <<>> \/ crashed

(***************************************************************************)
(* A subscriber that is busy becomes free again, unless it has been sent a *)
(* message of the wrong type (swiftrobotc.h:93-102).                       *)
(***************************************************************************)
Deaf(s) == \E t \in Tasks : t[1] = s /\ stage[t] = "finished" /\ ~RightType(t)

BusyEnds == \A s \in Subscribers : sem[s] = 0 ~> sem[s] = 1 \/ Deaf(s) \/ closed \/ crashed
=============================================================================
