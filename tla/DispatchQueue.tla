---------------------------- MODULE DispatchQueue ----------------------------
(***************************************************************************)
(* The thread pool every other part of swiftrobotc runs its callbacks and  *)
(* timers on (dispatch_queue.cpp).  Worker threads and the threads that    *)
(* call dispatch() and dispatch_after() share one mutex and one condition  *)
(* variable.                                                               *)
(*                                                                         *)
(* Only a worker keeps lock_ over more than one step: with nothing in q_   *)
(* and a timer in pq_ that is not due, cv_.wait() returns at once because  *)
(* its predicate is true, neither branch is taken, and the do-while loop   *)
(* spins WITHOUT ever unlocking.  In the model such a worker is "holding"  *)
(* and has no step to take until the clock moves.  The critical sections   *)
(* of the callers only touch the queues, so each is one step.              *)
(***************************************************************************)
EXTENDS Integers, Sequences, FiniteSets

CONSTANTS Workers,  \* the threads of threads_
          Callers,  \* other threads that use the queue (application, listeners)
          Jobs,     \* function objects; each is handed over at most once
          None,     \* "no thread" and "no job"
          Delays,   \* the delays callers pass to dispatch_after
          MaxTime   \* bound of the clock

ASSUME ThreadAssumption ==
  /\ IsFiniteSet(Workers) /\ Workers # {}
  /\ Workers \cap Callers = {}
  /\ None \notin Workers \cup Jobs
ASSUME TimeAssumption == MaxTime \in Nat /\ Delays \subseteq Nat

VARIABLES lock,   \* the worker that holds lock_ between its steps, or None
          q,      \* q_: functions to run at once, oldest first
          pq,     \* pq_: functions with the time point they wait for
          quit,   \* quit_
          now,    \* the steady clock
          pc,     \* where each worker is in dispatch_thread_handler()
          job,    \* the function each worker runs
          calls,  \* calls of dispatch and dispatch_after that wait for lock_
          fresh,  \* functions not handed over yet
          dtor    \* progress of ~dispatch_queue()

vars == <<lock, q, pq, quit, now, pc, job, calls, fresh, dtor>>

Threads == Workers \cup Callers
Timers  == [job : Jobs, at : Nat]
Calls   == [by : Threads, job : Jobs, timed : BOOLEAN, at : Nat]
Places  == {"acquiring", "holding", "asleep", "running", "exited"}

TypeOK ==
  /\ lock \in Workers \cup {None}
  /\ q \in Seq(Jobs)
  /\ pq \subseteq Timers /\ IsFiniteSet(pq)
  /\ quit \in BOOLEAN
  /\ now \in Nat
  /\ pc \in [Workers -> Places]
  /\ job \in [Workers -> Jobs \cup {None}]
  /\ calls \subseteq Calls
  /\ fresh \subseteq Jobs
  /\ dtor \in {"alive", "quitting", "joining", "gone"}

At(place) == {w \in Workers : pc[w] = place}

Go(w, place) == pc' = [pc EXCEPT ![w] = place]

(***************************************************************************)
(* The constructor has started every worker; each of them locks lock_.     *)
(***************************************************************************)
Init ==
  /\ lock = None
  /\ q = <<>>
  /\ pq = {}
  /\ quit = FALSE
  /\ now = 0
  /\ pc = [w \in Workers |-> "acquiring"]
  /\ job = [w \in Workers |-> None]
  /\ calls = {}
  /\ fresh = Jobs
  /\ dtor = "alive"

-----------------------------------------------------------------------------
(* Callers.  A function that a worker runs may itself use the queue; other *)
(* threads may do so as long as the destructor has not been entered.       *)

InCall(t) == \E c \in calls : c.by = t

MayCall(t) ==
  /\ ~InCall(t)
  /\ IF t \in Workers THEN pc[t] = "running" ELSE dtor = "alive"

Enter(t, j, timed, at) ==
  /\ MayCall(t)
  /\ j \in fresh
  /\ fresh' = fresh \ {j}
  /\ calls' = calls \cup {[by |-> t, job |-> j, timed |-> timed, at |-> at]}
  /\ UNCHANGED <<lock, q, pq, quit, now, pc, job, dtor>>

Dispatch(t, j) == Enter(t, j, FALSE, now)

\* Faulty: the delay is subtracted.
DispatchAfterBackwards(t, j, d) == now + d < MaxTime /\ Enter(t, j, TRUE, now - d)

\* The caller computes the time point before it asks for the lock.
DispatchAfter(t, j, d) == now + d < MaxTime /\ Enter(t, j, TRUE, now + d)

\* Faulty: notify only when the queues were empty.
NotifyIfEmpty ==
  IF At("asleep") = {} \/ q # <<>> \/ pq # {}
  THEN UNCHANGED pc
  ELSE \E w \in At("asleep") : Go(w, "acquiring")

\* cv_.notify_one()
NotifyOne ==
  IF At("asleep") = {} THEN UNCHANGED pc
                       ELSE \E w \in At("asleep") : Go(w, "acquiring")

\* The critical section of dispatch() and dispatch_after().
Push(c) ==
  /\ lock = None
  /\ calls' = calls \ {c}
  /\ IF c.timed
     THEN pq' = pq \cup {[job |-> c.job, at |-> c.at]} /\ UNCHANGED q
     ELSE q' = Append(q, c.job) /\ UNCHANGED pq
  /\ NotifyOne
  /\ UNCHANGED <<lock, quit, now, job, fresh, dtor>>

-----------------------------------------------------------------------------
(* Workers: dispatch_thread_handler().                                     *)

Acquire(w) ==
  /\ pc[w] = "acquiring"
  /\ lock = None
  /\ lock' = w
  /\ Go(w, "holding")
  /\ UNCHANGED <<q, pq, quit, now, job, calls, fresh, dtor>>

\* Faulty: the predicate of the wait forgets quit_.
SleepDespiteQuit(w) ==
  /\ pc[w] = "holding"
  /\ q = <<>> /\ pq = {}
  /\ lock' = None
  /\ Go(w, "asleep")
  /\ UNCHANGED <<q, pq, quit, now, job, calls, fresh, dtor>>

\* cv_.wait() with nothing to do: unlock and sleep in one step.
Sleep(w) ==
  /\ pc[w] = "holding"
  /\ ~quit /\ q = <<>> /\ pq = {}
  /\ lock' = None
  /\ Go(w, "asleep")
  /\ UNCHANGED <<q, pq, quit, now, job, calls, fresh, dtor>>

\* A condition variable may wake up without a notification.
SpuriousWake(w) ==
  /\ pc[w] = "asleep"
  /\ Go(w, "acquiring")
  /\ UNCHANGED <<lock, q, pq, quit, now, job, calls, fresh, dtor>>

\* pq_.top(): equal time points come out of the heap in any order.
IsTop(i) == \A k \in pq : i.at <= k.at

TimerDue == \E i \in pq : IsTop(i) /\ i.at < now

\* Unlock and call the function taken off a queue.
Run(w, j) ==
  /\ lock' = None
  /\ Go(w, "running")
  /\ job' = [job EXCEPT ![w] = j]
  /\ UNCHANGED <<quit, now, calls, fresh, dtor>>

RunTimer(w) ==
  /\ pc[w] = "holding"
  /\ ~quit
  /\ \E i \in pq :
       /\ IsTop(i) /\ i.at < now
       /\ pq' = pq \ {i}
       /\ Run(w, i.job)
  /\ UNCHANGED q

\* Faulty: the front of q_ is taken but not popped.
RunNextKeeping(w) ==
  /\ pc[w] = "holding"
  /\ ~quit /\ ~TimerDue /\ q # <<>>
  /\ Run(w, Head(q))
  /\ UNCHANGED <<q, pq>>

RunNext(w) ==
  /\ pc[w] = "holding"
  /\ ~quit /\ ~TimerDue /\ q # <<>>
  /\ q' = Tail(q)
  /\ Run(w, Head(q))
  /\ UNCHANGED pq

\* The function returns and the worker asks for the lock again.
Return(w) ==
  /\ pc[w] = "running"
  /\ ~InCall(w)
  /\ Go(w, "acquiring")
  /\ job' = [job EXCEPT ![w] = None]
  /\ UNCHANGED <<lock, q, pq, quit, now, calls, fresh, dtor>>

Exit(w) ==
  /\ pc[w] = "holding"
  /\ quit
  /\ lock' = None
  /\ Go(w, "exited")
  /\ UNCHANGED <<q, pq, quit, now, job, calls, fresh, dtor>>

-----------------------------------------------------------------------------
(* ~dispatch_queue(), called when no other thread is inside the queue.     *)

Destroy ==
  /\ dtor = "alive"
  /\ \A t \in Callers : ~InCall(t)
  /\ dtor' = "quitting"
  /\ UNCHANGED <<lock, q, pq, quit, now, pc, job, calls, fresh>>

\* Lock, set quit_, cv_.notify_all(), unlock.
Quit ==
  /\ dtor = "quitting"
  /\ lock = None
  /\ quit' = TRUE
  /\ pc' = [w \in Workers |-> IF pc[w] = "asleep" THEN "acquiring" ELSE pc[w]]
  /\ dtor' = "joining"
  /\ UNCHANGED <<lock, q, pq, now, job, calls, fresh>>

Joined ==
  /\ dtor = "joining"
  /\ At("exited") = Workers
  /\ dtor' = "gone"
  /\ UNCHANGED <<lock, q, pq, quit, now, pc, job, calls, fresh>>

-----------------------------------------------------------------------------
Tick ==
  /\ now < MaxTime
  /\ now' = now + 1
  /\ UNCHANGED <<lock, q, pq, quit, pc, job, calls, fresh, dtor>>

Work(w) == Acquire(w) \/ Sleep(w) \/ RunTimer(w) \/ RunNext(w) \/ Exit(w)

Step ==
  \/ \E t \in Threads, j \in Jobs :
       Dispatch(t, j) \/ \E d \in Delays : DispatchAfter(t, j, d)
  \/ \E c \in calls : Push(c)
  \/ \E w \in Workers : Work(w) \/ Return(w) \/ SpuriousWake(w)
  \/ Destroy \/ Quit \/ Joined

Next == Step \/ Tick

Spec == Init /\ [][Next]_vars

(***************************************************************************)
(* Fairness: the scheduler runs every worker that can move, functions      *)
(* return, and time passes.  SF on the steps that take lock_: the mutex is *)
(* free again and again while other workers come and go, and a thread that *)
(* keeps asking for it is assumed to get it in the end.                    *)
(***************************************************************************)
PushBy(t) == \E c \in calls : c.by = t /\ Push(c)

Fairness ==
  /\ WF_vars(Tick)
  /\ \A w \in Workers :
       /\ WF_vars(Sleep(w) \/ RunTimer(w) \/ RunNext(w) \/ Exit(w))
       /\ WF_vars(Return(w))
       /\ SF_vars(Acquire(w))
  /\ \A t \in Threads : SF_vars(PushBy(t))
  /\ SF_vars(Quit) /\ WF_vars(Joined)

FairSpec == Spec /\ Fairness

(***************************************************************************)
(* The same pool at the scale of its timers: locking, pushing and popping  *)
(* take no time next to the hundreds of milliseconds timers wait, so the   *)
(* clock moves only when no thread can take such a step.                   *)
(***************************************************************************)
Settled ==
  ~ ENABLED (Quit \/ (\E c \in calls : Push(c)) \/ \E w \in Workers : Work(w))

TimedSpec == Init /\ [][Step \/ (Settled /\ Tick)]_vars

-----------------------------------------------------------------------------
(* Properties *)

(***************************************************************************)
(* No lost wakeup.  As long as some worker sleeps, the workers that are    *)
(* awake and not busy in a function are at least as many as the functions  *)
(* waiting in q_ and pq_: nothing pushed ever waits for a sleeping thread. *)
(* This is what one notify_one() per push, and testing the queues under    *)
(* the lock before sleeping, are for (dispatch_queue.cpp:30-50).           *)
(***************************************************************************)
Ready == At("acquiring") \cup At("holding")

PendingHaveWorkers ==
  ~quit /\ At("asleep") # {} => Cardinality(Ready) >= Len(q) + Cardinality(pq)

(***************************************************************************)
(* Shutdown reaches everybody.  After quit_ is set no worker is asleep or  *)
(* can fall asleep, so the joins of the destructor wait for running        *)
(* functions only (dispatch_queue.cpp:11-24).                              *)
(***************************************************************************)
QuitReachesAll == quit => At("asleep") = {}

(***************************************************************************)
(* A function is in one place at a time: not handed over, in a caller's    *)
(* hands, in one of the queues, or run by one worker; it is never queued   *)
(* or run twice (dispatch_queue.cpp:53-71).                                *)
(***************************************************************************)
Queued(j)  == {k \in 1..Len(q) : q[k] = j}
Holders(j) ==
  Cardinality(Queued(j)) + Cardinality({i \in pq : i.job = j})
    + Cardinality({c \in calls : c.job = j}) + Cardinality({w \in Workers : job[w] = j})

OnePlace == \A j \in Jobs : Holders(j) <= (IF j \in fresh THEN 0 ELSE 1)

(***************************************************************************)
(* What the test dispatchOrderMixed expects of dispatch(): a function to   *)
(* be run at once is run at once, although a timer is pending; time does   *)
(* not pass while a free worker lets a call of dispatch() wait.            *)
(***************************************************************************)
DispatchIsPrompt ==
  [][now' # now /\ (\E c \in calls : ~c.timed) => At("running") = Workers]_vars

(***************************************************************************)
(* The destructor returns (dispatch_queue.cpp:11-24).                      *)
(***************************************************************************)
DestructorReturns == dtor # "alive" ~> dtor = "gone"

(***************************************************************************)
(* The queue implements JobService.                                        *)
(***************************************************************************)
StageOf(j) ==
  CASE j \in fresh                    -> "fresh"
    [] \E c \in calls : c.job = j     -> "submitted"
    [] Queued(j) # {} \/ \E i \in pq : i.job = j -> "queued"
    [] \E w \in Workers : job[w] = j  -> "running"
    [] OTHER                          -> "finished"

Service == INSTANCE JobService
             WITH stage    <- [j \in Jobs |-> StageOf(j)],
                  closed   <- quit,
                  Capacity <- Cardinality(Workers)

ImplementsService == Service!FairSpec
=============================================================================
