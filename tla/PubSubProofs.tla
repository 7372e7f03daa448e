----------------------------- MODULE PubSubProofs -----------------------------
(***************************************************************************)
(* For any number of threads, subscribers, messages and pool threads: the  *)
(* types of the publish/subscribe state, that a subscriber has at most one *)
(* task in flight, that a taken semaphore has a reason, and that callbacks *)
(* come in the order of publication.                                       *)
(***************************************************************************)
EXTENDS PubSub, SequenceTheorems, TLAPS

(***************************************************************************)
(* The loops hold tasks because every vector of subscriber_channel_map     *)
(* holds subscribers of its own channel: TypeOK is inductive only with it. *)
(***************************************************************************)
Placed == \A c \in Channels : \A i \in 1..Len(subs[c]) : ChannelOf[subs[c][i]] = c

PlacedTypes == TypeOK /\ Placed

LEMMA HeadIsTask ==
  ASSUME TypeOK, NEW a \in Actors, loop[a] # <<>>
  PROVE  Head(loop[a]) \in Tasks /\ Head(loop[a])[1] \in Subscribers
<1>1. loop[a] \in Seq(Tasks)
  BY DEF TypeOK
<1>2. Head(loop[a]) \in Tasks
  BY <1>1, HeadTailProperties
<1>. QED  BY <1>2 DEF Tasks

LEMMA PassType ==
  ASSUME TypeOK, NEW a \in Actors, loop[a] # <<>>, Pass(a)
  PROVE  loop' \in [Actors -> Seq(Tasks)] /\ crashed' \in BOOLEAN
<1>1. Tail(loop[a]) \in Seq(Tasks)
  BY HeadTailProperties DEF TypeOK
<1>. QED  BY <1>1 DEF TypeOK, Pass, Forward

LEMMA SubscribeType ==
  ASSUME PlacedTypes, NEW a \in Actors, NEW s \in Subscribers, Subscribe(a, s)
  PROVE  PlacedTypes'
<1> DEFINE c == ChannelOf[s]
<1>1. c \in Channels
  BY DataAssumption
<1>2. subs[c] \in Seq(Subscribers) /\ Append(subs[c], s) \in Seq(Subscribers)
  BY <1>1 DEF PlacedTypes, TypeOK
<1>3. subs' = [subs EXCEPT ![c] = Append(subs[c], s)]
  BY DEF Subscribe
<1>4. subs' \in [Channels -> Seq(Subscribers)]
  BY <1>1, <1>2, <1>3 DEF PlacedTypes, TypeOK
<1>5. Placed'
  <2> SUFFICES ASSUME NEW d \in Channels, NEW i \in 1..Len(subs'[d])
               PROVE  ChannelOf[subs'[d][i]] = d
    BY DEF Placed, Subscribe
  <2>1. CASE d = c
    <3>1. subs'[d] = Append(subs[c], s)
      BY <1>1, <1>3, <2>1 DEF PlacedTypes, TypeOK
    <3>2. \/ i \in 1..Len(subs[c]) /\ subs'[d][i] = subs[c][i]
          \/ subs'[d][i] = s
      BY <1>2, <3>1
    <3>. QED  BY <1>1, <2>1, <3>2 DEF PlacedTypes, Placed
  <2>2. CASE d # c
    BY <1>1, <1>3, <2>2 DEF PlacedTypes, TypeOK, Placed
  <2>. QED  BY <2>1, <2>2
<1>6. crashed' \in BOOLEAN
  BY DEF Subscribe
<1>. QED  BY <1>4, <1>5, <1>6 DEF PlacedTypes, TypeOK, Subscribe

LEMMA PublishType ==
  ASSUME PlacedTypes, NEW a \in Actors, NEW m \in Msgs, Publish(a, m)
  PROVE  PlacedTypes'
<1> DEFINE v == subs[ChannelOf[m]]
           tour == [i \in 1..Len(v) |-> <<v[i], m>>]
<1>1. ChannelOf[m] \in Channels
  BY DataAssumption
<1>2. v \in Seq(Subscribers)
  BY <1>1 DEF PlacedTypes, TypeOK
<1>3. \A i \in 1..Len(v) : <<v[i], m>> \in Tasks
  <2> SUFFICES ASSUME NEW i \in 1..Len(v) PROVE <<v[i], m>> \in Tasks
    OBVIOUS
  <2>1. v[i] \in Subscribers
    BY <1>2, ElementOfSeq
  <2>2. ChannelOf[v[i]] = ChannelOf[m]
    BY <1>1 DEF PlacedTypes, Placed
  <2>. QED  BY <2>1, <2>2 DEF Tasks
<1>4. tour \in Seq(Tasks)
  <2>1. Len(v) \in Nat /\ tour \in [1..Len(v) -> Tasks]
    BY <1>2, <1>3
  <2>. QED  BY <2>1, SeqDef
<1>5. loop' \in [Actors -> Seq(Tasks)]
  BY <1>4 DEF Publish, PlacedTypes, TypeOK
<1>6. published' \in [Actors -> Seq(Msgs)]
  BY DEF Publish, PlacedTypes, TypeOK
<1>7. crashed' \in BOOLEAN
  BY DEF Publish, Forward
<1>8. UNCHANGED <<subs, sem, stage, heard, gone, closed>>
  BY DEF Publish
<1>9. TypeOK'
  BY <1>5, <1>6, <1>7, <1>8 DEF PlacedTypes, TypeOK
<1>10. Placed'
  BY <1>8 DEF PlacedTypes, Placed
<1>. QED  BY <1>9, <1>10 DEF PlacedTypes

\* A move of the pool keeps the stages of its tasks stages.
LEMMA MoveType ==
  ASSUME stage \in [Tasks -> Pool!Stages], NEW t \in Tasks, NEW from,
         NEW to \in Pool!Stages, Pool!Move(t, from, to)
  PROVE  stage' \in [Tasks -> Pool!Stages]
BY DEF Pool!Move

LEMMA ActorType ==
  ASSUME PlacedTypes, NEW a \in Actors, Visit(a) \/ Dispatched(a)
  PROVE  PlacedTypes'
<1> DEFINE t == Head(loop[a])
<1>0. {"submitted", "queued"} \subseteq Pool!Stages
  BY DEF Pool!Stages
<1>1. loop[a] # <<>> /\ t \in Tasks /\ t[1] \in Subscribers
  BY HeadIsTask DEF PlacedTypes, Visit, Dispatched
<1>2. CASE Visit(a) /\ sem[t[1]] = 1
  <2>1. stage' \in [Tasks -> Pool!Stages] /\ closed' = closed
    BY <1>0, <1>1, <1>2, MoveType DEF Visit, PlacedTypes, TypeOK, Pool!Submit, Pool!Move
  <2>2. /\ sem' = [sem EXCEPT ![t[1]] = sem[t[1]] - 1]
        /\ UNCHANGED <<subs, loop, published, heard, gone, crashed>>
    <3>1. 1 # 0
      OBVIOUS
    <3>. QED  BY <1>2, <3>1, Zenon DEF Visit
  <2>3. sem' \in [Subscribers -> {0, 1}]
    BY <1>1, <1>2, <2>2 DEF PlacedTypes, TypeOK
  <2>4. TypeOK'
    BY <2>1, <2>2, <2>3 DEF PlacedTypes, TypeOK
  <2>. QED  BY <2>2, <2>4 DEF PlacedTypes, Placed
<1>3. CASE Visit(a) /\ sem[t[1]] # 1
  BY <1>1, <1>3, PassType DEF Visit, PlacedTypes, TypeOK, Placed
<1>4. CASE Dispatched(a)
  <2>1. stage' \in [Tasks -> Pool!Stages] /\ closed' = closed
    BY <1>0, <1>1, <1>4, MoveType
    DEF Dispatched, PlacedTypes, TypeOK, Pool!Enqueue, Pool!Move
  <2>. QED  BY <1>1, <1>4, <2>1, PassType DEF Dispatched, PlacedTypes, TypeOK, Placed
<1>. QED  BY <1>2, <1>3, <1>4

LEMMA TaskType ==
  ASSUME PlacedTypes, NEW t \in Tasks, Start(t) \/ CallbackReturns(t) \/ WrongType(t)
  PROVE  PlacedTypes'
<1>0. {"running", "finished"} \subseteq Pool!Stages /\ t[1] \in Subscribers /\ t[2] \in Msgs
  BY DEF Pool!Stages, Tasks
<1>1. stage' \in [Tasks -> Pool!Stages] /\ closed' = closed
  BY <1>0, MoveType
  DEF Start, CallbackReturns, WrongType, PlacedTypes, TypeOK, Pool!Start, Pool!Finish, Pool!Move
<1>2. CASE Start(t)
  <2>1. heard' \in [Subscribers -> Seq(Msgs)]
    BY <1>0, <1>2 DEF Start, PlacedTypes, TypeOK
  <2>. QED  BY <1>1, <1>2, <2>1 DEF Start, PlacedTypes, TypeOK, Placed
<1>3. CASE CallbackReturns(t)
  BY <1>0, <1>1, <1>3 DEF CallbackReturns, PlacedTypes, TypeOK, Placed
<1>4. CASE WrongType(t)
  BY <1>1, <1>4 DEF WrongType, PlacedTypes, TypeOK, Placed
<1>. QED  BY <1>2, <1>3, <1>4

LEMMA TypeInduction == Spec => []PlacedTypes
<1>1. ASSUME Init PROVE PlacedTypes
  <2>1. stage \in [Tasks -> Pool!Stages]
    BY <1>1 DEF Init, Pool!Stages
  <2>2. subs \in [Channels -> Seq(Subscribers)] /\ loop \in [Actors -> Seq(Tasks)]
    BY <1>1, EmptySeq DEF Init
  <2>3. published \in [Actors -> Seq(Msgs)] /\ heard \in [Subscribers -> Seq(Msgs)]
    BY <1>1, EmptySeq DEF Init
  <2>4. Placed
    BY <1>1 DEF Init, Placed
  <2>. QED  BY <1>1, <2>1, <2>2, <2>3, <2>4 DEF Init, PlacedTypes, TypeOK
<1>2. PlacedTypes /\ [Next]_vars => PlacedTypes'
  <2> SUFFICES ASSUME PlacedTypes, [Next]_vars PROVE PlacedTypes'
    OBVIOUS
  <2>1. CASE Destroy
    BY <2>1 DEF Destroy, PlacedTypes, TypeOK, Placed
  <2>2. CASE DestroyQueue
    BY <2>2 DEF DestroyQueue, Pool!Close, PlacedTypes, TypeOK, Placed
  <2>3. CASE UNCHANGED vars
    BY <2>3 DEF vars, PlacedTypes, TypeOK, Placed
  <2>. QED
    BY <2>1, <2>2, <2>3, SubscribeType, PublishType, ActorType, TaskType DEF Next
<1>. QED  BY <1>1, <1>2, PTL DEF Spec

(***************************************************************************)
(* Type correctness of the publish/subscribe state (swiftrobotc.h:25-37).  *)
(***************************************************************************)
THEOREM TypeCorrect == Spec => []TypeOK
<1>1. PlacedTypes => TypeOK
  BY DEF PlacedTypes
<1>. QED  BY <1>1, TypeInduction, PTL

-----------------------------------------------------------------------------
(* What each step does to stages and semaphores, in one lemma: nothing, or *)
(* one task moves on.                                                      *)

Moves(t, from, to) == stage[t] = from /\ stage' = [stage EXCEPT ![t] = to]

LEMMA StepEffect ==
  ASSUME PlacedTypes, [Next]_vars
  PROVE  \/ UNCHANGED <<stage, sem>>
         \/ \E t \in Tasks :
              \/ /\ Moves(t, "fresh", "submitted")
                 /\ sem[t[1]] = 1 /\ sem' = [sem EXCEPT ![t[1]] = 0]
              \/ Moves(t, "submitted", "queued") /\ UNCHANGED sem
              \/ Moves(t, "queued", "running") /\ UNCHANGED sem
              \/ /\ Moves(t, "running", "finished")
                 /\ RightType(t) /\ sem' = [sem EXCEPT ![t[1]] = 1]
              \/ /\ Moves(t, "running", "finished")
                 /\ ~RightType(t) /\ UNCHANGED sem
<1> USE DEF Moves, Pool!Move
<1>1. CASE \E a \in Actors : \/ \E s \in Subscribers : Subscribe(a, s)
                             \/ \E m \in Msgs : Publish(a, m)
  BY <1>1 DEF Subscribe, Publish
<1>2. ASSUME NEW a \in Actors, Visit(a) \/ Dispatched(a),
             ~ UNCHANGED <<stage, sem>>
      PROVE  \E t \in Tasks :
               \/ /\ Moves(t, "fresh", "submitted")
                  /\ sem[t[1]] = 1 /\ sem' = [sem EXCEPT ![t[1]] = 0]
               \/ Moves(t, "submitted", "queued") /\ UNCHANGED sem
  <2>1. Head(loop[a]) \in Tasks /\ Head(loop[a])[1] \in Subscribers
    BY <1>2, HeadIsTask DEF PlacedTypes, Visit, Dispatched
  <2>2. CASE Visit(a)
    BY <1>2, <2>1, <2>2 DEF Visit, Pool!Submit
  <2>3. CASE Dispatched(a)
    BY <1>2, <2>1, <2>3 DEF Dispatched, Pool!Enqueue
  <2>. QED  BY <1>2, <2>2, <2>3
<1>3. ASSUME NEW t \in Tasks, Start(t)
      PROVE  Moves(t, "queued", "running") /\ UNCHANGED sem
  BY <1>3 DEF Start, Pool!Start
<1>4. ASSUME NEW t \in Tasks, CallbackReturns(t)
      PROVE  Moves(t, "running", "finished") /\ RightType(t) /\ sem' = [sem EXCEPT ![t[1]] = 1]
  BY <1>4 DEF CallbackReturns, Pool!Finish
<1>5. ASSUME NEW t \in Tasks, WrongType(t)
      PROVE  Moves(t, "running", "finished") /\ ~RightType(t) /\ UNCHANGED sem
  BY <1>5 DEF WrongType, Pool!Finish
<1>6. CASE Destroy \/ DestroyQueue \/ UNCHANGED vars
  BY <1>6 DEF Destroy, DestroyQueue, Pool!Close, vars
<1>. QED  BY <1>1, <1>2, <1>3, <1>4, <1>5, <1>6 DEF Next

(***************************************************************************)
(* A subscriber has at most one task in flight, and its semaphore is taken *)
(* meanwhile (swiftrobotc.h:93-99).  The invariant is inductive: the task  *)
(* that moves is either the only one in flight of its subscriber, or the   *)
(* semaphore was free and there was none.                                  *)
(***************************************************************************)
THEOREM AtMostOneCallback == Spec => []OneCallback
<1>1. Init => OneCallback
  BY DEF Init, OneCallback, InFlight
<1>2. PlacedTypes /\ OneCallback /\ [Next]_vars => OneCallback'
  <2> SUFFICES ASSUME PlacedTypes, OneCallback, [Next]_vars,
                      NEW u \in Tasks, InFlight(u)'
               PROVE  /\ sem'[u[1]] = 0
                      /\ \A v \in Tasks : v[1] = u[1] /\ InFlight(v)' => v = u
    BY DEF OneCallback
  <2> USE DEF InFlight, Moves
  <2>0. /\ stage \in [Tasks -> Pool!Stages] /\ sem \in [Subscribers -> {0, 1}]
        /\ \A t \in Tasks : t[1] \in Subscribers
    BY DEF PlacedTypes, TypeOK, Tasks
  <2>1. CASE UNCHANGED <<stage, sem>>
    BY <2>1 DEF OneCallback
  <2>2. ASSUME NEW t \in Tasks, Moves(t, "fresh", "submitted"),
               sem[t[1]] = 1, sem' = [sem EXCEPT ![t[1]] = 0]
        PROVE  /\ sem'[u[1]] = 0
               /\ \A v \in Tasks : v[1] = u[1] /\ InFlight(v)' => v = u
    <3>1. \A v \in Tasks : v[1] = t[1] => ~InFlight(v)
      BY <2>2 DEF OneCallback
    <3>. QED  BY <2>0, <2>2, <3>1 DEF OneCallback
  <2>3. ASSUME NEW t \in Tasks, UNCHANGED sem,
               Moves(t, "submitted", "queued") \/ Moves(t, "queued", "running")
                 \/ Moves(t, "running", "finished")
        PROVE  /\ sem'[u[1]] = 0
               /\ \A v \in Tasks : v[1] = u[1] /\ InFlight(v)' => v = u
    BY <2>0, <2>3 DEF OneCallback
  <2>4. ASSUME NEW t \in Tasks, Moves(t, "running", "finished"),
               sem' = [sem EXCEPT ![t[1]] = 1]
        PROVE  /\ sem'[u[1]] = 0
               /\ \A v \in Tasks : v[1] = u[1] /\ InFlight(v)' => v = u
    BY <2>0, <2>4 DEF OneCallback
  <2>. QED  BY <2>1, <2>2, <2>3, <2>4, StepEffect
<1>. QED  BY <1>1, <1>2, TypeInduction, PTL DEF Spec

(***************************************************************************)
(* A taken semaphore has a task that will release it, or a message of the  *)
(* wrong type has swallowed it (swiftrobotc.h:94-102).                     *)
(***************************************************************************)
THEOREM TakenHasReason == Spec => []SemaphoreAccounted
<1>1. Init => SemaphoreAccounted
  BY DEF Init, SemaphoreAccounted
<1>2. PlacedTypes /\ SemaphoreAccounted /\ [Next]_vars => SemaphoreAccounted'
  <2> SUFFICES ASSUME PlacedTypes, SemaphoreAccounted, [Next]_vars,
                      NEW s \in Subscribers, sem'[s] = 0
               PROVE  \E t \in Tasks : BusyWith(s, t)'
    BY DEF SemaphoreAccounted, BusyWith, InFlight
  <2>0. /\ stage \in [Tasks -> Pool!Stages] /\ sem \in [Subscribers -> {0, 1}]
        /\ \A t \in Tasks : t[1] \in Subscribers
    BY DEF PlacedTypes, TypeOK, Tasks
  <2>1. sem[s] = 0 => \E t \in Tasks : BusyWith(s, t)
    BY DEF SemaphoreAccounted, BusyWith
  <2> USE DEF BusyWith, InFlight, Moves, RightType
  <2>2. CASE UNCHANGED <<stage, sem>>
    BY <2>1, <2>2
  <2>3. ASSUME NEW t \in Tasks, Moves(t, "fresh", "submitted"),
               sem' = [sem EXCEPT ![t[1]] = 0]
        PROVE  \E v \in Tasks : BusyWith(s, v)'
    BY <2>0, <2>1, <2>3
  <2>4. ASSUME NEW t \in Tasks, UNCHANGED sem,
               Moves(t, "submitted", "queued") \/ Moves(t, "queued", "running")
                 \/ (Moves(t, "running", "finished") /\ ~RightType(t))
        PROVE  \E v \in Tasks : BusyWith(s, v)'
    BY <2>0, <2>1, <2>4
  <2>5. ASSUME NEW t \in Tasks, Moves(t, "running", "finished"),
               sem' = [sem EXCEPT ![t[1]] = 1]
        PROVE  \E v \in Tasks : BusyWith(s, v)'
    BY <2>0, <2>1, <2>5
  <2>. QED  BY <2>2, <2>3, <2>4, <2>5, StepEffect
<1>. QED  BY <1>1, <1>2, TypeInduction, PTL DEF Spec

-----------------------------------------------------------------------------
(* The order of messages.                                                  *)

LEMMA OccursAppend ==
  ASSUME NEW S, NEW s \in Seq(S), NEW z \in S, NEW x
  PROVE  Occurs(x, Append(s, z)) <=> Occurs(x, s) \/ x = z
<1>1. /\ Len(Append(s, z)) = Len(s) + 1 /\ Len(s) \in Nat
      /\ Append(s, z)[Len(s) + 1] = z
      /\ \A i \in 1..Len(s) : Append(s, z)[i] = s[i]
  OBVIOUS
<1>2. \A i \in 1..Len(Append(s, z)) : i \in 1..Len(s) \/ i = Len(s) + 1
  BY <1>1
<1>3. Len(s) + 1 \in 1..Len(Append(s, z)) /\ 1..Len(s) \subseteq 1..Len(Append(s, z))
  BY <1>1
<1>. QED  BY <1>1, <1>2, <1>3 DEF Occurs

LEMMA BeforeAppend ==
  ASSUME NEW S, NEW s \in Seq(S), NEW z \in S, NEW x, NEW y, Before(x, y, Append(s, z))
  PROVE  Before(x, y, s) \/ (y = z /\ Occurs(x, s))
<1>1. PICK i, j \in 1..Len(Append(s, z)) :
        i < j /\ Append(s, z)[i] = x /\ Append(s, z)[j] = y
  BY DEF Before
<1>2. /\ Len(Append(s, z)) = Len(s) + 1 /\ Len(s) \in Nat
      /\ Append(s, z)[Len(s) + 1] = z
      /\ \A k \in 1..Len(s) : Append(s, z)[k] = s[k]
  OBVIOUS
<1>3. i \in 1..Len(s) /\ s[i] = x
  BY <1>1, <1>2
<1>4. CASE j \in 1..Len(s)
  BY <1>1, <1>2, <1>3, <1>4 DEF Before
<1>5. CASE j = Len(s) + 1
  BY <1>1, <1>2, <1>3, <1>5 DEF Occurs
<1>. QED  BY <1>1, <1>2, <1>4, <1>5

LEMMA BeforeOccurs ==
  ASSUME NEW x, NEW y, NEW s, Before(x, y, s)
  PROVE  Occurs(x, s) /\ Occurs(y, s)
BY DEF Before, Occurs

Said(m) == \E a \in Actors : Occurs(m, published[a])

\* No message is published twice.
SaidOnce ==
  \A a, b \in Actors : \A i \in 1..Len(published[a]), k \in 1..Len(published[b]) :
    published[a][i] = published[b][k] => a = b /\ i = k

\* A loop is about the message its actor has published last.
LoopsOnLast ==
  \A a \in Actors : loop[a] # <<>> =>
    /\ Len(published[a]) > 0
    /\ \A i \in 1..Len(loop[a]) : loop[a][i][2] = published[a][Len(published[a])]

TasksSaid == \A t \in Tasks : stage[t] # "fresh" => Said(t[2])

HeardStarted ==
  \A s \in Subscribers, m \in Msgs : Occurs(m, heard[s]) =>
    <<s, m>> \in Tasks /\ stage[<<s, m>>] \in {"running", "finished"}

\* Nothing has overtaken a task that waits.
NotOvertaken ==
  \A t \in Tasks : stage[t] \in {"submitted", "queued"} =>
    \A a \in Actors, x \in Msgs :
      Occurs(x, heard[t[1]]) => ~Before(t[2], x, published[a])

OrderInv == SaidOnce /\ LoopsOnLast /\ TasksSaid /\ HeardStarted /\ NotOvertaken /\ InOrder

LEMMA PublishOrder ==
  ASSUME PlacedTypes, OrderInv, NEW a \in Actors, NEW m \in Msgs, Publish(a, m)
  PROVE  OrderInv'
<1>0. /\ published \in [Actors -> Seq(Msgs)] /\ loop \in [Actors -> Seq(Tasks)]
      /\ heard \in [Subscribers -> Seq(Msgs)]
      /\ \A t \in Tasks : t[1] \in Subscribers /\ t[2] \in Msgs /\ t = <<t[1], t[2]>>
  BY DEF PlacedTypes, TypeOK, Tasks
<1> DEFINE v == subs[ChannelOf[m]]
<1>1. /\ published' = [published EXCEPT ![a] = Append(published[a], m)]
      /\ loop' = [loop EXCEPT ![a] = [i \in 1..Len(v) |-> <<v[i], m>>]]
      /\ UNCHANGED <<stage, heard>>
      /\ ~Said(m)
  BY DEF Publish, Said
<1>2. /\ published'[a] = Append(published[a], m)
      /\ \A b \in Actors \ {a} : published'[b] = published[b]
  BY <1>0, <1>1
<1>3. /\ Len(published'[a]) = Len(published[a]) + 1 /\ Len(published[a]) \in Nat
      /\ published'[a][Len(published[a]) + 1] = m
      /\ \A i \in 1..Len(published[a]) : published'[a][i] = published[a][i]
  BY <1>0, <1>2
<1>4. \A x : Said(x) => Said(x)'
  <2>1. ASSUME NEW b \in Actors, NEW x, Occurs(x, published[b])
        PROVE  Occurs(x, published'[b])
    <3>1. published[a] \in Seq(Msgs)
      BY <1>0
    <3>2. Occurs(x, published[a]) => Occurs(x, Append(published[a], m))
      BY <3>1, OccursAppend
    <3>. QED  BY <1>2, <2>1, <3>2
  <2>. QED  BY <2>1 DEF Said
<1>5. ASSUME NEW b \in Actors, NEW x, NEW y, Before(x, y, published'[b])
      PROVE  Before(x, y, published[b]) \/ y = m
  <2>1. published[a] \in Seq(Msgs)
    BY <1>0
  <2>2. Before(x, y, Append(published[a], m)) => Before(x, y, published[a]) \/ y = m
    BY <2>1, BeforeAppend
  <2>. QED  BY <1>2, <1>5, <2>2
<1>6. ASSUME NEW s \in Subscribers PROVE ~Occurs(m, heard[s])
  <2>1. ASSUME Occurs(m, heard[s]) PROVE Said(m)
    <3>1. <<s, m>> \in Tasks /\ stage[<<s, m>>] # "fresh"
      BY <2>1 DEF OrderInv, HeardStarted
    <3>. QED  BY <3>1 DEF OrderInv, TasksSaid
  <2>. QED  BY <1>1, <2>1
<1>7. SaidOnce'
  <2> SUFFICES ASSUME NEW b \in Actors, NEW c \in Actors,
                      NEW i \in 1..Len(published'[b]), NEW k \in 1..Len(published'[c]),
                      published'[b][i] = published'[c][k]
               PROVE  b = c /\ i = k
    BY DEF SaidOnce
  <2>1. \A d \in Actors : \A n \in 1..Len(published'[d]) :
          \/ n \in 1..Len(published[d]) /\ published'[d][n] = published[d][n]
          \/ d = a /\ n = Len(published[a]) + 1 /\ published'[d][n] = m
    <3> SUFFICES ASSUME NEW d \in Actors, NEW n \in 1..Len(published'[d])
                 PROVE  \/ n \in 1..Len(published[d]) /\ published'[d][n] = published[d][n]
                        \/ d = a /\ n = Len(published[a]) + 1 /\ published'[d][n] = m
      OBVIOUS
    <3>1. CASE d = a  BY <1>3, <3>1
    <3>2. CASE d # a  BY <1>2, <3>2
    <3>. QED  BY <3>1, <3>2
  <2>2. \A d \in Actors : \A n \in 1..Len(published[d]) : published[d][n] # m
    BY <1>1 DEF Said, Occurs
  <2>. QED  BY <2>1, <2>2, SMTT(20) DEF OrderInv, SaidOnce
<1>8. LoopsOnLast'
  <2> SUFFICES ASSUME NEW b \in Actors, loop'[b] # <<>>
               PROVE  /\ Len(published'[b]) > 0
                      /\ \A i \in 1..Len(loop'[b]) :
                           loop'[b][i][2] = published'[b][Len(published'[b])]
    BY DEF LoopsOnLast
  <2>1. CASE b = a
    <3>1. ChannelOf[m] \in Channels
      BY DataAssumption
    <3>2. v \in Seq(Subscribers) /\ Len(v) \in Nat
      BY <3>1 DEF PlacedTypes, TypeOK
    <3>3. loop'[a] = [i \in 1..Len(v) |-> <<v[i], m>>]
      BY <1>0, <1>1
    <3>4. Len(loop'[a]) = Len(v)
      BY <3>2, <3>3
    <3>5. \A i \in 1..Len(loop'[a]) : loop'[a][i][2] = m
      BY <3>3, <3>4
    <3>. QED  BY <1>3, <2>1, <3>5
  <2>2. CASE b # a
    BY <1>0, <1>1, <1>2, <2>2 DEF OrderInv, LoopsOnLast
  <2>. QED  BY <2>1, <2>2
<1>9. TasksSaid' /\ HeardStarted'
  BY <1>1, <1>4 DEF OrderInv, TasksSaid, HeardStarted
<1>10. NotOvertaken'
  BY <1>0, <1>1, <1>5, <1>6 DEF OrderInv, NotOvertaken
<1>11. InOrder'
  <2> SUFFICES ASSUME NEW s \in Subscribers, NEW b \in Actors, NEW x \in Msgs, NEW y \in Msgs,
                      Before(x, y, heard[s]), Before(y, x, published'[b])
               PROVE  FALSE
    BY <1>1 DEF InOrder
  <2>1. x # m
    BY <1>6, BeforeOccurs
  <2>2. Before(y, x, published[b])
    BY <1>5, <2>1
  <2>. QED  BY <2>2 DEF OrderInv, InOrder
<1>. QED  BY <1>7, <1>8, <1>9, <1>10, <1>11 DEF OrderInv

\* A step of a loop: its front may be handed over, and it may move on.
LEMMA LoopOrder ==
  ASSUME PlacedTypes, OrderInv, NEW a \in Actors, loop[a] # <<>>,
         UNCHANGED <<published, heard>>,
         UNCHANGED loop \/ loop' = [loop EXCEPT ![a] = Tail(loop[a])],
         \/ UNCHANGED stage
         \/ \E to \in {"submitted", "queued"} :
              /\ stage[Head(loop[a])] \in {"fresh", "submitted"}
              /\ stage' = [stage EXCEPT ![Head(loop[a])] = to]
  PROVE  OrderInv'
<1> DEFINE t == Head(loop[a])
           last == published[a][Len(published[a])]
<1>0. /\ published \in [Actors -> Seq(Msgs)] /\ loop \in [Actors -> Seq(Tasks)]
      /\ stage \in [Tasks -> Pool!Stages]
      /\ t \in Tasks /\ loop[a] \in Seq(Tasks)
  BY HeadIsTask DEF PlacedTypes, TypeOK
<1>1. /\ Len(loop[a]) \in Nat /\ Len(loop[a]) > 0 /\ t = loop[a][1]
      /\ Len(Tail(loop[a])) = Len(loop[a]) - 1
      /\ \A i \in 1..Len(Tail(loop[a])) : Tail(loop[a])[i] = loop[a][i + 1]
  BY <1>0
<1>2. Len(published[a]) > 0 /\ Len(published[a]) \in Nat /\ t[2] = last
  <2>1. 1 \in 1..Len(loop[a])
    BY <1>1
  <2>. QED  BY <1>0, <1>1, <2>1 DEF OrderInv, LoopsOnLast
<1>3. LoopsOnLast'
  <2> SUFFICES ASSUME NEW b \in Actors, loop'[b] # <<>>
               PROVE  /\ Len(published[b]) > 0
                      /\ \A i \in 1..Len(loop'[b]) :
                           loop'[b][i][2] = published[b][Len(published[b])]
    BY DEF LoopsOnLast
  <2>1. CASE loop'[b] = loop[b]
    BY <2>1 DEF OrderInv, LoopsOnLast
  <2>2. CASE b = a /\ loop'[a] = Tail(loop[a])
    <3>1. \A i \in 1..Len(loop'[a]) : i + 1 \in 1..Len(loop[a]) /\ loop'[a][i] = loop[a][i + 1]
      BY <1>1, <2>2
    <3>2. \A i \in 1..Len(loop[a]) : loop[a][i][2] = last
      BY DEF OrderInv, LoopsOnLast
    <3>. QED  BY <1>2, <2>2, <3>1, <3>2
  <2>. QED  BY <1>0, <2>1, <2>2
<1>4. Said(t[2])
  <2>1. Len(published[a]) \in 1..Len(published[a])
    BY <1>2
  <2>. QED  BY <1>2, <2>1 DEF Said, Occurs
<1>5. \A b \in Actors : \A x : ~Before(t[2], x, published[b])
  <2> SUFFICES ASSUME NEW b \in Actors, NEW x, Before(t[2], x, published[b]) PROVE FALSE
    OBVIOUS
  <2>1. PICK i, j \in 1..Len(published[b]) : i < j /\ published[b][i] = t[2]
    BY DEF Before
  <2>2. Len(published[a]) \in 1..Len(published[a])
    BY <1>2
  <2>3. b = a /\ i = Len(published[a])
    BY <1>2, <2>1, <2>2 DEF OrderInv, SaidOnce
  <2>. QED  BY <1>2, <2>1, <2>3
<1>6. \A u \in Tasks : \/ stage'[u] = stage[u]
                       \/ u = t /\ stage'[u] \in {"submitted", "queued"}
                            /\ stage[u] \in {"fresh", "submitted"}
  <2>1. CASE UNCHANGED stage
    BY <2>1
  <2>2. ASSUME NEW to \in {"submitted", "queued"}, stage[t] \in {"fresh", "submitted"},
               stage' = [stage EXCEPT ![t] = to]
        PROVE  \A u \in Tasks : \/ stage'[u] = stage[u]
                                \/ u = t /\ stage'[u] \in {"submitted", "queued"}
                                     /\ stage[u] \in {"fresh", "submitted"}
    BY <1>0, <2>2
  <2>. QED  BY <2>1, <2>2
<1>7. TasksSaid'
  BY <1>4, <1>6 DEF OrderInv, TasksSaid, Said
<1>8. HeardStarted'
  <2> SUFFICES ASSUME NEW s \in Subscribers, NEW m \in Msgs, Occurs(m, heard[s])
               PROVE  <<s, m>> \in Tasks /\ stage'[<<s, m>>] \in {"running", "finished"}
    BY DEF HeardStarted
  <2>1. <<s, m>> \in Tasks /\ stage[<<s, m>>] \in {"running", "finished"}
    BY DEF OrderInv, HeardStarted
  <2>. QED  BY <1>6, <2>1
<1>9. NotOvertaken'
  BY <1>5, <1>6 DEF OrderInv, NotOvertaken
<1>. QED  BY <1>3, <1>7, <1>8, <1>9 DEF OrderInv, SaidOnce, InOrder

LEMMA StartOrder ==
  ASSUME PlacedTypes, OneCallback, OrderInv, NEW t \in Tasks, Start(t)
  PROVE  OrderInv'
<1> DEFINE s == t[1]
           m == t[2]
<1>0. /\ heard \in [Subscribers -> Seq(Msgs)] /\ stage \in [Tasks -> Pool!Stages]
      /\ \A u \in Tasks : u[1] \in Subscribers /\ u[2] \in Msgs /\ u = <<u[1], u[2]>>
  BY DEF PlacedTypes, TypeOK, Tasks
<1>1. /\ stage[t] = "queued" /\ stage' = [stage EXCEPT ![t] = "running"]
      /\ UNCHANGED <<loop, published>>
      /\ heard' = [heard EXCEPT ![s] = IF RightType(t) THEN Append(heard[s], m) ELSE heard[s]]
  BY DEF Start, Pool!Start, Pool!Move
<1>2. /\ heard'[s] \in {heard[s], Append(heard[s], m)}
      /\ \A r \in Subscribers \ {s} : heard'[r] = heard[r]
  BY <1>0, <1>1
<1>3. SaidOnce' /\ LoopsOnLast'
  BY <1>1 DEF OrderInv, SaidOnce, LoopsOnLast
<1>4. TasksSaid'
  <2>1. \A x : Said(x)' <=> Said(x)
    BY <1>1 DEF Said
  <2>. QED  BY <1>0, <1>1, <2>1 DEF OrderInv, TasksSaid
<1>5. HeardStarted'
  <2> SUFFICES ASSUME NEW r \in Subscribers, NEW x \in Msgs, Occurs(x, heard'[r])
               PROVE  <<r, x>> \in Tasks /\ stage'[<<r, x>>] \in {"running", "finished"}
    BY DEF HeardStarted
  <2>1. CASE Occurs(x, heard[r])
    BY <1>0, <1>1, <2>1 DEF OrderInv, HeardStarted
  <2>2. CASE ~Occurs(x, heard[r])
    <3>1. r = s /\ x = m
      <4>1. heard[s] \in Seq(Msgs) /\ m \in Msgs
        BY <1>0
      <4>2. Occurs(x, Append(heard[s], m)) <=> Occurs(x, heard[s]) \/ x = m
        BY <4>1, OccursAppend
      <4>. QED  BY <1>2, <2>2, <4>2
    <3>. QED  BY <1>0, <1>1, <3>1
  <2>. QED  BY <2>1, <2>2
<1>6. NotOvertaken'
  <2> SUFFICES ASSUME NEW u \in Tasks, stage'[u] \in {"submitted", "queued"},
                      NEW a \in Actors, NEW x \in Msgs,
                      Occurs(x, heard'[u[1]]), Before(u[2], x, published[a])
               PROVE  FALSE
    BY <1>1 DEF NotOvertaken
  <2>1. u # t /\ stage[u] \in {"submitted", "queued"}
    BY <1>0, <1>1
  <2>2. u[1] # s
    BY <1>1, <2>1 DEF OneCallback, InFlight
  <2>3. Occurs(x, heard[u[1]])
    BY <1>0, <1>2, <2>2
  <2>. QED  BY <2>1, <2>3 DEF OrderInv, NotOvertaken
<1>7. InOrder'
  <2> SUFFICES ASSUME NEW r \in Subscribers, NEW a \in Actors, NEW x \in Msgs, NEW y \in Msgs,
                      Before(x, y, heard'[r]), Before(y, x, published[a])
               PROVE  FALSE
    BY <1>1 DEF InOrder
  <2>1. CASE Before(x, y, heard[r])
    BY <2>1 DEF OrderInv, InOrder
  <2>2. CASE ~Before(x, y, heard[r])
    <3>1. r = s /\ y = m /\ Occurs(x, heard[s])
      <4>1. heard[s] \in Seq(Msgs) /\ m \in Msgs
        BY <1>0
      <4>2. Before(x, y, Append(heard[s], m)) =>
              Before(x, y, heard[s]) \/ (y = m /\ Occurs(x, heard[s]))
        BY <4>1, BeforeAppend
      <4>. QED  BY <1>2, <2>2, <4>2
    <3>. QED  BY <1>1, <3>1 DEF OrderInv, NotOvertaken
  <2>. QED  BY <2>1, <2>2
<1>. QED  BY <1>3, <1>4, <1>5, <1>6, <1>7 DEF OrderInv

\* The other steps: a task ends, or nothing of this changes.
LEMMA OtherOrder ==
  ASSUME PlacedTypes, OrderInv, UNCHANGED <<published, loop, heard>>,
         \/ UNCHANGED stage
         \/ \E t \in Tasks : Moves(t, "running", "finished")
  PROVE  OrderInv'
<1>0. stage \in [Tasks -> Pool!Stages]
  BY DEF PlacedTypes, TypeOK
<1>1. \A u \in Tasks : \/ stage'[u] = stage[u]
                       \/ stage[u] = "running" /\ stage'[u] = "finished"
  <2>1. CASE UNCHANGED stage
    BY <2>1
  <2>2. ASSUME NEW t \in Tasks, Moves(t, "running", "finished")
        PROVE  \A u \in Tasks : \/ stage'[u] = stage[u]
                                \/ stage[u] = "running" /\ stage'[u] = "finished"
    BY <1>0, <2>2 DEF Moves
  <2>. QED  BY <2>1, <2>2
<1>2. TasksSaid' /\ HeardStarted' /\ NotOvertaken'
  BY <1>1 DEF OrderInv, TasksSaid, HeardStarted, NotOvertaken, Said
<1>. QED  BY <1>2 DEF OrderInv, SaidOnce, LoopsOnLast, InOrder

LEMMA OrderStart == Init => OrderInv
<1> SUFFICES ASSUME Init PROVE OrderInv
  OBVIOUS
<1>1. /\ \A a \in Actors : Len(published[a]) = 0 /\ loop[a] = <<>>
      /\ \A s \in Subscribers : Len(heard[s]) = 0
      /\ \A t \in Tasks : stage[t] = "fresh"
  BY DEF Init
<1>. QED
  BY <1>1 DEF OrderInv, SaidOnce, LoopsOnLast, TasksSaid, HeardStarted, NotOvertaken,
              InOrder, Before, Occurs

LEMMA OrderStep == PlacedTypes /\ OneCallback /\ OrderInv /\ [Next]_vars => OrderInv'
<1> SUFFICES ASSUME PlacedTypes, OneCallback, OrderInv, [Next]_vars PROVE OrderInv'
  OBVIOUS
<1>1. ASSUME NEW a \in Actors, NEW s \in Subscribers, Subscribe(a, s) PROVE OrderInv'
  BY <1>1, OtherOrder DEF Subscribe
<1>2. ASSUME NEW a \in Actors, NEW m \in Msgs, Publish(a, m) PROVE OrderInv'
  BY <1>2, PublishOrder
<1>3. ASSUME NEW a \in Actors, Visit(a) PROVE OrderInv'
  <2>1. /\ loop[a] # <<>> /\ UNCHANGED <<published, heard>>
        /\ stage[Head(loop[a])] = "fresh"
        /\ \/ UNCHANGED loop /\ stage' = [stage EXCEPT ![Head(loop[a])] = "submitted"]
           \/ UNCHANGED stage /\ loop' = [loop EXCEPT ![a] = Tail(loop[a])]
    BY <1>3, Zenon DEF Visit, Pass, Pool!Submit, Pool!Move
  <2>. QED  BY <2>1, LoopOrder
<1>4. ASSUME NEW a \in Actors, Dispatched(a) PROVE OrderInv'
  <2>1. /\ loop[a] # <<>> /\ UNCHANGED <<published, heard>>
        /\ stage[Head(loop[a])] = "submitted"
        /\ stage' = [stage EXCEPT ![Head(loop[a])] = "queued"]
        /\ loop' = [loop EXCEPT ![a] = Tail(loop[a])]
    BY <1>4, Zenon DEF Dispatched, Pass, Pool!Enqueue, Pool!Move
  <2>. QED  BY <2>1, LoopOrder
<1>5. ASSUME NEW t \in Tasks, Start(t) PROVE OrderInv'
  BY <1>5, StartOrder
<1>6. ASSUME NEW t \in Tasks, CallbackReturns(t) \/ WrongType(t) PROVE OrderInv'
  <2>1. Moves(t, "running", "finished") /\ UNCHANGED <<published, loop, heard>>
    BY <1>6 DEF CallbackReturns, WrongType, Pool!Finish, Pool!Move, Moves
  <2>. QED  BY <2>1, OtherOrder
<1>7. CASE Destroy \/ DestroyQueue \/ UNCHANGED vars
  BY <1>7, OtherOrder DEF Destroy, DestroyQueue, Pool!Close, vars
<1>. QED  BY <1>1, <1>2, <1>3, <1>4, <1>5, <1>6, <1>7 DEF Next

(***************************************************************************)
(* What one thread publishes, a callback hears in that order               *)
(* (swiftrobotc.h:92-106).  A task that waits keeps its subscriber's       *)
(* semaphore, so nothing published after its message can have been heard.  *)
(***************************************************************************)
THEOREM HeardInOrder == Spec => []InOrder
<1>1. OrderInv => InOrder
  BY DEF OrderInv
<1>. QED  BY <1>1, OrderStart, OrderStep, TypeInduction, AtMostOneCallback, PTL DEF Spec

-----------------------------------------------------------------------------
(* Whom a notify() still has to visit.                                     *)

\* subscriber_channel_map has each subscriber once.
StoredOnce ==
  \A c, d \in Channels : \A i \in 1..Len(subs[c]), k \in 1..Len(subs[d]) :
    subs[c][i] = subs[d][k] => c = d /\ i = k

\* A walk comes to nobody twice.
VisitsOnce ==
  \A a \in Actors : \A i, k \in 1..Len(loop[a]) : loop[a][i] = loop[a][k] => i = k

(***************************************************************************)
(* No notify() comes to a subscriber who has been handed its message, by   *)
(* an earlier round or by anybody else: nobody gets a message twice, and   *)
(* the round after the one under way can always begin (swiftrobotc.h:92).  *)
(***************************************************************************)
HandedOverOnce ==
  \A a \in Actors : \A i \in 1..Len(loop[a]) :
    stage[loop[a][i]] = "fresh" \/ (i = 1 /\ stage[loop[a][i]] = "submitted")

TourInv == StoredOnce /\ VisitsOnce /\ HandedOverOnce

LEMMA SubscribeTour ==
  ASSUME PlacedTypes, TourInv, NEW a \in Actors, NEW s \in Subscribers, Subscribe(a, s)
  PROVE  TourInv'
<1> DEFINE c == ChannelOf[s]
<1>1. c \in Channels
  BY DataAssumption
<1>2. /\ subs[c] \in Seq(Subscribers)
      /\ subs' = [subs EXCEPT ![c] = Append(subs[c], s)]
      /\ UNCHANGED <<loop, stage>>
  BY <1>1 DEF PlacedTypes, TypeOK, Subscribe
<1>3. subs'[c] = Append(subs[c], s) /\ \A d \in Channels \ {c} : subs'[d] = subs[d]
  BY <1>1, <1>2 DEF PlacedTypes, TypeOK
<1>4. \A d \in Channels : \A i \in 1..Len(subs[d]) : subs[d][i] # s
  BY DEF Subscribe, Occurs
<1>5. \A d \in Channels : \A i \in 1..Len(subs'[d]) :
        \/ i \in 1..Len(subs[d]) /\ subs'[d][i] = subs[d][i]
        \/ d = c /\ i = Len(subs[c]) + 1 /\ subs'[d][i] = s
  <2> SUFFICES ASSUME NEW d \in Channels, NEW i \in 1..Len(subs'[d])
               PROVE  \/ i \in 1..Len(subs[d]) /\ subs'[d][i] = subs[d][i]
                      \/ d = c /\ i = Len(subs[c]) + 1 /\ subs'[d][i] = s
    OBVIOUS
  <2>1. CASE d = c
    <3>1. /\ Len(Append(subs[c], s)) = Len(subs[c]) + 1 /\ Len(subs[c]) \in Nat
          /\ Append(subs[c], s)[Len(subs[c]) + 1] = s
          /\ \A k \in 1..Len(subs[c]) : Append(subs[c], s)[k] = subs[c][k]
      BY <1>2
    <3>. QED  BY <1>3, <2>1, <3>1
  <2>2. CASE d # c
    BY <1>3, <2>2
  <2>. QED  BY <2>1, <2>2
<1>6. StoredOnce'
  <2> SUFFICES ASSUME NEW d \in Channels, NEW e \in Channels,
                      NEW i \in 1..Len(subs'[d]), NEW k \in 1..Len(subs'[e]),
                      subs'[d][i] = subs'[e][k]
               PROVE  d = e /\ i = k
    BY DEF StoredOnce
  <2>1. \/ /\ i \in 1..Len(subs[d]) /\ subs'[d][i] = subs[d][i]
           /\ k \in 1..Len(subs[e]) /\ subs'[e][k] = subs[e][k]
        \/ d = c /\ e = c /\ i = Len(subs[c]) + 1 /\ k = Len(subs[c]) + 1
    <3>1. \/ i \in 1..Len(subs[d]) /\ subs'[d][i] = subs[d][i]
          \/ d = c /\ i = Len(subs[c]) + 1 /\ subs'[d][i] = s
      BY <1>5
    <3>2. \/ k \in 1..Len(subs[e]) /\ subs'[e][k] = subs[e][k]
          \/ e = c /\ k = Len(subs[c]) + 1 /\ subs'[e][k] = s
      BY <1>5
    <3>. QED  BY <1>4, <3>1, <3>2
  <2>. QED  BY <2>1 DEF TourInv, StoredOnce
<1>. QED  BY <1>2, <1>6 DEF TourInv, VisitsOnce, HandedOverOnce

LEMMA PublishTour ==
  ASSUME PlacedTypes, OrderInv, TourInv, NEW a \in Actors, NEW m \in Msgs, Publish(a, m)
  PROVE  TourInv'
<1> DEFINE v == subs[ChannelOf[m]]
<1>1. ChannelOf[m] \in Channels
  BY DataAssumption
<1>2. v \in Seq(Subscribers) /\ Len(v) \in Nat
  BY <1>1 DEF PlacedTypes, TypeOK
<1>3. /\ loop \in [Actors -> Seq(Tasks)]
      /\ loop' = [loop EXCEPT ![a] = [i \in 1..Len(v) |-> <<v[i], m>>]]
      /\ UNCHANGED <<stage, subs>>
      /\ ~Said(m)
  BY DEF PlacedTypes, TypeOK, Publish, Said
<1>4. loop'[a] = [i \in 1..Len(v) |-> <<v[i], m>>]
  BY <1>3
<1>5. Len(loop'[a]) = Len(v) /\ \A i \in 1..Len(v) : loop'[a][i] = <<v[i], m>>
  BY <1>2, <1>4
<1>6. \A b \in Actors \ {a} : loop'[b] = loop[b]
  BY <1>3
<1>7. VisitsOnce'
  <2> SUFFICES ASSUME NEW b \in Actors, NEW i \in 1..Len(loop'[b]), NEW k \in 1..Len(loop'[b]),
                      loop'[b][i] = loop'[b][k]
               PROVE  i = k
    BY DEF VisitsOnce
  <2>1. CASE b = a
    <3>1. v[i] = v[k] /\ i \in 1..Len(v) /\ k \in 1..Len(v)
      BY <1>5, <2>1
    <3>. QED  BY <1>1, <3>1 DEF TourInv, StoredOnce
  <2>2. CASE b # a
    BY <1>6, <2>2 DEF TourInv, VisitsOnce
  <2>. QED  BY <2>1, <2>2
<1>8. HandedOverOnce'
  <2> SUFFICES ASSUME NEW b \in Actors, NEW i \in 1..Len(loop'[b])
               PROVE  \/ stage[loop'[b][i]] = "fresh"
                      \/ i = 1 /\ stage[loop'[b][i]] = "submitted"
    BY <1>3 DEF HandedOverOnce
  <2>1. CASE b = a
    <3>1. i \in 1..Len(v) /\ loop'[a][i] = <<v[i], m>>
      BY <1>5, <2>1
    <3>2. v[i] \in Subscribers /\ ChannelOf[v[i]] = ChannelOf[m]
      BY <1>1, <1>2, <3>1, ElementOfSeq DEF PlacedTypes, Placed
    <3>3. <<v[i], m>> \in Tasks
      BY <3>2 DEF Tasks
    <3>. QED  BY <1>3, <2>1, <3>1, <3>3 DEF OrderInv, TasksSaid
  <2>2. CASE b # a
    BY <1>6, <2>2 DEF TourInv, HandedOverOnce
  <2>. QED  BY <2>1, <2>2
<1>. QED  BY <1>3, <1>7, <1>8 DEF TourInv, StoredOnce

\* Two walks are about two messages.
LEMMA ApartTours ==
  ASSUME PlacedTypes, OrderInv, NEW a \in Actors, NEW b \in Actors, a # b,
         NEW i \in 1..Len(loop[a]), NEW k \in 1..Len(loop[b])
  PROVE  loop[a][i] # loop[b][k]
<1>1. /\ loop[a] \in Seq(Tasks) /\ loop[b] \in Seq(Tasks)
      /\ published[a] \in Seq(Msgs) /\ published[b] \in Seq(Msgs)
  BY DEF PlacedTypes, TypeOK
<1>2. loop[a] # <<>> /\ loop[b] # <<>>
  BY <1>1
<1>3. /\ Len(published[a]) \in 1..Len(published[a])
      /\ loop[a][i][2] = published[a][Len(published[a])]
      /\ Len(published[b]) \in 1..Len(published[b])
      /\ loop[b][k][2] = published[b][Len(published[b])]
  BY <1>1, <1>2 DEF OrderInv, LoopsOnLast
<1>4. published[a][Len(published[a])] # published[b][Len(published[b])]
  BY <1>3 DEF OrderInv, SaidOnce
<1>. QED  BY <1>3, <1>4

\* A step of a loop hands its front over, or goes on to the next.
LEMMA RoundTour ==
  ASSUME PlacedTypes, OrderInv, TourInv, NEW a \in Actors, loop[a] # <<>>, UNCHANGED subs,
         \/ UNCHANGED loop /\ stage' = [stage EXCEPT ![Head(loop[a])] = "submitted"]
         \/ /\ loop' = [loop EXCEPT ![a] = Tail(loop[a])]
            /\ UNCHANGED stage \/ stage' = [stage EXCEPT ![Head(loop[a])] = "queued"]
  PROVE  TourInv'
<1> DEFINE t == Head(loop[a])
<1>0. /\ loop \in [Actors -> Seq(Tasks)] /\ stage \in [Tasks -> Pool!Stages]
      /\ t \in Tasks /\ loop[a] \in Seq(Tasks)
  BY HeadIsTask DEF PlacedTypes, TypeOK
<1>1. /\ Len(loop[a]) \in Nat /\ 1 \in 1..Len(loop[a]) /\ t = loop[a][1]
      /\ Len(Tail(loop[a])) = Len(loop[a]) - 1
      /\ \A i \in 1..Len(Tail(loop[a])) : Tail(loop[a])[i] = loop[a][i + 1]
  BY <1>0
<1>2. \A b \in Actors : \A i \in 1..Len(loop[b]) : loop[b][i] \in Tasks
  BY <1>0, ElementOfSeq
<1>3. \A b \in Actors : \A i \in 1..Len(loop[b]) : loop[b][i] = t => b = a /\ i = 1
  <2> SUFFICES ASSUME NEW b \in Actors, NEW i \in 1..Len(loop[b]), loop[b][i] = t
               PROVE  b = a /\ i = 1
    OBVIOUS
  <2>1. b = a
    BY <1>1, ApartTours
  <2>. QED  BY <1>1, <2>1 DEF TourInv, VisitsOnce
<1>4. \A u \in Tasks : u # t => stage'[u] = stage[u]
  BY <1>0
<1>5. CASE UNCHANGED loop /\ stage' = [stage EXCEPT ![t] = "submitted"]
  <2>1. stage'[t] = "submitted"
    BY <1>0, <1>5
  <2>2. HandedOverOnce'
    <3> SUFFICES ASSUME NEW b \in Actors, NEW i \in 1..Len(loop[b])
                 PROVE  \/ stage'[loop[b][i]] = "fresh"
                        \/ i = 1 /\ stage'[loop[b][i]] = "submitted"
      BY <1>5 DEF HandedOverOnce
    <3>1. CASE loop[b][i] = t
      BY <1>3, <2>1, <3>1
    <3>2. CASE loop[b][i] # t
      BY <1>2, <1>4, <3>2 DEF TourInv, HandedOverOnce
    <3>. QED  BY <3>1, <3>2
  <2>. QED  BY <1>5, <2>2 DEF TourInv, StoredOnce, VisitsOnce
<1>6. CASE loop' = [loop EXCEPT ![a] = Tail(loop[a])]
  <2>1. loop'[a] = Tail(loop[a]) /\ \A b \in Actors \ {a} : loop'[b] = loop[b]
    BY <1>0, <1>6
  <2>2. \A i \in 1..Len(loop'[a]) : i + 1 \in 1..Len(loop[a]) /\ loop'[a][i] = loop[a][i + 1]
    BY <1>1, <2>1
  <2>3. \A i \in 1..Len(loop[a]) : i # 1 => stage[loop[a][i]] = "fresh"
    BY DEF TourInv, HandedOverOnce
  <2>4. HandedOverOnce'
    <3> SUFFICES ASSUME NEW b \in Actors, NEW i \in 1..Len(loop'[b])
                 PROVE  \/ stage'[loop'[b][i]] = "fresh"
                        \/ i = 1 /\ stage'[loop'[b][i]] = "submitted"
      BY DEF HandedOverOnce
    <3>1. CASE b = a
      <4>1. i + 1 \in 1..Len(loop[a]) /\ i + 1 # 1 /\ loop'[a][i] = loop[a][i + 1]
        BY <2>2, <3>1
      <4>2. loop[a][i + 1] # t
        BY <1>3, <4>1
      <4>. QED  BY <1>2, <1>4, <2>3, <3>1, <4>1, <4>2
    <3>2. CASE b # a
      <4>1. i \in 1..Len(loop[b]) /\ loop'[b][i] = loop[b][i] /\ loop[b][i] # t
        BY <1>3, <2>1, <3>2
      <4>. QED  BY <1>2, <1>4, <4>1 DEF TourInv, HandedOverOnce
    <3>. QED  BY <3>1, <3>2
  <2>5. VisitsOnce'
    <3> SUFFICES ASSUME NEW b \in Actors, NEW i \in 1..Len(loop'[b]), NEW k \in 1..Len(loop'[b]),
                        loop'[b][i] = loop'[b][k]
                 PROVE  i = k
      BY DEF VisitsOnce
    <3>1. CASE b = a
      <4>1. /\ i + 1 \in 1..Len(loop[a]) /\ k + 1 \in 1..Len(loop[a])
            /\ loop[a][i + 1] = loop[a][k + 1]
        BY <2>2, <3>1
      <4>2. i + 1 = k + 1
        BY <4>1 DEF TourInv, VisitsOnce
      <4>. QED  BY <4>2
    <3>2. CASE b # a
      BY <2>1, <3>2 DEF TourInv, VisitsOnce
    <3>. QED  BY <3>1, <3>2
  <2>. QED  BY <2>4, <2>5 DEF TourInv, StoredOnce
<1>. QED  BY <1>5, <1>6

\* What has been handed over and moves on is in no loop.
LEMMA TaskTour ==
  ASSUME PlacedTypes, TourInv, UNCHANGED <<subs, loop>>, NEW t \in Tasks,
         Moves(t, "queued", "running") \/ Moves(t, "running", "finished")
  PROVE  TourInv'
<1>1. stage \in [Tasks -> Pool!Stages] /\ \A a \in Actors : loop[a] \in Seq(Tasks)
  BY DEF PlacedTypes, TypeOK
<1>2. \A u \in Tasks : stage[u] \in {"fresh", "submitted"} => stage'[u] = stage[u]
  BY <1>1 DEF Moves
<1>3. \A a \in Actors : \A i \in 1..Len(loop[a]) : loop[a][i] \in Tasks
  BY <1>1, ElementOfSeq
<1>4. HandedOverOnce'
  BY <1>2, <1>3 DEF TourInv, HandedOverOnce
<1>. QED  BY <1>4 DEF TourInv, StoredOnce, VisitsOnce

(***************************************************************************)
(* Nobody is handed a message twice, and no round of notify() waits for    *)
(* what another has done (swiftrobotc.h:92-106), because the map has each  *)
(* subscriber once and each message has one publish().                     *)
(***************************************************************************)
THEOREM NobodyTwice == Spec => []HandedOverOnce
<1>1. Init => OrderInv /\ TourInv
  <2> SUFFICES ASSUME Init PROVE OrderInv /\ TourInv
    OBVIOUS
  <2>1. \A a \in Actors : Len(loop[a]) = 0
    BY DEF Init
  <2>2. \A c \in Channels : Len(subs[c]) = 0
    BY DEF Init
  <2>3. TourInv
    BY <2>1, <2>2 DEF TourInv, StoredOnce, VisitsOnce, HandedOverOnce
  <2>. QED  BY <2>3, OrderStart
<1>2. PlacedTypes /\ OrderInv /\ TourInv /\ [Next]_vars => TourInv'
  <2> SUFFICES ASSUME PlacedTypes, OrderInv, TourInv, [Next]_vars PROVE TourInv'
    OBVIOUS
  <2>1. ASSUME NEW a \in Actors, NEW s \in Subscribers, Subscribe(a, s) PROVE TourInv'
    BY <2>1, SubscribeTour
  <2>2. ASSUME NEW a \in Actors, NEW m \in Msgs, Publish(a, m) PROVE TourInv'
    BY <2>2, PublishTour
  <2>3. ASSUME NEW a \in Actors, Visit(a) PROVE TourInv'
    <3>1. /\ loop[a] # <<>> /\ UNCHANGED subs
          /\ \/ UNCHANGED loop /\ stage' = [stage EXCEPT ![Head(loop[a])] = "submitted"]
             \/ UNCHANGED stage /\ loop' = [loop EXCEPT ![a] = Tail(loop[a])]
      BY <2>3, Zenon DEF Visit, Pass, Pool!Submit, Pool!Move
    <3>. QED  BY <3>1, RoundTour
  <2>4. ASSUME NEW a \in Actors, Dispatched(a) PROVE TourInv'
    <3>1. /\ loop[a] # <<>> /\ UNCHANGED subs
          /\ stage' = [stage EXCEPT ![Head(loop[a])] = "queued"]
          /\ loop' = [loop EXCEPT ![a] = Tail(loop[a])]
      BY <2>4, Zenon DEF Dispatched, Pass, Pool!Enqueue, Pool!Move
    <3>. QED  BY <3>1, RoundTour
  <2>5. ASSUME NEW t \in Tasks, Start(t) \/ CallbackReturns(t) \/ WrongType(t) PROVE TourInv'
    <3>1. UNCHANGED <<subs, loop>> /\ (Moves(t, "queued", "running") \/ Moves(t, "running", "finished"))
      BY <2>5 DEF Start, CallbackReturns, WrongType, Pool!Start, Pool!Finish, Pool!Move, Moves
    <3>. QED  BY <3>1, TaskTour
  <2>6. CASE Destroy \/ DestroyQueue \/ UNCHANGED vars
    BY <2>6 DEF Destroy, DestroyQueue, Pool!Close, vars,
                TourInv, StoredOnce, VisitsOnce, HandedOverOnce
  <2>. QED  BY <2>1, <2>2, <2>3, <2>4, <2>5, <2>6 DEF Next
<1>3. TourInv => HandedOverOnce
  BY DEF TourInv
<1>. QED
  BY <1>1, <1>2, <1>3, OrderStep, TypeInduction, AtMostOneCallback, PTL DEF Spec

(***************************************************************************)
(* A round of notify() leaves its subscriber with the message, or finds    *)
(* him with another one that he is still busy with, or that had a type he  *)
(* cannot take: nobody is passed over without a reason                     *)
(* (swiftrobotc.h:92-106).                                                 *)
(***************************************************************************)
PassedOverIfBusy ==
  [][\A a \in Actors : loop[a] # <<>> /\ loop'[a] # loop[a] =>
       LET t == Head(loop[a]) IN
         \/ stage'[t] = "queued"
         \/ \E u \in Tasks \ {t} : BusyWith(t[1], u)]_vars

(***************************************************************************)
(* Whoever is passed over by a message has another one that keeps his      *)
(* semaphore, or had one that keeps it for good (swiftrobotc.h:92-106).    *)
(***************************************************************************)
THEOREM PassedOverHasReason == Spec => PassedOverIfBusy
<1> DEFINE Explained(a) ==
      loop[a] # <<>> /\ loop'[a] # loop[a] =>
        \/ stage'[Head(loop[a])] = "queued"
        \/ \E u \in Tasks \ {Head(loop[a])} : BusyWith(Head(loop[a])[1], u)
<1>1. ASSUME PlacedTypes, SemaphoreAccounted, Next, NEW a \in Actors
      PROVE  Explained(a)
  <2> SUFFICES ASSUME loop[a] # <<>>, loop'[a] # loop[a]
               PROVE  \/ stage'[Head(loop[a])] = "queued"
                      \/ \E u \in Tasks \ {Head(loop[a])} : BusyWith(Head(loop[a])[1], u)
    OBVIOUS
  <2> DEFINE t == Head(loop[a])
  <2>0. /\ loop \in [Actors -> Seq(Tasks)] /\ stage \in [Tasks -> Pool!Stages]
        /\ sem \in [Subscribers -> {0, 1}]
        /\ t \in Tasks /\ t[1] \in Subscribers
    BY <1>1, HeadIsTask DEF PlacedTypes, TypeOK
  <2>1. ASSUME NEW b \in Actors, NEW m \in Msgs, Publish(b, m) PROVE FALSE
    <3>1. b # a /\ loop' = [loop EXCEPT ![b] = [i \in 1..Len(subs[ChannelOf[m]]) |->
                                               <<subs[ChannelOf[m]][i], m>>]]
      BY <2>1 DEF Publish, MayCall
    <3>. QED  BY <2>0, <3>1
  <2>2. ASSUME NEW b \in Actors, loop' = [loop EXCEPT ![b] = Tail(loop[b])] PROVE b = a
    BY <2>0, <2>2
  <2>3. ASSUME NEW b \in Actors, Visit(b)
        PROVE  \E u \in Tasks \ {t} : BusyWith(t[1], u)
    <3>1. /\ stage[Head(loop[b])] = "fresh"
          /\ \/ UNCHANGED loop
             \/ sem[Head(loop[b])[1]] = 0 /\ loop' = [loop EXCEPT ![b] = Tail(loop[b])]
      BY <2>3, Zenon DEF Visit, Pass
    <3>2. b = a /\ stage[t] = "fresh" /\ sem[t[1]] = 0
      BY <2>2, <3>1
    <3>3. PICK u \in Tasks : BusyWith(t[1], u)
      BY <1>1, <2>0, <3>2 DEF SemaphoreAccounted
    <3>4. u # t
      BY <3>2, <3>3 DEF BusyWith, InFlight
    <3>. QED  BY <3>3, <3>4
  <2>4. ASSUME NEW b \in Actors, Dispatched(b) PROVE stage'[t] = "queued"
    <3>1. /\ loop' = [loop EXCEPT ![b] = Tail(loop[b])]
          /\ stage' = [stage EXCEPT ![Head(loop[b])] = "queued"]
      BY <2>4, Zenon DEF Dispatched, Pass, Pool!Enqueue, Pool!Move
    <3>2. b = a
      BY <2>2, <3>1
    <3>. QED  BY <2>0, <3>1, <3>2
  <2>5. CASE UNCHANGED loop
    BY <2>5
  <2>6. \/ \E b \in Actors, m \in Msgs : Publish(b, m)
        \/ \E b \in Actors : Visit(b) \/ Dispatched(b)
        \/ UNCHANGED loop
    BY <1>1 DEF Next, Subscribe, Start, CallbackReturns, WrongType, Destroy, DestroyQueue
  <2>. QED  BY <2>1, <2>3, <2>4, <2>5, <2>6
<1>2. PlacedTypes /\ SemaphoreAccounted /\ [Next]_vars => [\A a \in Actors : Explained(a)]_vars
  BY <1>1
<1>3. Spec => [][\A a \in Actors : Explained(a)]_vars
  BY <1>2, TypeInduction, TakenHasReason, PTL DEF Spec
<1>. QED  BY <1>3 DEF PassedOverIfBusy
=============================================================================
