------------------------- MODULE DispatchQueueProofs -------------------------
(***************************************************************************)
(* For any number of workers, callers and functions, any delays and any    *)
(* bound of the clock: the types of the pool's state, that no wakeup is    *)
(* lost, that shutdown reaches every worker, that no function is queued or *)
(* run twice, and that the pool implements JobService.                     *)
(***************************************************************************)
EXTENDS DispatchQueue, FiniteSetTheorems, TLAPS

(***************************************************************************)
(* Type correctness of the pool (dispatch_queue.h:44-50).                  *)
(***************************************************************************)
LEMMA EnterType ==
  ASSUME TypeOK,
         NEW t \in Threads, NEW j \in Jobs, NEW timed \in BOOLEAN, NEW at \in Nat,
         Enter(t, j, timed, at)
  PROVE  TypeOK'
  BY DEF TypeOK, Enter, Calls

LEMMA NotifyType ==
  ASSUME pc \in [Workers -> Places], NotifyOne
  PROVE  pc' \in [Workers -> Places]
<1>1. CASE At("asleep") = {}
  BY <1>1 DEF NotifyOne
<1>2. CASE At("asleep") # {}
  BY <1>2 DEF NotifyOne, Go, At, Places
<1>. QED  BY <1>1, <1>2

LEMMA PushType ==
  ASSUME TypeOK, NEW c \in calls, Push(c)
  PROVE  TypeOK'
<1>1. c \in Calls /\ [job |-> c.job, at |-> c.at] \in Timers
  BY DEF TypeOK, Calls, Timers
<1>2. pc' \in [Workers -> Places]
  BY NotifyType DEF TypeOK, Push
<1>3. pq' \subseteq Timers /\ IsFiniteSet(pq') /\ q' \in Seq(Jobs)
  <2>1. CASE c.timed
    <3>1. pq' = pq \cup {[job |-> c.job, at |-> c.at]} /\ q' = q
      BY <2>1 DEF Push
    <3>2. IsFiniteSet(pq')
      BY <3>1, FS_AddElement DEF TypeOK
    <3>. QED  BY <1>1, <3>1, <3>2 DEF TypeOK
  <2>2. CASE ~c.timed
    BY <2>2, <1>1 DEF TypeOK, Push, Timers
  <2>. QED  BY <2>1, <2>2
<1>. QED  BY <1>2, <1>3 DEF TypeOK, Push

LEMMA RunType ==
  ASSUME TypeOK, NEW w \in Workers, RunTimer(w) \/ RunNext(w)
  PROVE  TypeOK'
<1>1. CASE RunTimer(w)
  <2>1. PICK i \in pq : pq' = pq \ {i} /\ Run(w, i.job)
    BY <1>1 DEF RunTimer
  <2>2. i.job \in Jobs
    BY DEF TypeOK, Timers
  <2>3. IsFiniteSet(pq')
    BY <2>1, FS_RemoveElement DEF TypeOK
  <2>. QED  BY <1>1, <2>1, <2>2, <2>3 DEF TypeOK, RunTimer, Run, Go, Places
<1>2. CASE RunNext(w)
  BY <1>2 DEF TypeOK, RunNext, Run, Go, Places
<1>. QED  BY <1>1, <1>2

THEOREM TypeCorrect == Spec => []TypeOK
<1>1. ASSUME Init PROVE TypeOK
  <2>1. IsFiniteSet(pq)
    BY <1>1, FS_EmptySet DEF Init
  <2>2. pc \in [Workers -> Places] /\ job \in [Workers -> Jobs \cup {None}]
    BY <1>1 DEF Init, Places
  <2>3. q \in Seq(Jobs)
    BY <1>1 DEF Init
  <2>. QED  BY <1>1, <2>1, <2>2, <2>3 DEF Init, TypeOK
<1>2. TypeOK /\ [Next]_vars => TypeOK'
  <2> SUFFICES ASSUME TypeOK, [Next]_vars PROVE TypeOK'
    OBVIOUS
  <2>1. ASSUME NEW t \in Threads, NEW j \in Jobs, Dispatch(t, j) PROVE TypeOK'
    BY <2>1, EnterType DEF Dispatch, TypeOK
  <2>2. ASSUME NEW t \in Threads, NEW j \in Jobs, NEW d \in Delays, DispatchAfter(t, j, d)
        PROVE  TypeOK'
    <3>1. now + d \in Nat
      BY TimeAssumption DEF TypeOK
    <3>. QED  BY <2>2, <3>1, EnterType DEF DispatchAfter
  <2>3. ASSUME NEW c \in calls, Push(c) PROVE TypeOK'
    BY <2>3, PushType
  <2>4. ASSUME NEW w \in Workers, Work(w) PROVE TypeOK'
    <3>1. CASE Acquire(w)  BY <3>1 DEF TypeOK, Acquire, Go, Places
    <3>2. CASE Sleep(w)    BY <3>2 DEF TypeOK, Sleep, Go, Places
    <3>3. CASE Exit(w)     BY <3>3 DEF TypeOK, Exit, Go, Places
    <3>. QED  BY <2>4, <3>1, <3>2, <3>3, RunType DEF Work
  <2>5. ASSUME NEW w \in Workers, Return(w) PROVE TypeOK'
    BY <2>5 DEF TypeOK, Return, Go, Places
  <2>6. ASSUME NEW w \in Workers, SpuriousWake(w) PROVE TypeOK'
    BY <2>6 DEF TypeOK, SpuriousWake, Go, Places
  <2>7. CASE Destroy  BY <2>7 DEF TypeOK, Destroy
  <2>8. CASE Quit     BY <2>8 DEF TypeOK, Quit, Places
  <2>9. CASE Joined   BY <2>9 DEF TypeOK, Joined
  <2>10. CASE Tick    BY <2>10 DEF TypeOK, Tick
  <2>11. CASE UNCHANGED vars  BY <2>11 DEF TypeOK, vars
  <2>. QED
    BY <2>1, <2>2, <2>3, <2>4, <2>5, <2>6, <2>7, <2>8, <2>9, <2>10, <2>11
    DEF Next, Step
<1>. QED  BY <1>1, <1>2, PTL DEF Spec

-----------------------------------------------------------------------------
(* What a step does to the set of workers that are ready.                  *)

LEMMA ReadyFinite ==
  ASSUME pc \in [Workers -> Places]
  PROVE  IsFiniteSet(Ready) /\ Cardinality(Ready) \in Nat
<1>1. Ready \subseteq Workers
  BY DEF Ready, At
<1>2. IsFiniteSet(Ready)
  BY <1>1, ThreadAssumption, FS_Subset
<1>. QED  BY <1>2, FS_CardinalityType

\* A worker that becomes ready adds one to them.
LEMMA ReadyGains ==
  ASSUME pc \in [Workers -> Places], NEW w \in Workers,
         pc[w] \notin {"acquiring", "holding"}, Go(w, "acquiring")
  PROVE  Cardinality(Ready') = Cardinality(Ready) + 1
<1>1. Ready' = Ready \cup {w} /\ w \notin Ready
  BY DEF Ready, At, Go
<1>. QED  BY <1>1, ReadyFinite, FS_AddElement

\* A worker that starts a function is the only one that leaves them.
LEMMA ReadyLoses ==
  ASSUME pc \in [Workers -> Places], NEW w \in Workers,
         pc[w] = "holding", Go(w, "running")
  PROVE  Cardinality(Ready') = Cardinality(Ready) - 1
<1>1. Ready' = Ready \ {w} /\ w \in Ready
  BY DEF Ready, At, Go
<1>. QED  BY <1>1, ReadyFinite, FS_RemoveElement

(***************************************************************************)
(* No wakeup is lost (dispatch_queue.cpp:30-50).                           *)
(***************************************************************************)
LEMMA PushKeepsWorkers ==
  ASSUME TypeOK, PendingHaveWorkers, NEW c \in calls, Push(c)
  PROVE  PendingHaveWorkers'
<1> SUFFICES ASSUME ~quit, At("asleep")' # {}
             PROVE  Cardinality(Ready)' >= Len(q)' + Cardinality(pq)'
  BY DEF PendingHaveWorkers, Push
<1>1. At("asleep") # {}
  BY DEF Push, NotifyOne, At
<1>2. PICK w \in At("asleep") : Go(w, "acquiring")
  BY <1>1 DEF Push, NotifyOne
<1>3. Cardinality(Ready') = Cardinality(Ready) + 1
  BY <1>2, ReadyGains DEF TypeOK, At
<1>4. Cardinality(pq) \in Nat /\ Cardinality(Ready) \in Nat /\ Len(q) \in Nat
  BY FS_CardinalityType, ReadyFinite DEF TypeOK
<1>5. Cardinality(Ready) >= Len(q) + Cardinality(pq)
  BY <1>1 DEF PendingHaveWorkers
<1>6. CASE c.timed
  <2>0. pq' = pq \cup {[job |-> c.job, at |-> c.at]} /\ q' = q
    BY <1>6 DEF Push
  <2>1. Cardinality(pq') = IF [job |-> c.job, at |-> c.at] \in pq
                           THEN Cardinality(pq) ELSE Cardinality(pq) + 1
    BY <2>0, FS_AddElement DEF TypeOK
  <2>2. Cardinality(pq') \in Nat
    BY <2>0, FS_AddElement, FS_CardinalityType DEF TypeOK
  <2>. QED  BY <1>3, <1>4, <1>5, <2>0, <2>1, <2>2
<1>7. CASE ~c.timed
  <2>1. pq' = pq /\ Len(q') = Len(q) + 1
    BY <1>7 DEF TypeOK, Push, Calls
  <2>. QED  BY <1>3, <1>4, <1>5, <2>1
<1>. QED  BY <1>6, <1>7

LEMMA RunKeepsWorkers ==
  ASSUME TypeOK, PendingHaveWorkers, NEW w \in Workers, RunTimer(w) \/ RunNext(w)
  PROVE  PendingHaveWorkers'
<1> SUFFICES ASSUME ~quit, At("asleep")' # {}
             PROVE  Cardinality(Ready)' >= Len(q)' + Cardinality(pq)'
  BY DEF PendingHaveWorkers, RunTimer, RunNext, Run
<1>1. Go(w, "running") /\ pc[w] = "holding"
  BY DEF RunTimer, RunNext, Run
<1>2. At("asleep") # {}
  BY <1>1 DEF Go, At, TypeOK
<1>3. Cardinality(Ready') = Cardinality(Ready) - 1
  BY <1>1, ReadyLoses DEF TypeOK
<1>4. Cardinality(pq) \in Nat /\ Cardinality(Ready) \in Nat /\ Len(q) \in Nat
  BY FS_CardinalityType, ReadyFinite DEF TypeOK
<1>5. Cardinality(Ready) >= Len(q) + Cardinality(pq)
  BY <1>2 DEF PendingHaveWorkers
<1>6. CASE RunTimer(w)
  <2>1. Cardinality(pq') = Cardinality(pq) - 1 /\ q' = q
    BY <1>6, FS_RemoveElement DEF RunTimer, TypeOK
  <2>. QED  BY <1>3, <1>4, <1>5, <2>1
<1>7. CASE RunNext(w)
  <2>1. Len(q') = Len(q) - 1 /\ pq' = pq
    BY <1>7 DEF RunNext, TypeOK
  <2>. QED  BY <1>3, <1>4, <1>5, <2>1
<1>. QED  BY <1>6, <1>7

\* The steps that leave both queues alone.
LEMMA IdleKeepsWorkers ==
  ASSUME TypeOK, PendingHaveWorkers, UNCHANGED <<q, pq, quit>>,
         \/ UNCHANGED pc
         \/ \E w \in Workers : Acquire(w) \/ Return(w) \/ SpuriousWake(w)
  PROVE  PendingHaveWorkers'
<1>0. Cardinality(pq) \in Nat /\ Cardinality(Ready) \in Nat /\ Len(q) \in Nat
  BY FS_CardinalityType, ReadyFinite DEF TypeOK
<1>1. CASE UNCHANGED pc
  BY <1>1 DEF PendingHaveWorkers, Ready, At
<1>2. ASSUME NEW w \in Workers, Acquire(w) PROVE PendingHaveWorkers'
  <2>1. Ready' = Ready /\ At("asleep")' = At("asleep")
    BY <1>2 DEF Acquire, Ready, At, Go, TypeOK
  <2>. QED  BY <2>1 DEF PendingHaveWorkers
<1>3. ASSUME NEW w \in Workers, Return(w) \/ SpuriousWake(w) PROVE PendingHaveWorkers'
  <2>1. Cardinality(Ready') = Cardinality(Ready) + 1
    BY <1>3, ReadyGains DEF Return, SpuriousWake, TypeOK
  <2>2. At("asleep")' \subseteq At("asleep")
    BY <1>3 DEF Return, SpuriousWake, At, Go, TypeOK
  <2>. QED  BY <1>0, <2>1, <2>2 DEF PendingHaveWorkers
<1>. QED  BY <1>1, <1>2, <1>3

THEOREM NoLostWakeup == Spec => []PendingHaveWorkers
<1>1. Init => PendingHaveWorkers
  BY DEF Init, PendingHaveWorkers, At
<1>2. TypeOK /\ PendingHaveWorkers /\ [Next]_vars => PendingHaveWorkers'
  <2> SUFFICES ASSUME TypeOK, PendingHaveWorkers, [Next]_vars PROVE PendingHaveWorkers'
    OBVIOUS
  <2>1. ASSUME NEW t \in Threads, NEW j \in Jobs, NEW timed \in BOOLEAN, NEW at,
               Enter(t, j, timed, at)
        PROVE  PendingHaveWorkers'
    BY <2>1, IdleKeepsWorkers DEF Enter
  <2>2. ASSUME NEW c \in calls, Push(c) PROVE PendingHaveWorkers'
    BY <2>2, PushKeepsWorkers
  <2>3. ASSUME NEW w \in Workers, Work(w) PROVE PendingHaveWorkers'
    <3>1. CASE Acquire(w)  BY <3>1, IdleKeepsWorkers DEF Acquire
    <3>2. CASE Sleep(w)
      <4>1. Len(q') + Cardinality(pq') = 0
        BY <3>2, FS_EmptySet DEF Sleep
      <4>2. Cardinality(Ready') \in Nat
        <5>1. Ready' \subseteq Workers
          BY DEF Ready, At
        <5>. QED  BY <5>1, ThreadAssumption, FS_Subset, FS_CardinalityType
      <4>. QED  BY <4>1, <4>2 DEF PendingHaveWorkers
    <3>3. CASE Exit(w)     BY <3>3 DEF Exit, PendingHaveWorkers
    <3>. QED  BY <2>3, <3>1, <3>2, <3>3, RunKeepsWorkers DEF Work
  <2>4. ASSUME NEW w \in Workers, Return(w) PROVE PendingHaveWorkers'
    BY <2>4, IdleKeepsWorkers DEF Return
  <2>5. ASSUME NEW w \in Workers, SpuriousWake(w) PROVE PendingHaveWorkers'
    BY <2>5, IdleKeepsWorkers DEF SpuriousWake
  <2>6. CASE Destroy  BY <2>6, IdleKeepsWorkers DEF Destroy
  <2>7. CASE Quit     BY <2>7 DEF Quit, PendingHaveWorkers
  <2>8. CASE Joined   BY <2>8, IdleKeepsWorkers DEF Joined
  <2>9. CASE Tick     BY <2>9, IdleKeepsWorkers DEF Tick
  <2>10. CASE UNCHANGED vars  BY <2>10, IdleKeepsWorkers DEF vars
  <2>11. TRUE \in BOOLEAN /\ FALSE \in BOOLEAN
    OBVIOUS
  <2>. QED
    BY <2>1, <2>2, <2>3, <2>4, <2>5, <2>6, <2>7, <2>8, <2>9, <2>10, <2>11
    DEF Next, Step, Dispatch, DispatchAfter
<1>. QED  BY <1>1, <1>2, TypeCorrect, PTL DEF Spec

(***************************************************************************)
(* Shutdown reaches every worker (dispatch_queue.cpp:11-24): the invariant *)
(* holds by itself, because a worker tests quit_ under the lock before it  *)
(* sleeps and the destructor sets it under the same lock.                  *)
(***************************************************************************)
THEOREM ShutdownReachesAll == Spec => []QuitReachesAll
<1>1. Init => QuitReachesAll
  BY DEF Init, QuitReachesAll
<1>2. TypeOK /\ QuitReachesAll /\ [Next]_vars => QuitReachesAll'
  <2> SUFFICES ASSUME TypeOK, QuitReachesAll, [Next]_vars PROVE QuitReachesAll'
    OBVIOUS
  <2> USE DEF QuitReachesAll, At
  <2>1. CASE \E t \in Threads, j \in Jobs :
               Dispatch(t, j) \/ \E d \in Delays : DispatchAfter(t, j, d)
    BY <2>1 DEF Dispatch, DispatchAfter, Enter
  <2>2. ASSUME NEW c \in calls, Push(c) PROVE QuitReachesAll'
    BY <2>2 DEF Push, NotifyOne, Go, TypeOK
  <2>3. ASSUME NEW w \in Workers, Work(w) PROVE QuitReachesAll'
    BY <2>3 DEF Work, Acquire, Sleep, RunTimer, RunNext, Run, Exit, Go, TypeOK
  <2>4. ASSUME NEW w \in Workers, Return(w) \/ SpuriousWake(w) PROVE QuitReachesAll'
    BY <2>4 DEF Return, SpuriousWake, Go, TypeOK
  <2>5. CASE Destroy \/ Joined \/ Tick  BY <2>5 DEF Destroy, Joined, Tick
  <2>6. CASE Quit  BY <2>6 DEF Quit, TypeOK
  <2>7. CASE UNCHANGED vars  BY <2>7 DEF vars
  <2>. QED  BY <2>1, <2>2, <2>3, <2>4, <2>5, <2>6, <2>7 DEF Next, Step
<1>. QED  BY <1>1, <1>2, TypeCorrect, PTL DEF Spec

-----------------------------------------------------------------------------
(* Where a function is.  Counting is left to the end: each place holds a   *)
(* function once, and no two places hold the same one.                     *)

InQ(j)     == \E i \in 1..Len(q) : q[i] = j
InPq(j)    == \E i \in pq : i.job = j
InCalls(j) == \E c \in calls : c.job = j
InRun(j)   == \E w \in Workers : job[w] = j

Once ==
  /\ \A i, k \in 1..Len(q) : q[i] = q[k] => i = k
  /\ \A i, k \in pq : i.job = k.job => i = k
  /\ \A c, d \in calls : c.job = d.job => c = d
  /\ \A v, w \in Workers : job[v] = job[w] /\ job[v] # None => v = w

Apart ==
  \A j \in Jobs :
    /\ InQ(j)     => ~InPq(j) /\ ~InCalls(j) /\ ~InRun(j) /\ j \notin fresh
    /\ InPq(j)    => ~InCalls(j) /\ ~InRun(j) /\ j \notin fresh
    /\ InCalls(j) => ~InRun(j) /\ j \notin fresh
    /\ InRun(j)   => j \notin fresh

Placed == Once /\ Apart

\* A step leaves k where it is; q_ and pq_ count as one place.
Stays(k) ==
  /\ InQ(k)' \/ InPq(k)' <=> InQ(k) \/ InPq(k)
  /\ InCalls(k)' <=> InCalls(k)
  /\ InRun(k)' <=> InRun(k)
  /\ k \in fresh' <=> k \in fresh

LEMMA EnterPlaced ==
  ASSUME TypeOK, Placed,
         NEW t \in Threads, NEW j \in Jobs, NEW timed \in BOOLEAN, NEW at \in Nat,
         Enter(t, j, timed, at)
  PROVE  /\ Placed'
         /\ j \in fresh /\ InCalls(j)'
         /\ \A k \in Jobs \ {j} : Stays(k)
<1> DEFINE new == [by |-> t, job |-> j, timed |-> timed, at |-> at]
<1>1. /\ j \in fresh /\ fresh' = fresh \ {j} /\ calls' = calls \cup {new}
      /\ UNCHANGED <<q, pq, job>>
  BY DEF Enter
<1>2. new.job = j
  OBVIOUS
<1>3. \A k : InCalls(k)' <=> InCalls(k) \/ k = j
  BY <1>1, <1>2 DEF InCalls
<1>4. \A k : (InQ(k)' <=> InQ(k)) /\ (InPq(k)' <=> InPq(k)) /\ (InRun(k)' <=> InRun(k))
  BY <1>1 DEF InQ, InPq, InRun
<1>5. ~InCalls(j)
  BY <1>1 DEF Placed, Apart
<1>6. Apart'
  BY <1>1, <1>3, <1>4 DEF Placed, Apart
<1>7. Once'
  BY <1>1, <1>2, <1>5 DEF Placed, Once, InCalls
<1>. QED  BY <1>1, <1>3, <1>4, <1>6, <1>7 DEF Placed, Stays

LEMMA PushPlaced ==
  ASSUME TypeOK, Placed, NEW c \in calls, Push(c)
  PROVE  /\ Placed'
         /\ c.job \in Jobs /\ InCalls(c.job) /\ (InQ(c.job)' \/ InPq(c.job)')
         /\ \A k \in Jobs \ {c.job} : Stays(k)
<1>0. c.job \in Jobs /\ calls' = calls \ {c} /\ UNCHANGED <<job, fresh>>
  BY DEF TypeOK, Calls, Push
<1>1. InCalls(c.job)
  BY DEF InCalls
<1>2. \A k : InCalls(k)' <=> InCalls(k) /\ k # c.job
  BY <1>0 DEF Placed, Once, InCalls
<1>3. \A k : InRun(k)' <=> InRun(k)
  BY <1>0 DEF InRun
<1>4. CASE c.timed
  <2> DEFINE new == [job |-> c.job, at |-> c.at]
  <2>1. pq' = pq \cup {new} /\ UNCHANGED q /\ new.job = c.job
    BY <1>4 DEF Push
  <2>2. \A k : InPq(k)' <=> InPq(k) \/ k = c.job
    BY <2>1 DEF InPq
  <2>3. \A k : InQ(k)' <=> InQ(k)
    BY <2>1 DEF InQ
  <2>4. ~InPq(c.job)
    BY <1>0, <1>1 DEF Placed, Apart
  <2>5. Apart'
    BY <1>0, <1>1, <1>2, <1>3, <2>2, <2>3 DEF Placed, Apart
  <2>6. Once'
    BY <1>0, <2>1, <2>4 DEF Placed, Once, InPq
  <2>. QED  BY <1>0, <1>1, <1>2, <1>3, <2>2, <2>3, <2>5, <2>6 DEF Placed, Stays
<1>5. CASE ~c.timed
  <2>1. q' = Append(q, c.job) /\ UNCHANGED pq /\ q \in Seq(Jobs)
    BY <1>5 DEF Push, TypeOK
  <2>2. /\ Len(q') = Len(q) + 1 /\ Len(q) \in Nat
        /\ \A i \in 1..Len(q) : q'[i] = q[i]
        /\ q'[Len(q) + 1] = c.job
    BY <1>0, <2>1
  <2>3. \A k : InQ(k)' <=> InQ(k) \/ k = c.job
    <3> SUFFICES ASSUME NEW k PROVE InQ(k)' <=> InQ(k) \/ k = c.job
      OBVIOUS
    <3>1. ASSUME NEW i \in 1..Len(q'), q'[i] = k PROVE InQ(k) \/ k = c.job
      <4>1. i \in 1..Len(q) \/ i = Len(q) + 1
        BY <2>2
      <4>. QED  BY <2>2, <3>1, <4>1 DEF InQ
    <3>2. ASSUME NEW i \in 1..Len(q), q[i] = k PROVE InQ(k)'
      <4>1. i \in 1..Len(q') /\ q'[i] = k
        BY <2>2, <3>2
      <4>. QED  BY <4>1 DEF InQ
    <3>3. ASSUME k = c.job PROVE InQ(k)'
      <4>1. Len(q) + 1 \in 1..Len(q') /\ q'[Len(q) + 1] = k
        BY <2>2, <3>3
      <4>. QED  BY <4>1 DEF InQ
    <3>. QED  BY <3>1, <3>2, <3>3 DEF InQ
  <2>4. \A k : InPq(k)' <=> InPq(k)
    BY <2>1 DEF InPq
  <2>5. ~InQ(c.job)
    BY <1>0, <1>1 DEF Placed, Apart
  <2>6. Apart'
    BY <1>0, <1>1, <1>2, <1>3, <2>3, <2>4 DEF Placed, Apart
  <2>7. \A i, k \in 1..Len(q') : q'[i] = q'[k] => i = k
    <3> SUFFICES ASSUME NEW i \in 1..Len(q'), NEW k \in 1..Len(q'), q'[i] = q'[k]
                 PROVE  i = k
      OBVIOUS
    <3>1. (i \in 1..Len(q) \/ i = Len(q) + 1) /\ (k \in 1..Len(q) \/ k = Len(q) + 1)
      BY <2>2
    <3>. QED  BY <2>2, <2>5, <3>1 DEF InQ, Placed, Once
  <2>8. Once'
    BY <1>0, <2>1, <2>7 DEF Placed, Once
  <2>. QED  BY <1>0, <1>1, <1>2, <1>3, <2>3, <2>4, <2>6, <2>8 DEF Placed, Stays
<1>. QED  BY <1>4, <1>5

\* What taking a function off q_ does to the others in it.
LEMMA TailPlaces ==
  ASSUME q \in Seq(Jobs), q # <<>>, q' = Tail(q),
         \A i, k \in 1..Len(q) : q[i] = q[k] => i = k
  PROVE  /\ InQ(Head(q)) /\ Head(q) \in Jobs
         /\ \A k : InQ(k)' <=> InQ(k) /\ k # Head(q)
         /\ \A i, k \in 1..Len(q') : q'[i] = q'[k] => i = k
<1>1. /\ Len(q) \in Nat /\ Len(q) > 0 /\ Len(q') = Len(q) - 1
      /\ Head(q) = q[1] /\ Head(q) \in Jobs
      /\ \A i \in 1..Len(q') : i + 1 \in 1..Len(q) /\ q'[i] = q[i + 1]
  OBVIOUS
<1>2. 1 \in 1..Len(q)
  BY <1>1
<1>3. ASSUME NEW k PROVE InQ(k)' <=> InQ(k) /\ k # Head(q)
  <2>1. ASSUME NEW i \in 1..Len(q'), q'[i] = k PROVE InQ(k) /\ k # Head(q)
    <3>1. i + 1 \in 1..Len(q) /\ q[i + 1] = k /\ i + 1 # 1
      BY <1>1, <2>1
    <3>. QED  BY <1>1, <1>2, <3>1 DEF InQ
  <2>2. ASSUME NEW i \in 1..Len(q), q[i] = k, k # Head(q) PROVE InQ(k)'
    <3>1. i - 1 \in 1..Len(q') /\ (i - 1) + 1 = i
      BY <1>1, <2>2
    <3>2. q'[i - 1] = k
      BY <1>1, <2>2, <3>1
    <3>. QED  BY <3>1, <3>2 DEF InQ
  <2>. QED  BY <2>1, <2>2 DEF InQ
<1>4. \A i, k \in 1..Len(q') : q'[i] = q'[k] => i = k
  <2> SUFFICES ASSUME NEW i \in 1..Len(q'), NEW k \in 1..Len(q'), q'[i] = q'[k]
               PROVE  i = k
    OBVIOUS
  <2>1. i + 1 = k + 1
    BY <1>1
  <2>. QED  BY <1>1, <2>1
<1>. QED  BY <1>1, <1>2, <1>3, <1>4 DEF InQ

LEMMA RunPlaced ==
  ASSUME TypeOK, Placed, NEW w \in Workers, job[w] = None, RunTimer(w) \/ RunNext(w)
  PROVE  /\ Placed'
         /\ \E j \in Jobs : /\ InQ(j) \/ InPq(j)
                          /\ InRun(j)'
                          /\ \A k \in Jobs \ {j} : Stays(k)
<1>1. ASSUME NEW j \in Jobs, job' = [job EXCEPT ![w] = j]
      PROVE  \A k \in Jobs : InRun(k)' <=> InRun(k) \/ k = j
  BY <1>1, ThreadAssumption DEF InRun, TypeOK
<1>2. ASSUME NEW j \in Jobs, job' = [job EXCEPT ![w] = j], ~InRun(j)
      PROVE  \A u, v \in Workers : job'[u] = job'[v] /\ job'[u] # None => u = v
  BY <1>2, ThreadAssumption DEF InRun, TypeOK, Placed, Once
<1>3. CASE RunTimer(w)
  <2>1. PICK i \in pq : pq' = pq \ {i} /\ Run(w, i.job)
    BY <1>3 DEF RunTimer
  <2>2. /\ i.job \in Jobs /\ job' = [job EXCEPT ![w] = i.job]
        /\ UNCHANGED <<q, calls, fresh>>
    BY <1>3, <2>1 DEF TypeOK, Timers, RunTimer, Run
  <2>3. \A k : (InQ(k)' <=> InQ(k)) /\ (InCalls(k)' <=> InCalls(k))
    BY <2>2 DEF InQ, InCalls
  <2>4. \A k : InPq(k)' <=> InPq(k) /\ k # i.job
    BY <2>1 DEF InPq, Placed, Once
  <2>5. InPq(i.job)
    BY DEF InPq
  <2>6. ~InRun(i.job)
    BY <2>2, <2>5 DEF Placed, Apart
  <2>7. Apart'
    BY <1>1, <2>2, <2>3, <2>4, <2>5 DEF Placed, Apart
  <2>8. Once'
    BY <1>2, <2>1, <2>2, <2>6 DEF Placed, Once
  <2>. QED  BY <1>1, <2>2, <2>3, <2>4, <2>5, <2>7, <2>8 DEF Placed, Stays
<1>4. CASE RunNext(w)
  <2>1. /\ q # <<>> /\ q' = Tail(q) /\ job' = [job EXCEPT ![w] = Head(q)]
        /\ UNCHANGED <<pq, calls, fresh>>
    BY <1>4 DEF RunNext, Run
  <2>2. /\ InQ(Head(q)) /\ Head(q) \in Jobs
        /\ \A k : InQ(k)' <=> InQ(k) /\ k # Head(q)
        /\ \A i, k \in 1..Len(q') : q'[i] = q'[k] => i = k
    BY <2>1, TailPlaces DEF TypeOK, Placed, Once
  <2>3. \A k : (InPq(k)' <=> InPq(k)) /\ (InCalls(k)' <=> InCalls(k))
    BY <2>1 DEF InPq, InCalls
  <2>4. ~InRun(Head(q))
    BY <2>2 DEF Placed, Apart
  <2>5. \A k \in Jobs : InRun(k)' <=> InRun(k) \/ k = Head(q)
    BY <1>1, <2>1, <2>2
  <2>6. Apart'
    BY <2>1, <2>2, <2>3, <2>5 DEF Placed, Apart
  <2>7. Once'
    BY <1>2, <2>1, <2>2, <2>4 DEF Placed, Once
  <2>. QED  BY <2>1, <2>2, <2>3, <2>5, <2>6, <2>7 DEF Placed, Stays
<1>. QED  BY <1>3, <1>4

LEMMA ReturnPlaced ==
  ASSUME TypeOK, Placed, NEW w \in Workers, NEW j \in Jobs, job[w] = j, Return(w)
  PROVE  /\ Placed'
         /\ InRun(j) /\ ~InRun(j)' /\ ~InQ(j)' /\ ~InPq(j)' /\ ~InCalls(j)'
         /\ j \notin fresh'
         /\ \A k \in Jobs \ {j} : Stays(k)
<1>1. job' = [job EXCEPT ![w] = None] /\ UNCHANGED <<q, pq, calls, fresh>>
  BY DEF Return
<1>2. InRun(j)
  BY DEF InRun
<1>3. \A k \in Jobs : InRun(k)' <=> InRun(k) /\ k # j
  BY <1>1, ThreadAssumption DEF InRun, TypeOK, Placed, Once
<1>4. \A k : (InQ(k)' <=> InQ(k)) /\ (InPq(k)' <=> InPq(k)) /\ (InCalls(k)' <=> InCalls(k))
  BY <1>1 DEF InQ, InPq, InCalls
<1>5. Apart'
  BY <1>1, <1>3, <1>4 DEF Placed, Apart
<1>6. Once'
  BY <1>1 DEF Placed, Once, TypeOK
<1>7. ~InQ(j)' /\ ~InPq(j)' /\ ~InCalls(j)' /\ j \notin fresh'
  BY <1>1, <1>2, <1>4 DEF Placed, Apart
<1>. QED  BY <1>1, <1>2, <1>3, <1>4, <1>5, <1>6, <1>7 DEF Placed, Stays

\* The other steps move no function.
LEMMA OthersPlaced ==
  ASSUME Placed, UNCHANGED <<q, pq, job, calls, fresh>>
  PROVE  Placed' /\ \A k : Stays(k)
<1>1. \A k : /\ InQ(k)' <=> InQ(k)
             /\ InPq(k)' <=> InPq(k)
             /\ InCalls(k)' <=> InCalls(k)
             /\ InRun(k)' <=> InRun(k)
  BY DEF InQ, InPq, InCalls, InRun
<1>2. Apart'
  BY <1>1 DEF Placed, Apart
<1>3. Once'
  BY DEF Placed, Once
<1>. QED  BY <1>1, <1>2, <1>3 DEF Placed, Stays

(***************************************************************************)
(* Who runs a function is at that place, and quit_ is the destructor's.    *)
(***************************************************************************)
Busy == \A w \in Workers : job[w] # None <=> pc[w] = "running"

Quitting == quit => dtor \in {"joining", "gone"}

PlaceInv == Placed /\ Busy /\ Quitting

LEMMA BusyStep == TypeOK /\ Busy /\ Quitting /\ [Next]_vars => Busy' /\ Quitting'
<1> SUFFICES ASSUME TypeOK, Busy, Quitting, [Next]_vars PROVE Busy' /\ Quitting'
  OBVIOUS
<1> USE DEF Busy, Quitting
<1>1. CASE \E t \in Threads, j \in Jobs :
             Dispatch(t, j) \/ \E d \in Delays : DispatchAfter(t, j, d)
  BY <1>1 DEF Dispatch, DispatchAfter, Enter
<1>2. ASSUME NEW c \in calls, Push(c) PROVE Busy' /\ Quitting'
  <2>1. UNCHANGED <<job, quit, dtor>> /\ pc \in [Workers -> Places]
    BY <1>2 DEF Push, TypeOK
  <2>2. \A w \in Workers : pc'[w] = "running" <=> pc[w] = "running"
    <3>1. CASE At("asleep") = {}  BY <1>2, <3>1 DEF Push, NotifyOne
    <3>2. CASE At("asleep") # {}
      BY <1>2, <2>1, <3>2 DEF Push, NotifyOne, Go, At
    <3>. QED  BY <3>1, <3>2
  <2>. QED  BY <2>1, <2>2
<1>3. ASSUME NEW w \in Workers, Acquire(w) \/ Sleep(w) \/ Exit(w) \/ SpuriousWake(w)
      PROVE  Busy' /\ Quitting'
  BY <1>3 DEF Acquire, Sleep, Exit, SpuriousWake, Go, TypeOK
<1>4. ASSUME NEW w \in Workers, RunTimer(w) \/ RunNext(w) PROVE Busy' /\ Quitting'
  <2>1. PICK j \in Jobs : Run(w, j)
    <3>1. CASE RunTimer(w)
      BY <3>1 DEF RunTimer, TypeOK, Timers
    <3>2. CASE RunNext(w)
      <4>1. Head(q) \in Jobs
        BY <3>2 DEF RunNext, TypeOK
      <4>. QED  BY <3>2, <4>1 DEF RunNext
    <3>. QED  BY <1>4, <3>1, <3>2
  <2>2. UNCHANGED <<quit, dtor>>
    BY <1>4 DEF RunTimer, RunNext, Run
  <2>. QED  BY <2>1, <2>2, ThreadAssumption DEF Run, Go, TypeOK
<1>5. ASSUME NEW w \in Workers, Return(w) PROVE Busy' /\ Quitting'
  BY <1>5 DEF Return, Go, TypeOK
<1>6. CASE Destroy \/ Joined \/ Tick  BY <1>6 DEF Destroy, Joined, Tick
<1>7. CASE Quit  BY <1>7 DEF Quit, TypeOK
<1>8. CASE UNCHANGED vars  BY <1>8 DEF vars
<1>. QED  BY <1>1, <1>2, <1>3, <1>4, <1>5, <1>6, <1>7, <1>8 DEF Next, Step, Work

LEMMA PlacedStep == TypeOK /\ PlaceInv /\ [Next]_vars => PlaceInv'
<1> SUFFICES ASSUME TypeOK, PlaceInv, [Next]_vars PROVE Placed'
  BY BusyStep DEF PlaceInv
<1>1. ASSUME NEW t \in Threads, NEW j \in Jobs, Dispatch(t, j) PROVE Placed'
  BY <1>1, EnterPlaced DEF Dispatch, TypeOK, PlaceInv
<1>2. ASSUME NEW t \in Threads, NEW j \in Jobs, NEW d \in Delays, DispatchAfter(t, j, d)
      PROVE  Placed'
  <2>1. now + d \in Nat
    BY TimeAssumption DEF TypeOK
  <2>. QED  BY <1>2, <2>1, EnterPlaced DEF DispatchAfter, PlaceInv
<1>3. ASSUME NEW c \in calls, Push(c) PROVE Placed'
  BY <1>3, PushPlaced DEF PlaceInv
<1>4. ASSUME NEW w \in Workers, Work(w) PROVE Placed'
  <2>1. CASE RunTimer(w) \/ RunNext(w)
    <3>1. job[w] = None
      BY <2>1 DEF RunTimer, RunNext, PlaceInv, Busy
    <3>. QED  BY <2>1, <3>1, RunPlaced DEF PlaceInv
  <2>2. CASE Acquire(w) \/ Sleep(w) \/ Exit(w)
    BY <2>2, OthersPlaced DEF Acquire, Sleep, Exit, PlaceInv
  <2>. QED  BY <1>4, <2>1, <2>2 DEF Work
<1>5. ASSUME NEW w \in Workers, Return(w) PROVE Placed'
  <2>1. job[w] \in Jobs
    BY <1>5 DEF Return, PlaceInv, Busy, TypeOK
  <2>. QED  BY <1>5, <2>1, ReturnPlaced DEF PlaceInv
<1>6. ASSUME NEW w \in Workers, SpuriousWake(w) PROVE Placed'
  BY <1>6, OthersPlaced DEF SpuriousWake, PlaceInv
<1>7. CASE Destroy \/ Quit \/ Joined \/ Tick
  BY <1>7, OthersPlaced DEF Destroy, Quit, Joined, Tick, PlaceInv
<1>8. CASE UNCHANGED vars
  BY <1>8, OthersPlaced DEF vars, PlaceInv
<1>. QED  BY <1>1, <1>2, <1>3, <1>4, <1>5, <1>6, <1>7, <1>8 DEF Next, Step

LEMMA PlaceInduction == Spec => []PlaceInv
<1>1. Init => PlaceInv
  <2> SUFFICES ASSUME Init PROVE PlaceInv
    OBVIOUS
  <2>1. Len(q) = 0 /\ (\A w \in Workers : job[w] = None /\ pc[w] = "acquiring")
    BY DEF Init
  <2>2. \A j \in Jobs : ~InQ(j) /\ ~InPq(j) /\ ~InCalls(j) /\ ~InRun(j)
    BY <2>1, ThreadAssumption DEF Init, InQ, InPq, InCalls, InRun
  <2>. QED  BY <2>1, <2>2 DEF Init, PlaceInv, Placed, Once, Apart, Busy, Quitting
<1>. QED  BY <1>1, PlacedStep, TypeCorrect, PTL DEF Spec

LEMMA AtMostOne ==
  ASSUME NEW S, \A x, y \in S : x = y
  PROVE  Cardinality(S) = IF S = {} THEN 0 ELSE 1
<1>1. CASE S = {}
  BY <1>1, FS_EmptySet
<1>2. CASE S # {}
  <2>1. PICK x \in S : S = {x}
    BY <1>2
  <2>. QED  BY <1>2, <2>1, FS_Singleton
<1>. QED  BY <1>1, <1>2

(***************************************************************************)
(* No function is queued or run twice (dispatch_queue.cpp:53-71).          *)
(***************************************************************************)
THEOREM NeverTwice == Spec => []OnePlace
<1>1. TypeOK /\ PlaceInv => OnePlace
  <2> SUFFICES ASSUME TypeOK, PlaceInv, NEW j \in Jobs
               PROVE  Holders(j) <= (IF j \in fresh THEN 0 ELSE 1)
    BY DEF OnePlace
  <2> DEFINE S1 == Queued(j)
             S2 == {i \in pq : i.job = j}
             S3 == {c \in calls : c.job = j}
             S4 == {w \in Workers : job[w] = j}
  <2>1. Cardinality(S1) = IF InQ(j) THEN 1 ELSE 0
    <3>1. \A x, y \in S1 : x = y
      BY DEF Queued, PlaceInv, Placed, Once
    <3>2. S1 = {} <=> ~InQ(j)
      BY DEF Queued, InQ
    <3>. QED  BY <3>1, <3>2, AtMostOne
  <2>2. Cardinality(S2) = IF InPq(j) THEN 1 ELSE 0
    <3>1. \A x, y \in S2 : x = y
      BY DEF PlaceInv, Placed, Once
    <3>2. S2 = {} <=> ~InPq(j)
      BY DEF InPq
    <3>. QED  BY <3>1, <3>2, AtMostOne
  <2>3. Cardinality(S3) = IF InCalls(j) THEN 1 ELSE 0
    <3>1. \A x, y \in S3 : x = y
      BY DEF PlaceInv, Placed, Once
    <3>2. S3 = {} <=> ~InCalls(j)
      BY DEF InCalls
    <3>. QED  BY <3>1, <3>2, AtMostOne
  <2>4. Cardinality(S4) = IF InRun(j) THEN 1 ELSE 0
    <3>1. \A x, y \in S4 : x = y
      BY ThreadAssumption DEF PlaceInv, Placed, Once
    <3>2. S4 = {} <=> ~InRun(j)
      BY DEF InRun
    <3>. QED  BY <3>1, <3>2, AtMostOne
  <2>5. Holders(j) = Cardinality(S1) + Cardinality(S2) + Cardinality(S3) + Cardinality(S4)
    BY DEF Holders
  <2> HIDE DEF S1, S2, S3, S4
  <2>. QED  BY <2>1, <2>2, <2>3, <2>4, <2>5 DEF PlaceInv, Placed, Apart
<1>. QED  BY <1>1, TypeCorrect, PlaceInduction, PTL

-----------------------------------------------------------------------------
(* The steps of JobService.                                                *)

StageKnown ==
  \A j \in Jobs :
    /\ j \in fresh           => StageOf(j) = "fresh"
    /\ InCalls(j)            => StageOf(j) = "submitted"
    /\ InQ(j) \/ InPq(j)     => StageOf(j) = "queued"
    /\ InRun(j)              => StageOf(j) = "running"
    /\ ~InQ(j) /\ ~InPq(j) /\ ~InCalls(j) /\ ~InRun(j) /\ j \notin fresh
                             => StageOf(j) = "finished"

LEMMA Stages == PlaceInv => StageKnown
<1> SUFFICES ASSUME PlaceInv, NEW j \in Jobs
             PROVE  /\ j \in fresh           => StageOf(j) = "fresh"
                    /\ InCalls(j)            => StageOf(j) = "submitted"
                    /\ InQ(j) \/ InPq(j)     => StageOf(j) = "queued"
                    /\ InRun(j)              => StageOf(j) = "running"
                    /\ ~InQ(j) /\ ~InPq(j) /\ ~InCalls(j) /\ ~InRun(j) /\ j \notin fresh
                                             => StageOf(j) = "finished"
  BY DEF StageKnown
<1>1. Queued(j) # {} <=> InQ(j)
  BY DEF Queued, InQ
<1>2. StageOf(j) =
        CASE j \in fresh           -> "fresh"
          [] InCalls(j)            -> "submitted"
          [] InQ(j) \/ InPq(j)     -> "queued"
          [] InRun(j)              -> "running"
          [] OTHER                 -> "finished"
  BY <1>1 DEF StageOf, InCalls, InPq, InRun
<1>3. /\ InQ(j)     => ~InPq(j) /\ ~InCalls(j) /\ ~InRun(j) /\ j \notin fresh
      /\ InPq(j)    => ~InCalls(j) /\ ~InRun(j) /\ j \notin fresh
      /\ InCalls(j) => ~InRun(j) /\ j \notin fresh
      /\ InRun(j)   => j \notin fresh
  BY DEF PlaceInv, Placed, Apart
<1>. QED  BY <1>2, <1>3

Stage == [j \in Jobs |-> StageOf(j)]

\* A step that moves one function moves its stage only.
LEMMA StageMoves ==
  ASSUME StageKnown, StageKnown', UNCHANGED quit, NEW j \in Jobs, NEW to,
         StageOf(j)' = to, \A k \in Jobs \ {j} : Stays(k)
  PROVE  Service!Move(j, StageOf(j), to)
<1>1. \A k \in Jobs \ {j} : StageOf(k)' = StageOf(k)
  BY DEF Stays, StageKnown
<1>2. Stage' = [Stage EXCEPT ![j] = to]
  BY <1>1 DEF Stage
<1>. QED  BY <1>2 DEF Service!Move, Stage

LEMMA StageStays ==
  ASSUME StageKnown, StageKnown', UNCHANGED quit, \A k \in Jobs : Stays(k)
  PROVE  UNCHANGED Service!vars
<1>1. \A k \in Jobs : StageOf(k)' = StageOf(k)
  BY DEF Stays, StageKnown
<1>. QED  BY <1>1 DEF Service!vars

\* A worker that takes a function has none, so fewer than all workers have one.
LEMMA RoomToRun ==
  ASSUME TypeOK, StageKnown, PlaceInv, NEW w \in Workers, job[w] = None
  PROVE  Cardinality(Service!InStage("running")) < Cardinality(Workers)
<1> DEFINE R == Service!InStage("running")
           T == {v \in Workers : job[v] # None}
           f == [v \in T |-> job[v]]
<1>1. R = {j \in Jobs : InRun(j)}
  BY DEF Service!InStage, StageKnown
<1>2. f \in Surjection(T, R)
  <2>1. f \in [T -> R]
    BY <1>1 DEF TypeOK, InRun
  <2>2. \A j \in R : \E v \in T : f[v] = j
    BY <1>1, ThreadAssumption DEF InRun
  <2>. QED  BY <2>1, <2>2 DEF Surjection
<1>3. IsFiniteSet(Workers \ {w}) /\ Cardinality(Workers \ {w}) = Cardinality(Workers) - 1
  BY ThreadAssumption, FS_RemoveElement
<1>4. IsFiniteSet(T) /\ Cardinality(T) <= Cardinality(Workers \ {w})
  <2>1. T \in SUBSET (Workers \ {w})
    OBVIOUS
  <2>. QED  BY <1>3, <2>1, FS_Subset
<1>5. IsFiniteSet(R) /\ Cardinality(R) <= Cardinality(T)
  BY <1>2, <1>4, FS_Surjection
<1>6. Cardinality(R) \in Nat /\ Cardinality(T) \in Nat /\ Cardinality(Workers) \in Nat
  BY <1>4, <1>5, ThreadAssumption, FS_CardinalityType
<1> HIDE DEF R, T
<1>. QED  BY <1>3, <1>4, <1>5, <1>6 DEF R

LEMMA ServiceStep ==
  ASSUME TypeOK, PlaceInv, PlaceInv', StageKnown, StageKnown', [Next]_vars
  PROVE  [Service!Next]_(Service!vars)
<1>1. ASSUME NEW t \in Threads, NEW j \in Jobs, NEW timed \in BOOLEAN, NEW at \in Nat,
             Enter(t, j, timed, at)
      PROVE  Service!Next
  <2>1. /\ j \in fresh /\ InCalls(j)' /\ UNCHANGED quit
        /\ \A k \in Jobs \ {j} : Stays(k)
    BY <1>1, EnterPlaced DEF Enter, PlaceInv
  <2>2. StageOf(j) = "fresh" /\ StageOf(j)' = "submitted"
    BY <2>1 DEF StageKnown
  <2>3. Service!Move(j, "fresh", "submitted")
    BY <2>1, <2>2, StageMoves
  <2>. QED  BY <2>3 DEF Service!Submit, Service!Next
<1>2. CASE \E t \in Threads, j \in Jobs :
             Dispatch(t, j) \/ \E d \in Delays : DispatchAfter(t, j, d)
  <2>1. now \in Nat /\ \A d \in Delays : now + d \in Nat
    BY TimeAssumption DEF TypeOK
  <2>. QED  BY <1>1, <1>2, <2>1 DEF Dispatch, DispatchAfter
<1>3. ASSUME NEW c \in calls, Push(c) PROVE Service!Next
  <2>0. PICK i \in Jobs : i = c.job
    BY <1>3, PushPlaced DEF PlaceInv
  <2>1. /\ InCalls(i) /\ UNCHANGED quit /\ \A k \in Jobs \ {i} : Stays(k)
    BY <1>3, <2>0, PushPlaced DEF Push, PlaceInv
  <2>2. InQ(i)' \/ InPq(i)'
    BY <1>3, <2>0, PushPlaced DEF PlaceInv
  <2>3. StageOf(i) = "submitted" /\ StageOf(i)' = "queued"
    BY <2>1, <2>2 DEF StageKnown
  <2>4. Service!Move(i, "submitted", "queued")
    BY <2>1, <2>3, StageMoves
  <2>. QED  BY <2>4 DEF Service!Enqueue, Service!Next
<1>4. ASSUME NEW w \in Workers, RunTimer(w) \/ RunNext(w) PROVE Service!Next
  <2>1. job[w] = None /\ ~quit /\ UNCHANGED quit
    BY <1>4 DEF RunTimer, RunNext, Run, PlaceInv, Busy
  <2>2. PICK j \in Jobs : /\ InQ(j) \/ InPq(j)
                          /\ InRun(j)'
                          /\ \A k \in Jobs \ {j} : Stays(k)
    BY <1>4, <2>1, RunPlaced DEF PlaceInv
  <2>3. StageOf(j) = "queued" /\ StageOf(j)' = "running"
    BY <2>2 DEF StageKnown
  <2>4. Service!Move(j, "queued", "running")
    BY <2>1, <2>2, <2>3, StageMoves
  <2>5. Cardinality(Service!InStage("running")) < Cardinality(Workers)
    BY <2>1, RoomToRun
  <2>6. Service!Cardinality(Service!InStage("running"))
          = Cardinality(Service!InStage("running"))
    BY DEF Service!Cardinality, Cardinality
  <2>. QED  BY <2>1, <2>4, <2>5, <2>6 DEF Service!Start, Service!Next
<1>5. ASSUME NEW w \in Workers, Return(w) PROVE Service!Next
  <2>1. PICK j \in Jobs : job[w] = j
    BY <1>5 DEF Return, PlaceInv, Busy, TypeOK
  <2>2. /\ InRun(j) /\ ~InRun(j)' /\ ~InQ(j)' /\ ~InPq(j)' /\ ~InCalls(j)'
        /\ j \notin fresh' /\ UNCHANGED quit
        /\ \A k \in Jobs \ {j} : Stays(k)
    BY <1>5, <2>1, ReturnPlaced DEF PlaceInv, Return
  <2>3. StageOf(j) = "running" /\ StageOf(j)' = "finished"
    BY <2>2 DEF StageKnown
  <2>4. Service!Move(j, "running", "finished")
    BY <2>2, <2>3, StageMoves
  <2>. QED  BY <2>4 DEF Service!Finish, Service!Next
<1>6. CASE Quit
  <2>1. UNCHANGED <<q, pq, job, calls, fresh>> /\ quit' = TRUE
    BY <1>6 DEF Quit
  <2>2. \A k \in Jobs : StageOf(k)' = StageOf(k)
    BY <2>1, OthersPlaced DEF PlaceInv, Stays, StageKnown
  <2>3. ~quit
    BY <1>6 DEF Quit, PlaceInv, Quitting
  <2>. QED  BY <2>1, <2>2, <2>3 DEF Service!Close, Service!Next
<1>7. CASE \/ \E w \in Workers : Acquire(w) \/ Sleep(w) \/ Exit(w) \/ SpuriousWake(w)
           \/ Destroy \/ Joined \/ Tick \/ UNCHANGED vars
  <2>1. UNCHANGED <<q, pq, job, calls, fresh, quit>>
    BY <1>7 DEF Acquire, Sleep, Exit, SpuriousWake, Destroy, Joined, Tick, vars
  <2>. QED  BY <2>1, OthersPlaced, StageStays DEF PlaceInv
<1>. QED  BY <1>2, <1>3, <1>4, <1>5, <1>6, <1>7 DEF Next, Step, Work

(***************************************************************************)
(* Every step of the pool is a step of JobService or none                  *)
(* (dispatch_queue.cpp:11-75): functions go through their stages once and  *)
(* in order, no more of them run than there are threads, and none starts   *)
(* after quit_ is set.                                                     *)
(***************************************************************************)
THEOREM ServesJobs == Spec => Service!Spec
<1>1. Init => Service!Init
  <2> SUFFICES ASSUME Init PROVE Service!Init
    OBVIOUS
  <2>1. \A j \in Jobs : StageOf(j) = "fresh"
    <3> SUFFICES ASSUME NEW j \in Jobs PROVE StageOf(j) = "fresh"
      OBVIOUS
    <3>1. /\ j \in fresh /\ calls = {} /\ pq = {} /\ Len(q) = 0
          /\ \A w \in Workers : job[w] # j
      BY ThreadAssumption DEF Init
    <3>2. Queued(j) = {}
      BY <3>1 DEF Queued
    <3>. QED  BY <3>1, <3>2 DEF StageOf
  <2>. QED  BY <2>1 DEF Init, Service!Init
<1>2. Spec => []StageKnown
  BY PlaceInduction, Stages, PTL
<1>3. /\ TypeOK /\ PlaceInv /\ PlaceInv' /\ StageKnown /\ StageKnown' /\ [Next]_vars
      => [Service!Next]_(Service!vars)
  BY ServiceStep
<1>. QED  BY <1>1, <1>2, <1>3, TypeCorrect, PlaceInduction, PTL DEF Spec, Service!Spec
=============================================================================
