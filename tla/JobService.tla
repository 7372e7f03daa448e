----------------------------- MODULE JobService -----------------------------
(***************************************************************************)
(* What a dispatch_queue promises its callers, with no lock, condition     *)
(* variable or clock in sight: every function handed over goes through its *)
(* stages once and in order, no more than the pool's threads are running   *)
(* at a time, and until the queue is shut down nothing handed over is      *)
(* forgotten.  DispatchQueue implements this module.                       *)
(***************************************************************************)
EXTENDS Naturals, FiniteSets

CONSTANTS Jobs,     \* the function objects handed to the queue
          Capacity  \* the number of threads in the pool

VARIABLES stage,    \* stage[j]: how far j has come
          closed    \* TRUE once the destructor has signalled the workers

vars == <<stage, closed>>

Stages == {"fresh", "submitted", "queued", "running", "finished"}

InStage(s) == {j \in Jobs : stage[j] = s}

TypeOK == stage \in [Jobs -> Stages] /\ closed \in BOOLEAN

Init == stage = [j \in Jobs |-> "fresh"] /\ closed = FALSE

Move(j, from, to) ==
  /\ stage[j] = from
  /\ stage' = [stage EXCEPT ![j] = to]
  /\ UNCHANGED closed

Submit(j) == Move(j, "fresh", "submitted")

Enqueue(j) == Move(j, "submitted", "queued")

Start(j) ==
  /\ ~closed
  /\ Cardinality(InStage("running")) < Capacity
  /\ Move(j, "queued", "running")

Finish(j) == Move(j, "running", "finished")

Close == ~closed /\ closed' = TRUE /\ UNCHANGED stage

Next == Close \/ \E j \in Jobs : Submit(j) \/ Enqueue(j) \/ Start(j) \/ Finish(j)

Spec == Init /\ [][Next]_vars

(***************************************************************************)
(* A caller gets out of dispatch(), and while the queue is open a function *)
(* that was accepted is eventually run.                                    *)
(***************************************************************************)
Fairness == \A j \in Jobs : WF_vars(Enqueue(j)) /\ SF_vars(Start(j))

FairSpec == Spec /\ Fairness
=============================================================================
