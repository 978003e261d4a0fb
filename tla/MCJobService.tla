---------------------------- MODULE MCJobService ----------------------------
(***************************************************************************)
(* Instances of JobService for TLC.                                        *)
(***************************************************************************)
EXTENDS JobService, TLC

CONSTANTS j1, j2, j3, main, dead

NoDependents == [j \in Jobs |-> {}]

\* The other jobs depend on j1.
ParentDependents == [j \in Jobs |-> IF j = j1 THEN Jobs \ {j1} ELSE {}]

OpenQueue == {[is_active |-> TRUE, dead_letter_queue_id |-> NoQueue]}

\* Queues that are paused and resumed, and gain and lose a dead letter queue.
ChangingQueue == {[is_active |-> TRUE, dead_letter_queue_id |-> dead],
                  [is_active |-> FALSE, dead_letter_queue_id |-> NoQueue]}

CallSymmetry == Permutations(Calls)

AllTargets == JobStatus

\* The status requests that keep the retry budget.
BudgetTargets == {"Scheduled", "Succeeded", "Failed", "Cancelled"}
=============================================================================
