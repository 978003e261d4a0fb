--------------------------- MODULE MCJobProcessor ---------------------------
(***************************************************************************)
(* Instances of the job processor for TLC.                                 *)
(***************************************************************************)
EXTENDS JobStatistics

CONSTANTS main, w1, w2, e1, e2, e3

NoDependents == [j \in Jobs |-> {}]

OpenQueue == {[is_active |-> TRUE, dead_letter_queue_id |-> NoQueue]}

WorkerSymmetry == Permutations(Workers)

AllTargets == JobStatus

AllOps == Op

AllAnswers == BOOLEAN

RunningTimes == [e \in Executions |-> IF e = e1 THEN 30 ELSE IF e = e2 THEN 10 ELSE 20]
=============================================================================
