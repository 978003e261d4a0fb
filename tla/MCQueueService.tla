--------------------------- MODULE MCQueueService ---------------------------
(***************************************************************************)
(* Instances of QueueService for TLC.                                      *)
(***************************************************************************)
EXTENDS QueueService, TLC

CONSTANTS j1, j2, main

NoDependents == [j \in Jobs |-> {}]

\* No dead letter queue.
PlainRows == [is_active : BOOLEAN, dead_letter_queue_id : {NoQueue}]

\* main is its own dead letter queue, or has none.
DeadLetteringRows == [is_active : BOOLEAN, dead_letter_queue_id : {NoQueue, main}]

EditorSymmetry == Permutations(Editors)
=============================================================================
