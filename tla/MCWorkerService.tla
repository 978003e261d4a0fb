--------------------------- MODULE MCWorkerService ---------------------------
(***************************************************************************)
(* Instances of WorkerService for TLC.                                     *)
(***************************************************************************)
EXTENDS WorkerService

AllPairs == Workers \X Queues

\* Rows of an old copy: one that ends a drain, with another capacity, and one
\* that validate refuses.
OldRows == {[status |-> "Online", drain_mode |-> FALSE, max_concurrent_jobs |-> 2],
            [status |-> "Online", drain_mode |-> FALSE, max_concurrent_jobs |-> 0]}
=============================================================================
