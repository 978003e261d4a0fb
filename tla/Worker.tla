------------------------------- MODULE Worker -------------------------------
(***************************************************************************)
(* The worker row of src/models/worker.rs, without the names, capabilities *)
(* and times that no handler's guard reads.                                *)
(***************************************************************************)
EXTENDS Integers

WorkerStatus == {"Online", "Offline", "Draining", "Unhealthy"}

\* validate.
IsValidCapacity(m) == m \in 1..1000

WorkerRow == [status              : WorkerStatus,
              drain_mode          : BOOLEAN,
              max_concurrent_jobs : 1..1000]

NewWorker(m) == [status              |-> "Offline",
                 drain_mode          |-> FALSE,
                 max_concurrent_jobs |-> m]

\* Called by get_available_workers and not defined in worker.rs; the data
\* model's document defines it so (DATA_MODEL.md:436).
IsAvailable(r) == r.status = "Online"
=============================================================================
