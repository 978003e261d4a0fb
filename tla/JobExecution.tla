---------------------------- MODULE JobExecution ----------------------------
(***************************************************************************)
(* The execution row of src/models/job_execution.rs: one run of a job by a *)
(* worker.  Output, error text, metadata and heartbeat_at are data that no *)
(* method looks at; started_at and finished_at are abstracted to whether   *)
(* they are set.                                                           *)
(***************************************************************************)
EXTENDS Integers

ExecutionStatus == {"Queued", "Started", "Running", "Succeeded", "Failed",
                    "Cancelled", "RetryScheduled", "DeadLetter"}

\* validate admits attempt numbers from 1.
ExecutionRow(J) == [job            : J,
                    attempt_number : Nat \ {0},
                    status         : ExecutionStatus,
                    started_at     : BOOLEAN,
                    finished_at    : BOOLEAN]

NewExecution(j, n) == [job            |-> j,
                       attempt_number |-> n,
                       status         |-> "Queued",
                       started_at     |-> FALSE,
                       finished_at    |-> FALSE]

\* Mutant of ExecutionStarted: the time of the start is not set.
StartedUntimed(r) == [r EXCEPT !.status = "Started"]

ExecutionStarted(r) == [r EXCEPT !.status = "Started", !.started_at = TRUE]

ExecutionSucceeded(r) == [r EXCEPT !.status = "Succeeded", !.finished_at = TRUE]

ExecutionFailed(r) == [r EXCEPT !.status = "Failed", !.finished_at = TRUE]

IsActive(r) == r.status \in {"Started", "Running"}

IsExecutionComplete(r) == r.status \in {"Succeeded", "Failed", "Cancelled"}
=============================================================================
