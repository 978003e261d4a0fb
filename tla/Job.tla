-------------------------------- MODULE Job --------------------------------
(***************************************************************************)
(* The job row of src/models/job.rs and the pure methods the services and  *)
(* the workers apply to a copy of it.  A row keeps the fields that guards  *)
(* read: payload, output, messages, priority and the created, updated and  *)
(* completed timestamps are data no guard of the job lifecycle looks at.   *)
(* scheduled_for is abstracted to whether it is set; whether a set time    *)
(* has come is left open, so a scheduled job may be found due at any time. *)
(***************************************************************************)
EXTENDS Integers

\* The six statuses of the enum, and the seventh that the transition table
\* of job_service.rs names ("dead letter").
JobStatus == {"Pending", "Scheduled", "Processing", "Succeeded", "Failed",
              "Cancelled", "DeadLetter"}

\* What validate admits as max_attempts; create_job refuses anything else.
ValidAttempts == 1..10

JobRow(Q) == [status        : JobStatus,
              attempt_count : Nat,
              max_attempts  : ValidAttempts,
              scheduled_for : BOOLEAN,
              queue_id      : Q]

\* Mutant of New: max_attempts left at 0, as if validate were not called.
NewUnvalidated(q, max) ==
    [status |-> "Pending", attempt_count |-> 0, max_attempts |-> max - max,
     scheduled_for |-> FALSE, queue_id |-> q]

\* Job::new and Job::new_scheduled.
New(q, max) == [status        |-> "Pending",
                attempt_count |-> 0,
                max_attempts  |-> max,
                scheduled_for |-> FALSE,
                queue_id      |-> q]

NewScheduled(q, max) ==
    [New(q, max) EXCEPT !.status = "Scheduled", !.scheduled_for = TRUE]

CanBeExecuted(r) ==
    \/ r.status = "Pending"
    \/ r.status = "Scheduled" /\ r.scheduled_for

IsComplete(r) == r.status \in {"Succeeded", "Failed", "Cancelled"}

CanBeRetried(r) == r.status = "Failed" /\ r.attempt_count < r.max_attempts

MarkAsProcessing(r) ==
    [r EXCEPT !.status = "Processing", !.attempt_count = r.attempt_count + 1]

MarkAsSucceeded(r) == [r EXCEPT !.status = "Succeeded"]

MarkAsFailed(r) == [r EXCEPT !.status = "Failed"]

MarkAsCancelled(r) == [r EXCEPT !.status = "Cancelled"]

MarkAsScheduled(r) ==
    [r EXCEPT !.status = "Scheduled", !.scheduled_for = TRUE]
=============================================================================
