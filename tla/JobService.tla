----------------------------- MODULE JobService -----------------------------
(***************************************************************************)
(* JobService (src/services/job_service.rs) over the jobs table.           *)
(*                                                                         *)
(* Every handler is a chain of awaited database calls without transaction  *)
(* or lock: it reads a row, decides on the copy, and writes the whole row  *)
(* back.  Each await is one action here, so the calls of several API       *)
(* servers and workers interleave between a read and its write.  A call in *)
(* flight is a record of the set "calls"; it leaves the set when it        *)
(* returns.  A request that is refused changes nothing: it is a call whose *)
(* first action is not enabled.                                            *)
(***************************************************************************)
EXTENDS Job

CONSTANTS
    Jobs,           \* job ids
    Queues,         \* queue ids
    NoQueue,        \* an absent dead_letter_queue_id
    Calls,          \* ids of the calls that may be in flight together
    MaxAttempts,    \* the valid max_attempts that clients create jobs with
    StatusTargets,  \* the statuses clients ask update_job_status for
    QueueRows,      \* the queue rows QueueService may write
    Dependents,     \* Dependents[j]: the jobs that depend on job j
    MayGiveUp,      \* whether calculate_retry_delay may answer None
    Faults,         \* whether a database call may fail, or a process stop
    MaxStarts       \* bound: no start of a job begins after this many

QueueRow == [is_active : BOOLEAN, dead_letter_queue_id : Queues \cup {NoQueue}]

ASSUME QueuesAssumption == NoQueue \notin Queues

ASSUME ConstantsAssumption ==
    /\ MaxAttempts \subseteq ValidAttempts
    /\ StatusTargets \subseteq JobStatus
    /\ QueueRows \subseteq QueueRow
    /\ Dependents \in [Jobs -> SUBSET Jobs]
    /\ MayGiveUp \in BOOLEAN
    /\ Faults \in BOOLEAN
    /\ MaxStarts \in Nat

VARIABLES
    jobs,    \* jobs[j]: the row of job j, or Absent
    queues,  \* queues[q]: the row of queue q
    calls,   \* the calls in flight
    starts   \* history: starts[j] counts the writes that put j in Processing

vars == <<jobs, queues, calls, starts>>

-----------------------------------------------------------------------------
\* "No row": it satisfies no guard of a handler that has to find one.
Absent == [status |-> "Absent", attempt_count |-> 0, max_attempts |-> 1,
           scheduled_for |-> FALSE, queue_id |-> NoQueue]

Row == JobRow(Queues)

Exists(j) == jobs[j] # Absent

Op == {"create_job", "update_job_status", "update_job", "cancel_job",
       "retry_job", "schedule_job_for_retry"}

\* Where a call waits: for the insert, for the update, for the row of the
\* queue, for the re-read of the dead letter move and for the queue it then
\* reads, for the list of dependents, for the next dependent's update.
PC == {"insert", "write", "queue", "reread", "dlq", "dependents", "cascade"}

Call == [id   : Calls,
         op   : Op,
         pc   : PC,
         job  : Jobs,
         row  : Row,                          \* the copy the call holds
         from : JobStatus,                    \* its status when it was read
         rest : SUBSET [job : Jobs, row : Row]]  \* dependents still to write

Idle(c) == \A k \in calls : k.id # c

NewCall(c, op, pc, j, row, from) ==
    [id |-> c, op |-> op, pc |-> pc, job |-> j, row |-> row, from |-> from,
     rest |-> {}]

\* A call that has read the row of j and will write r in its place.
Prepare(c, op, j, r) ==
    /\ Idle(c)
    /\ Exists(j)
    /\ calls' = calls \cup {NewCall(c, op, "write", j, r, jobs[j].status)}
    /\ UNCHANGED <<jobs, queues, starts>>

\* Call k goes on as k2.
Continue(k, k2) == calls' = (calls \ {k}) \cup {k2}

Return(k) == calls' = calls \ {k}

\* db.update_job / db.create_job: one statement replaces the whole row.
Store(j, r) ==
    /\ jobs' = [jobs EXCEPT ![j] = r]
    /\ starts' = IF r.status = "Processing"
                 THEN [starts EXCEPT ![j] = starts[j] + 1]
                 ELSE starts

-----------------------------------------------------------------------------
(***************************************************************************)
(* create_job: validate, read the queue and refuse an inactive one, then   *)
(* insert.  The new uuid is no other call's.                               *)
(***************************************************************************)
CreateJob(c, j, r) ==
    /\ Idle(c)
    /\ ~Exists(j)
    /\ \A k \in calls : k.job # j
    /\ queues[r.queue_id].is_active
    /\ calls' = calls \cup {NewCall(c, "create_job", "insert", j, r, r.status)}
    /\ UNCHANGED <<jobs, queues, starts>>

InsertJob(k) ==
    /\ k.pc = "insert"
    /\ Store(k.job, k.row)
    /\ Return(k)
    /\ UNCHANGED queues

(***************************************************************************)
(* update_job_status, retry_job and the first half of cancel_job: read the *)
(* row, test the copy's status, prepare the new row.                       *)
(***************************************************************************)
\* Mutant of IsValidStatusTransition: a pending job may fail unstarted.
TransitionSkipsStart(from, to) ==
    \/ from = "Pending" /\ to = "Failed"
    \/ from = "Failed"  /\ to \in {"Pending", "DeadLetter"}

\* Mutant of IsValidStatusTransition: a job in Processing cannot fail.
TransitionNeverFails(from, to) ==
    \/ from = "Pending"    /\ to \in {"Processing", "Scheduled", "Cancelled"}
    \/ from = "Processing" /\ to \in {"Succeeded", "Cancelled"}

IsValidStatusTransition(from, to) ==
    \/ from = "Pending"    /\ to \in {"Processing", "Scheduled", "Cancelled"}
    \/ from = "Scheduled"  /\ to \in {"Pending", "Cancelled"}
    \/ from = "Processing" /\ to \in {"Succeeded", "Failed", "Cancelled"}
    \/ from = "Failed"     /\ to \in {"Pending", "DeadLetter"}
    \/ from = "DeadLetter" /\ to = "Pending"

UpdateJobStatus(c, j, s) ==
    /\ IsValidStatusTransition(jobs[j].status, s)
    /\ s = "Processing" => starts[j] < MaxStarts
    /\ Prepare(c, "update_job_status", j, [jobs[j] EXCEPT !.status = s])

\* Mutants of RetryJob: it counts an attempt; it does not test the budget; it
\* starts the count afresh.
RetryCountsAttempt(c, j) ==
    /\ jobs[j].status = "Failed"
    /\ jobs[j].attempt_count < jobs[j].max_attempts
    /\ Prepare(c, "retry_job", j,
               [jobs[j] EXCEPT !.status = "Pending", !.attempt_count = @ + 1])

RetryIgnoresBudget(c, j) ==
    /\ jobs[j].status = "Failed"
    /\ Prepare(c, "retry_job", j, [jobs[j] EXCEPT !.status = "Pending"])

RetryResetsCount(c, j) ==
    /\ jobs[j].status = "Failed"
    /\ jobs[j].attempt_count < jobs[j].max_attempts
    /\ Prepare(c, "retry_job", j,
               [jobs[j] EXCEPT !.status = "Pending", !.attempt_count = 0])

RetryJob(c, j) ==
    /\ jobs[j].status = "Failed"
    /\ jobs[j].attempt_count < jobs[j].max_attempts
    /\ Prepare(c, "retry_job", j, [jobs[j] EXCEPT !.status = "Pending"])

\* Mutants of CancelJob: it cancels failed jobs too; or succeeded ones.
CancelFailed(c, j) ==
    /\ jobs[j].status \notin {"Succeeded", "Cancelled"}
    /\ Prepare(c, "cancel_job", j, [jobs[j] EXCEPT !.status = "Cancelled"])

CancelSucceeded(c, j) ==
    /\ jobs[j].status \notin {"Failed", "Cancelled"}
    /\ Prepare(c, "cancel_job", j, [jobs[j] EXCEPT !.status = "Cancelled"])

\* The copy is already Cancelled when the code asks whether it is Processing,
\* so the branch that cancels the running execution is never taken.
CancelJob(c, j) ==
    /\ jobs[j].status \notin {"Succeeded", "Failed", "Cancelled"}
    /\ Prepare(c, "cancel_job", j, [jobs[j] EXCEPT !.status = "Cancelled"])

(***************************************************************************)
(* update_job validates the row its caller hands it and writes it.  The    *)
(* callers, outside the repository, read a job, apply a method of job.rs   *)
(* whose precondition the copy satisfies, and hand the result back; no     *)
(* such method breaks what validate tests.                                 *)
(***************************************************************************)
UpdateJob(c, j, r) == Prepare(c, "update_job", j, r)

CallerUpdates(c, j) ==
    \/ /\ CanBeExecuted(jobs[j])
       /\ starts[j] < MaxStarts
       /\ UpdateJob(c, j, MarkAsProcessing(jobs[j]))
    \/ /\ jobs[j].status = "Processing"
       /\ \/ UpdateJob(c, j, MarkAsSucceeded(jobs[j]))
          \/ UpdateJob(c, j, MarkAsFailed(jobs[j]))
    \/ /\ jobs[j].status = "Pending"
       /\ UpdateJob(c, j, MarkAsScheduled(jobs[j]))
    \/ /\ jobs[j].status \in {"Pending", "Scheduled", "Processing"}
       /\ UpdateJob(c, j, MarkAsCancelled(jobs[j]))

(***************************************************************************)
(* The update of the row.  cancel_job goes on to its dependents, every     *)
(* other call returns.                                                     *)
(***************************************************************************)
WriteJob(k) ==
    /\ k.pc = "write"
    /\ Store(k.job, k.row)
    /\ IF k.op = "cancel_job"
       THEN Continue(k, [k EXCEPT !.pc = "dependents"])
       ELSE Return(k)
    /\ UNCHANGED queues

(***************************************************************************)
(* handle_job_cancellation_dependencies: the dependents are read once and  *)
(* then written one by one, in the order the database returned them.       *)
(***************************************************************************)
ReadDependents(k) ==
    /\ k.pc = "dependents"
    /\ LET found == {d \in Dependents[k.job] : Exists(d)}
       IN  IF found = {}
           THEN Return(k)
           ELSE Continue(k, [k EXCEPT !.pc = "cascade",
                                 !.rest = {[job |-> d, row |-> jobs[d]] : d \in found}])
    /\ UNCHANGED <<jobs, queues, starts>>

\* Mutant of CancelDependent: the loop stops after the first dependent.
CancelOneDependent(k, d) ==
    /\ k.pc = "cascade"
    /\ Store(d.job, [d.row EXCEPT !.status = "Cancelled"])
    /\ Return(k)
    /\ UNCHANGED queues

CancelDependent(k, d) ==
    /\ k.pc = "cascade"
    /\ Store(d.job, [d.row EXCEPT !.status = "Cancelled"])
    /\ IF k.rest = {d}
       THEN Return(k)
       ELSE Continue(k, [k EXCEPT !.rest = k.rest \ {d}])
    /\ UNCHANGED queues

(***************************************************************************)
(* schedule_job_for_retry: read the job, read its queue, then either       *)
(* schedule the copy or, when calculate_retry_delay answers None, move the *)
(* job to the dead letter queue, which reads job and queue once more and   *)
(* tests neither the status nor the attempts of what it finds.             *)
(***************************************************************************)
ScheduleJobForRetry(c, j) ==
    /\ Idle(c)
    /\ Exists(j)
    /\ CanBeRetried(jobs[j])
    /\ calls' = calls \cup
         {NewCall(c, "schedule_job_for_retry", "queue", j, jobs[j], jobs[j].status)}
    /\ UNCHANGED <<jobs, queues, starts>>

ReadRetryQueue(k) ==
    /\ k.pc = "queue"
    /\ \/ Continue(k, [k EXCEPT !.pc = "write", !.row = MarkAsScheduled(k.row)])
       \/ MayGiveUp /\ Continue(k, [k EXCEPT !.pc = "reread"])
    /\ UNCHANGED <<jobs, queues, starts>>

MoveToDeadLetterQueue(k) ==
    /\ k.pc = "reread"
    /\ Exists(k.job)
    /\ Continue(k, [k EXCEPT !.pc = "dlq", !.row = jobs[k.job],
                             !.from = jobs[k.job].status])
    /\ UNCHANGED <<jobs, queues, starts>>

ReadDeadLetterQueue(k) ==
    /\ k.pc = "dlq"
    /\ LET dlq == queues[k.row.queue_id].dead_letter_queue_id
           moved == IF dlq # NoQueue
                    THEN [k.row EXCEPT !.queue_id = dlq, !.status = "Pending"]
                    ELSE [k.row EXCEPT !.status = "Failed"]
       IN  Continue(k, [k EXCEPT !.pc = "write", !.row = moved])
    /\ UNCHANGED <<jobs, queues, starts>>

-----------------------------------------------------------------------------
\* A database call fails, or the process that serves the call stops: the
\* call ends where it is and nothing undoes what it has already written.
Abort(k) ==
    /\ Faults
    /\ Return(k)
    /\ UNCHANGED <<jobs, queues, starts>>

\* pause_queue, resume_queue and update_queue_settings write queue rows.
QueueServiceWrites(q) ==
    /\ \E r \in QueueRows : queues' = [queues EXCEPT ![q] = r]
    /\ UNCHANGED <<jobs, calls, starts>>

Init ==
    /\ jobs = [j \in Jobs |-> Absent]
    /\ queues \in [Queues -> QueueRows]
    /\ calls = {}
    /\ starts = [j \in Jobs |-> 0]

Request(c, j) ==
    \/ \E q \in Queues, m \in MaxAttempts :
          CreateJob(c, j, New(q, m)) \/ CreateJob(c, j, NewScheduled(q, m))
    \/ \E s \in StatusTargets : UpdateJobStatus(c, j, s)
    \/ CallerUpdates(c, j)
    \/ CancelJob(c, j)
    \/ RetryJob(c, j)
    \/ ScheduleJobForRetry(c, j)

Step(k) ==
    \/ InsertJob(k)
    \/ WriteJob(k)
    \/ ReadDependents(k)
    \/ \E d \in k.rest : CancelDependent(k, d)
    \/ ReadRetryQueue(k)
    \/ MoveToDeadLetterQueue(k)
    \/ ReadDeadLetterQueue(k)

Next ==
    \/ \E c \in Calls, j \in Jobs : Request(c, j)
    \/ \E k \in calls : Step(k) \/ Abort(k)
    \/ \E q \in Queues : QueueServiceWrites(q)

Spec == Init /\ [][Next]_vars

\* A call that runs goes on: the async runtime polls every spawned future.
Fairness == \A c \in Calls : WF_vars(\E k \in calls : k.id = c /\ Step(k))

FairSpec == Spec /\ Fairness

-----------------------------------------------------------------------------
(***************************************************************************)
(* Properties                                                              *)
(***************************************************************************)

\* The jobs table holds job rows, and so does every call in flight, at most
\* one under each call id.
TypeOK ==
    /\ jobs \in [Jobs -> Row \cup {Absent}]
    /\ queues \in [Queues -> QueueRow]
    /\ calls \subseteq Call
    /\ starts \in [Jobs -> Nat]
    /\ \A k1, k2 \in calls : k1.id = k2.id => k1 = k2

\* A job is Processing, Succeeded, Failed or DeadLetter only if some worker
\* did start it, whichever stale copies the handlers of job_service.rs write
\* over each other and wherever they stop half way.
CompletedWasStarted ==
    \A j \in Jobs :
        jobs[j].status \in {"Processing", "Succeeded", "Failed", "DeadLetter"}
            => starts[j] > 0

\* attempt_count never exceeds the starts a job really had: lost updates may
\* hide an attempt, but no attempt a job is charged with was not made, so no
\* job runs out of its retries early (mark_as_processing, job.rs:131).
NoPhantomAttempts == \A j \in Jobs : jobs[j].attempt_count <= starts[j]

\* No job is charged with more attempts than max_attempts, for all the stale
\* rows that are written back (the limit retry_job tests at
\* job_service.rs:191 and can_be_retried at job.rs:128).  Holds for requests
\* that respect it, see BudgetRequests.
RetryBudget ==
    \A j \in Jobs : jobs[j].attempt_count <= jobs[j].max_attempts

\* The inductive invariant behind the first two: every row, in the table or
\* in the hands of a call, is backed by the starts its job has had, except
\* that a row about to be written may announce the start its write counts.
Backed(r, n) ==
    /\ r.attempt_count <= n
    /\ r.status \in {"Processing", "Succeeded", "Failed", "DeadLetter"} => n > 0

BackedWhenWritten(r, n) ==
    IF r.status = "Processing" THEN r.attempt_count <= n + 1 ELSE Backed(r, n)

CallBacked(k, st) ==
    /\ k.pc \in {"insert", "write"} => BackedWhenWritten(k.row, st[k.job])
    /\ k.pc \in {"queue", "dlq"} => Backed(k.row, st[k.job])
    /\ k.pc \in {"queue", "reread", "dlq"} => st[k.job] > 0
    /\ \A d \in k.rest : Backed(d.row, st[d.job])

StartsInv ==
    /\ \A j \in Jobs : Backed(jobs[j], starts[j])
    /\ \A k \in calls : CallBacked(k, starts)

\* The requests that respect the budget: none asks update_job_status to bring
\* a failed job back without the test of retry_job, and the dead letter move,
\* which puts a job back to Pending untested, is not taken.
BudgetRequests == "Pending" \notin StatusTargets /\ ~MayGiveUp

\* The inductive invariant behind the third: every row is within its budget,
\* strictly so while it may be started again.
WithinBudget(r) ==
    /\ r.attempt_count <= r.max_attempts
    /\ r.status \in {"Pending", "Scheduled"} => r.attempt_count < r.max_attempts

CallWithinBudget(k) ==
    /\ WithinBudget(k.row)
    /\ k.pc = "queue" => CanBeRetried(k.row)
    /\ k.pc \notin {"reread", "dlq"}
    /\ \A d \in k.rest : WithinBudget(d.row)

BudgetInv ==
    /\ \A j \in Jobs : WithinBudget(jobs[j])
    /\ \A k \in calls : CallWithinBudget(k)

\* One call at a time, and no start but by mark_as_processing: attempt_count is
\* exactly the number of starts.
AttemptsAreStarts == \A j \in Jobs : jobs[j].attempt_count = starts[j]

\* One call at a time: Cancelled is final, and only the cascade of a
\* cancelled parent takes a job out of Succeeded (the transition table's
\* "tidak bisa berpindah status lagi", job_service.rs:297 and 300).
FinalStep ==
    \A j \in Jobs :
        /\ jobs[j].status = "Cancelled" => jobs'[j].status = "Cancelled"
        /\ jobs[j].status = "Succeeded" /\ jobs'[j].status # "Succeeded"
              => \E p \in Jobs : j \in Dependents[p] /\ jobs[p].status = "Cancelled"

Finality == [][FinalStep]_vars

\* The inductive invariant behind it: what a call has read is still true.
OneCall == \A c, d \in Calls : c = d

CallCurrent(k, tbl) ==
    /\ k.pc = "insert" => tbl[k.job] = Absent
    /\ k.pc \in {"queue", "reread", "dlq"} =>
          tbl[k.job].status = "Failed" /\ k.op # "cancel_job"
    /\ k.pc = "write" =>
          /\ tbl[k.job].status \notin {"Succeeded", "Cancelled"}
          /\ k.op = "cancel_job" => k.row.status = "Cancelled"
    /\ k.pc \in {"dependents", "cascade"} => tbl[k.job].status = "Cancelled"
    /\ \A d \in k.rest : d.job \in Dependents[k.job]

SerialInv == \A k \in calls : CallCurrent(k, jobs)

\* The status requests that neither skip the attempt count nor the retry
\* budget, made one call at a time.
SerialRequests ==
    OneCall /\ StatusTargets \cap {"Pending", "Processing", "DeadLetter"} = {}

\* The inductive invariant behind AttemptsAreStarts and ImplementsLifecycle:
\* the copy a call holds differs from the row in the table by one move of the
\* lifecycle.  A dead letter move without a queue to move to changes nothing.
SameCounts(old, new) ==
    /\ new.attempt_count = old.attempt_count
    /\ new.max_attempts = old.max_attempts

LegalMove(old, new) ==
    \/ /\ SameCounts(old, new)
       /\ \/ old.status = "Pending" /\ new.status = "Scheduled"
          \/ old.status = "Processing" /\ new.status \in {"Succeeded", "Failed"}
          \/ CanBeRetried(old) /\ new.status \in {"Pending", "Scheduled", "Failed"}
          \/ /\ old.status \in {"Pending", "Scheduled", "Processing"}
             /\ new.status = "Cancelled"
    \/ /\ old.status \in {"Pending", "Scheduled"}
       /\ new.status = "Processing"
       /\ new.attempt_count = old.attempt_count + 1
       /\ new.max_attempts = old.max_attempts

CallLegal(k, tbl) ==
    /\ k.pc = "insert" => k.row.status \in {"Pending", "Scheduled"} /\ k.row.attempt_count = 0
    /\ k.pc = "write" => LegalMove(tbl[k.job], k.row)
    /\ k.pc \in {"queue", "reread", "dlq"} =>
          CanBeRetried(tbl[k.job]) /\ k.row = tbl[k.job]
    /\ k.pc # "cascade" => k.rest = {}
    /\ \A d \in k.rest :
          tbl[d.job] # Absent /\ SameCounts(tbl[d.job], d.row)

LegalInv ==
    /\ \A j \in Jobs : /\ jobs[j].attempt_count = starts[j]
                       /\ jobs[j].status # "DeadLetter"
                       /\ WithinBudget(jobs[j])
    /\ \A k \in calls : CallLegal(k, jobs)

\* Without faults, once cancel_job has cancelled j, each job that depends on
\* j and exists is Cancelled at some later moment, in spite of all the other
\* calls (handle_job_cancellation_dependencies, job_service.rs:160).
CancelReachesDependents ==
    \A j \in Jobs : \A d \in Dependents[j] :
        (\E k \in calls : k.pc = "dependents" /\ k.job = j) /\ Exists(d)
            ~> jobs[d].status = "Cancelled"

\* One call at a time and with the status targets that neither skip the
\* attempt count nor the retry budget, the service implements JobLifecycle.
Lifecycle == INSTANCE JobLifecycle
    WITH status   <- [j \in Jobs |-> jobs[j].status],
         attempts <- [j \in Jobs |-> jobs[j].attempt_count],
         budget   <- [j \in Jobs |-> jobs[j].max_attempts]

ImplementsLifecycle == Lifecycle!Spec
=============================================================================
