---------------------------- MODULE JobProcessor ----------------------------
(***************************************************************************)
(* Workers that run jobs, clients that ask for jobs and cancel them, and   *)
(* the two services between them.                                          *)
(*                                                                         *)
(* The loop of a worker is not among the Rust sources; the repository      *)
(* gives it as JobProcessor::process_job in JOB_EXECUTION_LIFECYCLE.md:    *)
(* create the execution, mark it started, run the handler, report the      *)
(* execution, report the job.  Each step awaits the one before, and an     *)
(* error ends the task.  Heartbeats are sent beside it.                    *)
(*                                                                         *)
(* Worker w makes its calls under the call id and the report id w; other   *)
(* call ids are clients', other report ids are those of heartbeats and of  *)
(* operators.                                                              *)
(***************************************************************************)
EXTENDS ExecutionService, FiniteSets

CONSTANTS
    Workers,        \* worker ids, which are call ids and report ids too
    ClientOps,      \* what clients call, besides create_job
    ClientTargets,  \* the statuses clients ask update_job_status for
    NoJob, NoExec   \* the job and the execution of an idle task

ASSUME ProcessorAssumption ==
    /\ Workers \subseteq Calls \cap Reports
    /\ ClientOps \subseteq Op
    /\ ClientTargets \cup {"Succeeded", "Failed"} \subseteq StatusTargets
    /\ NoJob \notin Jobs
    /\ NoExec \notin Executions

VARIABLES
    task,  \* task[w]: how far worker w is, with which job and execution
    lost   \* history: the jobs whose task ended with a call that failed

flowVars == <<jobs, queues, calls, starts, executions, reports, task>>

procVars == <<jobs, queues, calls, starts, executions, reports, task, lost>>

Clients == Calls \ Workers

Beats == Reports \ Workers

Stage == {"idle", "taking", "creating", "starting", "succeeding", "failing",
          "finishing", "dead"}

IdleTask == [at |-> "idle", job |-> NoJob, exec |-> NoExec]

\* No call of w is in flight: the last one has returned.
Free(w) == Idle(w) /\ ReportIdle(w)

\* w has made the call of its stage, and goes on.
At(w, s) == task[w].at = s /\ Free(w)

Advance(w, s) == task' = [task EXCEPT ![w].at = s]

-----------------------------------------------------------------------------
\* The worker takes a job that can be executed.
TakeJob(w, j) ==
    /\ At(w, "idle")
    /\ CanBeExecuted(jobs[j])
    /\ starts[j] < MaxStarts
    /\ UpdateJob(w, j, MarkAsProcessing(jobs[j]))
    /\ task' = [task EXCEPT ![w] = [at |-> "taking", job |-> j, exec |-> NoExec]]
    /\ UNCHANGED execVars

BeginExecution(w, e) ==
    /\ At(w, "taking")
    /\ CreateExecution(w, e, task[w].job)
    /\ task' = [task EXCEPT ![w] = [@ EXCEPT !.at = "creating", !.exec = e]]
    /\ UNCHANGED vars

StartExecution(w) ==
    /\ At(w, "creating")
    /\ MarkExecutionAsStarted(w, task[w].exec)
    /\ Advance(w, "starting")
    /\ UNCHANGED vars

\* Mutant of HandlerReturns: a timeout of the handler is not stopped by its
\* answer.
HandlerTimesOutLate(w) ==
    /\ \/ At(w, "starting") /\ MarkExecutionAsSucceeded(w, task[w].exec) /\ Advance(w, "succeeding")
       \/ /\ At(w, "starting") \/ At(w, "succeeding")
          /\ MarkExecutionAsFailed(w, task[w].exec) /\ Advance(w, "failing")
    /\ UNCHANGED vars

\* The handler of the job type answers Ok or Err, or there is none.
HandlerReturns(w) ==
    /\ At(w, "starting")
    /\ \/ MarkExecutionAsSucceeded(w, task[w].exec) /\ Advance(w, "succeeding")
       \/ MarkExecutionAsFailed(w, task[w].exec) /\ Advance(w, "failing")
    /\ UNCHANGED vars

FinishJob(w) ==
    /\ \/ At(w, "succeeding") /\ UpdateJobStatus(w, task[w].job, "Succeeded")
       \/ At(w, "failing") /\ UpdateJobStatus(w, task[w].job, "Failed")
    /\ Advance(w, "finishing")
    /\ UNCHANGED execVars

\* A service refuses the next call of w, and its task ends: the job has no
\* attempt to number the execution with, or is no longer Processing.
Refused(w) ==
    \/ At(w, "taking") /\ jobs[task[w].job].attempt_count < 1
    \/ /\ (At(w, "succeeding") \/ At(w, "failing"))
       /\ jobs[task[w].job].status # "Processing"

EndTask(w) ==
    /\ (At(w, "finishing") \/ Refused(w))
    /\ task' = [task EXCEPT ![w] = IdleTask]
    /\ UNCHANGED serviceVars

\* The call of w in flight ends where it is.
LosesCall(w) ==
    \/ \E k \in calls : k.id = w /\ Abort(k) /\ UNCHANGED execVars
    \/ \E k \in reports : k.id = w /\ AbortReport(k) /\ UNCHANGED vars

\* A call of w fails or is refused, and its task ends: the job is left as it is.
CallFails(w) ==
    /\ LosesCall(w)
    /\ task' = [task EXCEPT ![w] = IdleTask]

\* Mutant of Stop: the call in flight goes on without the worker.
StopLeavesCall(w) ==
    /\ Faults
    /\ task[w].at # "dead"
    /\ Advance(w, "dead")
    /\ UNCHANGED serviceVars

\* The process of w stops for good, between two calls or in one.
Stop(w) ==
    /\ Faults
    /\ task[w].at # "dead"
    /\ \/ LosesCall(w)
       \/ Free(w) /\ UNCHANGED serviceVars
    /\ Advance(w, "dead")

\* While the handler runs, a heartbeat is sent for its execution.
Heartbeat(b, w) ==
    /\ At(w, "starting")
    /\ UpdateExecutionHeartbeat(b, task[w].exec)
    /\ UNCHANGED <<jobs, queues, calls, starts, task>>

\* An operator asks for a status of an execution.
OperatorReport(b, e) ==
    /\ \E s \in ExecutionTargets : UpdateExecutionStatus(b, e, s)
    /\ UNCHANGED <<jobs, queues, calls, starts, task>>

-----------------------------------------------------------------------------
ClientRequest(c, j) ==
    \/ \E q \in Queues, m \in MaxAttempts :
          CreateJob(c, j, New(q, m)) \/ CreateJob(c, j, NewScheduled(q, m))
    \/ \E s \in ClientTargets : UpdateJobStatus(c, j, s)
    \/ "cancel_job" \in ClientOps /\ CancelJob(c, j)
    \/ "retry_job" \in ClientOps /\ RetryJob(c, j)
    \/ "schedule_job_for_retry" \in ClientOps /\ ScheduleJobForRetry(c, j)

ClientNext ==
    /\ \/ \E c \in Clients, j \in Jobs : ClientRequest(c, j)
       \/ \E k \in calls : k.id \in Clients /\ Abort(k)
    /\ UNCHANGED <<execVars, task>>

\* The calls in flight go on, whoever made them.
ServiceStep ==
    \/ \E k \in calls : Step(k) /\ UNCHANGED <<execVars, task>>
    \/ \E k \in reports : WriteExecution(k) /\ UNCHANGED <<vars, task>>
    \/ \E k \in reports : k.id \in Beats /\ AbortReport(k) /\ UNCHANGED <<vars, task>>

WorkerStep(w) ==
    \/ \E j \in Jobs : TakeJob(w, j)
    \/ \E e \in Executions : BeginExecution(w, e)
    \/ StartExecution(w)
    \/ HandlerReturns(w)
    \/ FinishJob(w)
    \/ EndTask(w)

ProcessorInit ==
    /\ ServicesInit
    /\ task = [w \in Workers |-> IdleTask]
    /\ lost = {}

ProcessorStep ==
    \/ ClientNext
    \/ ServiceStep
    \/ \E w \in Workers : WorkerStep(w) \/ Stop(w)
    \/ \E b \in Beats, w \in Workers : Heartbeat(b, w)
    \/ \E b \in Beats, e \in Executions : OperatorReport(b, e)

ProcessorNext ==
    \/ ProcessorStep /\ UNCHANGED lost
    \/ \E w \in Workers : CallFails(w) /\ lost' = lost \cup {task[w].job}

ProcessorSpec == ProcessorInit /\ [][ProcessorNext]_procVars

\* A report in flight is written, or its caller learns that it was not.
Answered(c) ==
    \/ \E k \in reports : k.id = c /\ WriteExecution(k) /\ UNCHANGED <<vars, task>>
    \/ \E k \in reports : k.id = c /\ c \in Beats /\ AbortReport(k) /\ UNCHANGED <<vars, task>>
    \/ c \in Workers /\ CallFails(c)

\* Calls in flight go on, and a worker that has not stopped makes its next
\* call: both are spawned futures that the async runtime polls.
ProcessorFairness ==
    /\ \A c \in Calls :
          WF_flowVars(\E k \in calls : k.id = c /\ Step(k) /\ UNCHANGED <<execVars, task>>)
    /\ \A c \in Reports : WF_flowVars(Answered(c))
    /\ \A w \in Workers : WF_flowVars(WorkerStep(w))

FairProcessorSpec == ProcessorSpec /\ ProcessorFairness

-----------------------------------------------------------------------------
(***************************************************************************)
(* Properties                                                              *)
(***************************************************************************)

\* The stages in which a task has a job, and those in which it has an
\* execution of it.
WithJob == {"taking", "creating", "starting", "succeeding", "failing"}

WithExec == WithJob \ {"taking"}

TaskTyped ==
    /\ task \in [Workers -> [at : Stage, job : Jobs \cup {NoJob},
                             exec : Executions \cup {NoExec}]]
    /\ \A w \in Workers :
          /\ task[w].at \in WithJob => task[w].job \in Jobs
          /\ task[w].at \in WithExec => task[w].exec \in Executions

\* A task has a job from its first call on and an execution from its second,
\* and a stopped worker has nothing in flight.
ProcessorTypeOK ==
    /\ TaskTyped
    /\ lost \subseteq Jobs \cup {NoJob}
    /\ \A w \in Workers : task[w].at = "dead" => Free(w)

\* The inductive invariant behind it: a worker has one call in flight at most,
\* of one service or the other.
OneInFlight(w, cs, rs) ==
    /\ \A k1, k2 \in rs : k1.id = w /\ k2.id = w => k1 = k2
    /\ \A k1 \in cs, k2 \in rs : ~ (k1.id = w /\ k2.id = w)

ProcessorInv ==
    \A w \in Workers :
        /\ OneInFlight(w, calls, reports)
        /\ task[w].at = "dead" => Free(w)

\* A job is Succeeded only if some worker's run of it is recorded as a
\* success: two workers on the same job, cancellations, retries and workers
\* that stop never leave a success without a record (the order of the two
\* reports in process_job).  Holds
\* while no heartbeat is sent and no operator sets a status.
WasRun(j) ==
    \E e \in Executions :
        /\ executions[e] # NoExecution
        /\ executions[e].job = j
        /\ executions[e].status = "Succeeded"

SucceededJobWasRun == \A j \in Jobs : jobs[j].status = "Succeeded" => WasRun(j)

\* The timeline of a job tells of runs that were made: each end is known and
\* comes with the start of its own execution, and no more starts are told than
\* the job had, although several workers replace whole rows and may stop
\* between any two reports (get_execution_timeline,
\* execution_service.rs:347-389).  Holds under the same conditions.
TimelineTellsOfRuns ==
    \A j \in Jobs :
        LET timeline == GetExecutionTimeline(j)
            Started == {x \in timeline : x[2] = "Started"}
        IN  /\ \A x \in timeline : x[2] # "Unknown" /\ <<x[1], "Started">> \in timeline
            /\ Cardinality(Started) <= starts[j]

\* The conditions: all reports are those of the workers, and clients do not
\* call a job Succeeded themselves.
OwnReports == Beats = {} /\ "Succeeded" \notin ClientTargets

\* The inductive invariant behind the two.  A report of a worker writes the row
\* of the worker's stage over that of an earlier one; no two workers report on
\* the same execution; a worker that has taken a job waits for one write.
RowAt(r, s) ==
    \/ s = "creating"   /\ r.status = "Queued"    /\ ~r.started_at /\ ~r.finished_at
    \/ s = "starting"   /\ r.status = "Started"   /\ r.started_at  /\ ~r.finished_at
    \/ s = "succeeding" /\ r.status = "Succeeded" /\ r.started_at  /\ r.finished_at
    \/ s = "failing"    /\ r.status = "Failed"    /\ r.started_at  /\ r.finished_at

RowOf(r, t) == r.job = t.job /\ RowAt(r, t.at)

ReportFits(k, t, x) ==
    /\ t.at \in WithExec
    /\ k.exec = t.exec
    /\ RowOf(k.row, t)
    /\ x[k.exec].status # "Succeeded"

ReportsFit ==
    /\ \A k \in reports : k.id \in Workers /\ ReportFits(k, task[k.id], executions)
    /\ \A w \in Workers :
          task[w].at \in WithExec /\ ReportIdle(w) =>
              /\ executions[task[w].exec] # NoExecution
              /\ RowOf(executions[task[w].exec], task[w])
    /\ \A e \in Executions :
          executions[e] # NoExecution => \E s \in WithExec : RowAt(executions[e], s)

OwnExecutions ==
    \A v, w \in Workers :
        /\ task[v].at \in WithExec /\ task[w].at \in WithExec
        /\ task[v].exec = task[w].exec
        => v = w

TakingInv ==
    \A w \in Workers, k \in calls :
        task[w].at = "taking" /\ k.id = w =>
            /\ k.pc = "write" /\ k.op = "update_job"
            /\ k.job = task[w].job /\ k.row.status = "Processing"

SuccessInv ==
    /\ SucceededJobWasRun
    /\ \A k \in calls :
          k.pc \in {"insert", "write"} /\ k.row.status = "Succeeded" => WasRun(k.job)

\* Each run told, or about to be told, has used up a start of its own.
Runs(j) ==
    {e \in Executions :
        \/ executions[e] # NoExecution /\ executions[e].job = j
        \/ \E k \in reports : k.exec = e /\ k.row.job = j}

Takers(j) ==
    {w \in Workers : task[w].at = "taking" /\ task[w].job = j /\ Idle(w)}

UsedStarts(j) ==
    {<<e, "Started">> : e \in Runs(j)} \cup {<<w, "taking">> : w \in Takers(j)}

StartsSuffice ==
    \A j \in Jobs :
        /\ IsFiniteSet(UsedStarts(j))
        /\ Cardinality(UsedStarts(j)) <= starts[j]

\* A job that exists comes to rest: for good it is finished, or, when an
\* access check refused a report of a worker that ran it, it stays Processing
\* with no worker on it.  So it is when clients only create and cancel jobs
\* and no worker stops, even if several workers take the same job at once and
\* run it to opposite ends; only a refusal, and never the race of the two,
\* leaves a job Processing (process_job with mark_as_processing,
\* update_job_status and cancel_job on stale rows).
JobsComeToRest ==
    \A j \in Jobs :
        Exists(j) ~> [](IsComplete(jobs[j]) \/ (jobs[j].status = "Processing" /\ j \in lost))
=============================================================================
