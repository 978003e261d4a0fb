-------------------------- MODULE ExecutionService --------------------------
(***************************************************************************)
(* ExecutionService (src/services/execution_service.rs) over the           *)
(* executions table, next to JobService.                                   *)
(*                                                                         *)
(* Every handler reads the execution row, then reads the row of its job    *)
(* (jobs are never deleted, so that read always answers), asks             *)
(* can_access_job, which may refuse it, and writes the whole execution row *)
(* back.  None of them tests the status it read.  A handler in flight is a *)
(* record of the set "reports".                                            *)
(***************************************************************************)
EXTENDS JobService, JobExecution

CONSTANTS
    Executions,       \* execution ids
    Reports,          \* ids of the reports that may be in flight together
    ExecutionTargets, \* the statuses update_execution_status is asked for
    AccessAnswers     \* what can_access_job may answer, an error being FALSE

ASSUME ExecutionAssumption ==
    /\ ExecutionTargets \subseteq ExecutionStatus
    /\ AccessAnswers \subseteq BOOLEAN

VARIABLES
    executions,  \* executions[e]: the row of execution e, or NoExecution
    reports      \* the calls of ExecutionService in flight

execVars == <<executions, reports>>

serviceVars == <<jobs, queues, calls, starts, executions, reports>>

-----------------------------------------------------------------------------
NoExecution == [status |-> "Absent"]

Report == [id   : Reports,
           pc   : {"insert", "update"},
           exec : Executions,
           row  : ExecutionRow(Jobs)]

NewReport(c, pc, e, r) == [id |-> c, pc |-> pc, exec |-> e, row |-> r]

ReportIdle(c) == \A k \in reports : k.id # c

\* A report that has read the row of e and will write r in its place.
PrepareExecution(c, e, r) ==
    /\ ReportIdle(c)
    /\ executions[e] # NoExecution
    /\ reports' = reports \cup {NewReport(c, "update", e, r)}
    /\ UNCHANGED executions

\* Mutants of CreateExecution: validate is not called; the execution gets the
\* number of the next attempt.
CreateUnvalidated(c, e, j) ==
    /\ ReportIdle(c)
    /\ executions[e] = NoExecution
    /\ \A k \in reports : k.exec # e
    /\ Exists(j)
    /\ reports' = reports \cup
         {NewReport(c, "insert", e, NewExecution(j, jobs[j].attempt_count))}
    /\ UNCHANGED executions

CreateNextExecution(c, e, j) ==
    /\ ReportIdle(c)
    /\ executions[e] = NoExecution
    /\ \A k \in reports : k.exec # e
    /\ Exists(j)
    /\ jobs[j].attempt_count >= 1
    /\ reports' = reports \cup
         {NewReport(c, "insert", e, NewExecution(j, jobs[j].attempt_count + 1))}
    /\ UNCHANGED executions

(***************************************************************************)
(* create_execution reads the job and numbers the execution with its       *)
(* attempt_count; validate refuses a job that was never started.           *)
(***************************************************************************)
CreateExecution(c, e, j) ==
    /\ ReportIdle(c)
    /\ executions[e] = NoExecution
    /\ \A k \in reports : k.exec # e
    /\ Exists(j)
    /\ jobs[j].attempt_count >= 1
    /\ reports' = reports \cup
         {NewReport(c, "insert", e, NewExecution(j, jobs[j].attempt_count))}
    /\ UNCHANGED executions

MarkExecutionAsStarted(c, e) ==
    PrepareExecution(c, e, ExecutionStarted(executions[e]))

\* Mutant of MarkExecutionAsSucceeded: the status is left as it was.
SucceedKeepsStatus(c, e) ==
    PrepareExecution(c, e, [executions[e] EXCEPT !.finished_at = TRUE])

MarkExecutionAsSucceeded(c, e) ==
    PrepareExecution(c, e, ExecutionSucceeded(executions[e]))

MarkExecutionAsFailed(c, e) ==
    PrepareExecution(c, e, ExecutionFailed(executions[e]))

\* Only heartbeat_at is new in the row a heartbeat writes back.
UpdateExecutionHeartbeat(c, e) == PrepareExecution(c, e, executions[e])

UpdateExecutionStatus(c, e, s) ==
    PrepareExecution(c, e,
        [executions[e] EXCEPT
            !.status      = s,
            !.started_at  = @ \/ s = "Started",
            !.finished_at = @ \/ s \in {"Succeeded", "Failed", "Cancelled"}])

\* The check lets the call go on to db.create_job_execution or
\* db.update_job_execution: the row is replaced.
WriteExecution(k) ==
    /\ TRUE \in AccessAnswers
    /\ executions' = [executions EXCEPT ![k.exec] = k.row]
    /\ reports' = reports \ {k}

(***************************************************************************)
(* The call ends before its write: can_access_job refuses it, or a         *)
(* database call of it fails.  The handlers hand over the id of the job    *)
(* and the id of an organization where can_access_job takes the id of a    *)
(* user and the id of a job, so that as they are written it finds no job   *)
(* and refuses: AccessAnswers = {FALSE}.                                   *)
(***************************************************************************)
AbortReport(k) ==
    /\ Faults \/ FALSE \in AccessAnswers
    /\ reports' = reports \ {k}
    /\ UNCHANGED executions

\* get_execution_timeline: what its two events say of each execution of j.
\* Their times are left out, and so is the sort by time.
EndEvent(r) == IF IsExecutionComplete(r) THEN r.status ELSE "Unknown"

GetExecutionTimeline(j) ==
    LET OfJob == {e \in Executions : executions[e] # NoExecution /\ executions[e].job = j}
    IN  {<<e, "Started">> : e \in {e \in OfJob : executions[e].started_at}}
        \cup {<<e, EndEvent(executions[e])>> : e \in {e \in OfJob : executions[e].finished_at}}

-----------------------------------------------------------------------------
ExecutionRequest(c, e) ==
    \/ \E j \in Jobs : CreateExecution(c, e, j)
    \/ MarkExecutionAsStarted(c, e)
    \/ MarkExecutionAsSucceeded(c, e)
    \/ MarkExecutionAsFailed(c, e)
    \/ UpdateExecutionHeartbeat(c, e)
    \/ \E s \in ExecutionTargets : UpdateExecutionStatus(c, e, s)

ExecutionNext ==
    \/ \E c \in Reports, e \in Executions : ExecutionRequest(c, e)
    \/ \E k \in reports : WriteExecution(k) \/ AbortReport(k)

ExecutionInit ==
    /\ executions = [e \in Executions |-> NoExecution]
    /\ reports = {}

ServicesInit == Init /\ ExecutionInit

ServicesNext ==
    \/ Next /\ UNCHANGED execVars
    \/ ExecutionNext /\ UNCHANGED vars

\* The two services, called by anybody at any time.
ServicesSpec == ServicesInit /\ [][ServicesNext]_serviceVars

-----------------------------------------------------------------------------
(***************************************************************************)
(* Properties                                                              *)
(***************************************************************************)

\* The executions table holds execution rows, and so does every report.
ExecutionTypeOK ==
    /\ executions \in [Executions -> ExecutionRow(Jobs) \cup {NoExecution}]
    /\ reports \subseteq Report

\* The number of an execution is that of an attempt its job really made: not
\* 0, and not beyond the starts of the job, whichever stale job row
\* create_execution read and whichever stale execution row a report writes
\* back (execution_service.rs:51 takes attempt_count from a copy).
AttemptNumbersAreReal ==
    \A e \in Executions :
        executions[e] # NoExecution
            => executions[e].attempt_number \in 1..starts[executions[e].job]

\* The inductive invariant behind it, with StartsInv: the rows that reports
\* hold are numbered so as well.
NumberedBy(r, st) == r.attempt_number <= st[r.job]

ExecutionsInv ==
    /\ \A e \in Executions :
          executions[e] # NoExecution => NumberedBy(executions[e], starts)
    /\ \A k \in reports : NumberedBy(k.row, starts)
=============================================================================
