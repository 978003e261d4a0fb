-------------------------- MODULE JobProcessorProofs --------------------------
(***************************************************************************)
(* Theorems about ExecutionService next to JobService, and about workers   *)
(* and clients who use the two, for every value of the constants.  Workers *)
(* and clients only do what anybody may do to the two services: the        *)
(* composed system implements ServicesSpec, so that what is proved of the  *)
(* services holds of it.                                                   *)
(***************************************************************************)
EXTENDS JobProcessor, JobServiceProofs, FiniteSetTheorems

-----------------------------------------------------------------------------
(***************************************************************************)
(* The two services.                                                       *)
(***************************************************************************)

\* A step of the two services is a step of JobService or leaves it alone.
LEMMA ServicesImplementJobService == ServicesSpec => Spec
<1>1. ServicesInit => Init
  BY DEF ServicesInit
<1>2. [ServicesNext]_serviceVars => [Next]_vars
  BY DEF ServicesNext, serviceVars, vars
<1>3. QED
  BY <1>1, <1>2, PTL DEF ServicesSpec, Spec

-----------------------------------------------------------------------------
\* Starts never decrease: only Store changes them.
LEMMA StartsGrow ==
    ASSUME TypeOK, [Next]_vars
    PROVE  /\ starts' \in [Jobs -> Nat]
           /\ \A i \in Jobs : starts[i] <= starts'[i]
<1>1. starts \in [Jobs -> Nat]
  BY DEF TypeOK
<1>2. ASSUME NEW j, NEW r, Store(j, r)
      PROVE  /\ starts' \in [Jobs -> Nat]
             /\ \A i \in Jobs : starts[i] <= starts'[i]
  <2>1. CASE r.status = "Processing" /\ j \in Jobs
    <3>1. starts[j] + 1 \in Nat
      BY <1>1, <2>1
    <3>2. QED
      BY <1>1, <1>2, <2>1, <3>1 DEF Store
  <2>2. CASE r.status = "Processing" /\ j \notin Jobs
    <3>1. starts' = [i \in Jobs |-> starts[i]]
      BY <1>1, <1>2, <2>2 DEF Store
    <3>2. QED
      BY <1>1, <3>1
  <2>3. CASE r.status # "Processing"
    BY <1>1, <1>2, <2>3 DEF Store
  <2>4. QED
    BY <2>1, <2>2, <2>3
<1>3. CASE UNCHANGED starts
  BY <1>1, <1>3
<1>4. ASSUME NEW c \in Calls, NEW j \in Jobs, Request(c, j)
      PROVE  UNCHANGED starts
  BY <1>4 DEF Request, CreateJob, UpdateJobStatus, CallerUpdates, UpdateJob,
              CancelJob, RetryJob, ScheduleJobForRetry, Prepare
<1>5. ASSUME NEW k \in calls, Step(k) \/ Abort(k)
      PROVE  UNCHANGED starts \/ (\E j, r : Store(j, r))
  BY <1>5 DEF Step, Abort, InsertJob, WriteJob, ReadDependents, CancelDependent,
              ReadRetryQueue, MoveToDeadLetterQueue, ReadDeadLetterQueue
<1>6. ASSUME NEW q \in Queues, QueueServiceWrites(q)
      PROVE  UNCHANGED starts
  BY <1>6 DEF QueueServiceWrites
<1>7. UNCHANGED starts \/ (\E j, r : Store(j, r))
  BY <1>4, <1>5, <1>6 DEF Next, vars
<1>8. QED
  BY <1>2, <1>3, <1>7

-----------------------------------------------------------------------------
(***************************************************************************)
(* Every request of ExecutionService adds one report and nothing else.     *)
(* Its row is new and numbered by the job's attempts, or has the job and   *)
(* the number of the execution row that was read.                          *)
(***************************************************************************)
Reporting(c, e, r) ==
    /\ executions' = executions
    /\ \/ /\ reports' = reports \cup {NewReport(c, "insert", e, r)}
          /\ r.attempt_number = jobs[r.job].attempt_count
       \/ /\ reports' = reports \cup {NewReport(c, "update", e, r)}
          /\ executions[e] # NoExecution
          /\ r.job = executions[e].job
          /\ r.attempt_number = executions[e].attempt_number

LEMMA RequestedRow ==
    ASSUME TypeOK, ExecutionTypeOK, NEW c \in Reports, NEW e \in Executions,
           ExecutionRequest(c, e)
    PROVE  \E r \in ExecutionRow(Jobs) : Reporting(c, e, r)
<1> DEFINE x == executions[e]
<1>1. ASSUME NEW j \in Jobs, CreateExecution(c, e, j)
      PROVE  \E r \in ExecutionRow(Jobs) : Reporting(c, e, r)
  <2> DEFINE r == NewExecution(j, jobs[j].attempt_count)
  <2>1. jobs[j] \in Row
    BY <1>1, TypeParts, FoundRow DEF CreateExecution
  <2>2. jobs[j].attempt_count \in Nat \ {0}
    BY <1>1, <2>1 DEF CreateExecution, Row, JobRow
  <2>3. r \in ExecutionRow(Jobs) /\ r.attempt_number = jobs[r.job].attempt_count
    BY <2>2 DEF NewExecution, ExecutionRow, ExecutionStatus
  <2>4. QED
    BY <1>1, <2>3 DEF CreateExecution, Reporting
<1>2. ASSUME NEW r, PrepareExecution(c, e, r),
             x # NoExecution =>
                /\ r \in ExecutionRow(Jobs)
                /\ r.job = x.job
                /\ r.attempt_number = x.attempt_number
      PROVE  \E q \in ExecutionRow(Jobs) : Reporting(c, e, q)
  BY <1>2 DEF PrepareExecution, Reporting
<1>3. x # NoExecution => x \in ExecutionRow(Jobs)
  BY DEF ExecutionTypeOK
<1>4. CASE MarkExecutionAsStarted(c, e)
  <2>1. x # NoExecution =>
           /\ ExecutionStarted(x) \in ExecutionRow(Jobs)
           /\ ExecutionStarted(x).job = x.job
           /\ ExecutionStarted(x).attempt_number = x.attempt_number
    BY <1>3 DEF ExecutionStarted, ExecutionRow, ExecutionStatus
  <2>2. QED
    BY <1>2, <1>4, <2>1 DEF MarkExecutionAsStarted
<1>5. CASE MarkExecutionAsSucceeded(c, e)
  <2>1. x # NoExecution =>
           /\ ExecutionSucceeded(x) \in ExecutionRow(Jobs)
           /\ ExecutionSucceeded(x).job = x.job
           /\ ExecutionSucceeded(x).attempt_number = x.attempt_number
    BY <1>3 DEF ExecutionSucceeded, ExecutionRow, ExecutionStatus
  <2>2. QED
    BY <1>2, <1>5, <2>1 DEF MarkExecutionAsSucceeded
<1>6. CASE MarkExecutionAsFailed(c, e)
  <2>1. x # NoExecution =>
           /\ ExecutionFailed(x) \in ExecutionRow(Jobs)
           /\ ExecutionFailed(x).job = x.job
           /\ ExecutionFailed(x).attempt_number = x.attempt_number
    BY <1>3 DEF ExecutionFailed, ExecutionRow, ExecutionStatus
  <2>2. QED
    BY <1>2, <1>6, <2>1 DEF MarkExecutionAsFailed
<1>7. CASE UpdateExecutionHeartbeat(c, e)
  BY <1>2, <1>3, <1>7 DEF UpdateExecutionHeartbeat
<1>8. ASSUME NEW s \in ExecutionTargets, UpdateExecutionStatus(c, e, s)
      PROVE  \E r \in ExecutionRow(Jobs) : Reporting(c, e, r)
  <2> DEFINE r == [x EXCEPT
                      !.status      = s,
                      !.started_at  = @ \/ s = "Started",
                      !.finished_at = @ \/ s \in {"Succeeded", "Failed", "Cancelled"}]
  <2>1. s \in ExecutionStatus
    BY ExecutionAssumption
  <2>2. x # NoExecution =>
           r \in ExecutionRow(Jobs) /\ r.job = x.job
             /\ r.attempt_number = x.attempt_number
    BY <1>3, <2>1 DEF ExecutionRow
  <2>3. PrepareExecution(c, e, r)
    BY <1>8 DEF UpdateExecutionStatus
  <2>4. QED
    BY <1>2, <2>2, <2>3
<1>9. QED
  BY <1>1, <1>4, <1>5, <1>6, <1>7, <1>8 DEF ExecutionRequest

\* Type correctness of the executions table and of the reports.
THEOREM ExecutionTypeCorrect == ServicesSpec => []ExecutionTypeOK
<1>1. ServicesInit => ExecutionTypeOK
  BY DEF ServicesInit, ExecutionInit, ExecutionTypeOK
<1>2. TypeOK /\ ExecutionTypeOK /\ [ServicesNext]_serviceVars => ExecutionTypeOK'
  <2> SUFFICES ASSUME TypeOK, ExecutionTypeOK, [ServicesNext]_serviceVars
               PROVE  ExecutionTypeOK'
    OBVIOUS
  <2>1. ASSUME NEW c \in Reports, NEW e \in Executions, ExecutionRequest(c, e)
        PROVE  ExecutionTypeOK'
    <3>1. PICK r \in ExecutionRow(Jobs) : Reporting(c, e, r)
      BY <2>1, RequestedRow
    <3>2. /\ NewReport(c, "insert", e, r) \in Report
          /\ NewReport(c, "update", e, r) \in Report
      BY DEF NewReport, Report
    <3>3. QED
      BY <3>1, <3>2 DEF ExecutionTypeOK, Reporting
  <2>2. ASSUME NEW k \in reports, WriteExecution(k)
        PROVE  ExecutionTypeOK'
    <3>1. k \in Report
      BY DEF ExecutionTypeOK
    <3>2. k.exec \in Executions /\ k.row \in ExecutionRow(Jobs)
      BY <3>1 DEF Report
    <3>3. QED
      BY <2>2, <3>2 DEF WriteExecution, ExecutionTypeOK
  <2>3. ASSUME NEW k \in reports, AbortReport(k)
        PROVE  ExecutionTypeOK'
    BY <2>3 DEF AbortReport, ExecutionTypeOK
  <2>4. CASE UNCHANGED execVars
    BY <2>4 DEF execVars, ExecutionTypeOK
  <2>5. QED
    BY <2>1, <2>2, <2>3, <2>4
       DEF ServicesNext, ExecutionNext, serviceVars, execVars
<1>3. QED
  BY <1>1, <1>2, ServicesImplementJobService, TypeCorrect, PTL DEF ServicesSpec

-----------------------------------------------------------------------------
\* Every execution row, stored or held by a report, is numbered by an attempt
\* that was made.
LEMMA ExecutionsAreBacked == ServicesSpec => []ExecutionsInv
<1>1. ServicesInit => ExecutionsInv
  BY DEF ServicesInit, ExecutionInit, ExecutionsInv
<1>2. /\ TypeOK /\ StartsInv /\ ExecutionTypeOK
      /\ ExecutionsInv /\ [ServicesNext]_serviceVars
      => ExecutionsInv'
  <2> SUFFICES ASSUME TypeOK, StartsInv, ExecutionTypeOK, ExecutionsInv,
                      [ServicesNext]_serviceVars
               PROVE  ExecutionsInv'
    OBVIOUS
  <2>1. ASSUME NEW c \in Reports, NEW e \in Executions, ExecutionRequest(c, e),
               UNCHANGED vars
        PROVE  ExecutionsInv'
    <3>1. PICK r \in ExecutionRow(Jobs) : Reporting(c, e, r)
      BY <2>1, RequestedRow
    <3>2. r.job \in Jobs
      BY DEF ExecutionRow
    <3>3. NumberedBy(r, starts)
      BY <3>1, <3>2 DEF Reporting, ExecutionsInv, NumberedBy, StartsInv, Backed
    <3>4. /\ NewReport(c, "insert", e, r).row = r
          /\ NewReport(c, "update", e, r).row = r
      BY DEF NewReport
    <3>5. QED
      BY <2>1, <3>1, <3>3, <3>4 DEF Reporting, ExecutionsInv, vars
  <2>2. ASSUME NEW k \in reports, WriteExecution(k), UNCHANGED vars
        PROVE  ExecutionsInv'
    BY <2>2 DEF WriteExecution, ExecutionsInv, ExecutionTypeOK, vars
  <2>3. ASSUME NEW k \in reports, AbortReport(k), UNCHANGED vars
        PROVE  ExecutionsInv'
    BY <2>3 DEF AbortReport, ExecutionsInv, vars
  <2>4. CASE [Next]_vars /\ UNCHANGED execVars
    <3>1. /\ starts \in [Jobs -> Nat] /\ starts' \in [Jobs -> Nat]
          /\ \A i \in Jobs : starts[i] <= starts'[i]
      BY <2>4, StartsGrow DEF TypeOK
    <3>2. ASSUME NEW r \in ExecutionRow(Jobs), NumberedBy(r, starts)
          PROVE  NumberedBy(r, starts')
      <4>1. r.job \in Jobs /\ r.attempt_number \in Nat
        BY DEF ExecutionRow
      <4>2. /\ starts[r.job] \in Nat /\ starts'[r.job] \in Nat
            /\ starts[r.job] <= starts'[r.job]
        BY <3>1, <4>1
      <4>3. QED
        BY <3>2, <4>1, <4>2 DEF NumberedBy
    <3>3. /\ \A k \in reports : k.row \in ExecutionRow(Jobs)
          /\ \A e \in Executions :
                executions[e] # NoExecution => executions[e] \in ExecutionRow(Jobs)
      BY DEF ExecutionTypeOK, Report
    <3>4. QED
      BY <2>4, <3>2, <3>3 DEF ExecutionsInv, execVars
  <2>5. QED
    BY <2>1, <2>2, <2>3, <2>4
       DEF ServicesNext, ExecutionNext, serviceVars, execVars, vars
<1>3. QED
  BY <1>1, <1>2, ServicesImplementJobService, TypeCorrect, RowsAreBacked,
     ExecutionTypeCorrect, PTL
     DEF ServicesSpec

\* No execution is numbered 0 or beyond the starts of its job, under every
\* interleaving of the calls of both services.
THEOREM ExecutionsAreNumbered == ServicesSpec => []AttemptNumbersAreReal
<1>1. TypeOK /\ ExecutionTypeOK /\ ExecutionsInv => AttemptNumbersAreReal
  <2> SUFFICES ASSUME TypeOK, ExecutionTypeOK, ExecutionsInv,
                      NEW e \in Executions, executions[e] # NoExecution
               PROVE  executions[e].attempt_number \in 1..starts[executions[e].job]
    BY DEF AttemptNumbersAreReal
  <2>1. executions[e] \in ExecutionRow(Jobs)
    BY DEF ExecutionTypeOK
  <2>2. /\ executions[e].attempt_number \in Nat \ {0}
        /\ starts[executions[e].job] \in Nat
    BY <2>1 DEF ExecutionRow, TypeOK
  <2>3. executions[e].attempt_number <= starts[executions[e].job]
    BY DEF ExecutionsInv, NumberedBy
  <2>4. QED
    BY <2>2, <2>3
<1>2. QED
  BY <1>1, ServicesImplementJobService, TypeCorrect, ExecutionTypeCorrect,
     ExecutionsAreBacked, PTL

-----------------------------------------------------------------------------
(***************************************************************************)
(* Workers and clients.                                                    *)
(***************************************************************************)

\* A task at a stage has what the call of that stage needs.
LEMMA TasksAreTyped == ProcessorSpec => []TaskTyped
<1> USE DEF WithJob, WithExec, Stage
<1>1. ProcessorInit => TaskTyped
  BY DEF ProcessorInit, IdleTask, TaskTyped
<1>2. TaskTyped /\ [ProcessorNext]_procVars => TaskTyped'
  <2> SUFFICES ASSUME TaskTyped, [ProcessorNext]_procVars
               PROVE  TaskTyped'
    OBVIOUS
  <2>1. CASE UNCHANGED task
    BY <2>1 DEF TaskTyped
  <2>2. ASSUME NEW w \in Workers, WorkerStep(w) PROVE TaskTyped'
    <3>1. CASE \E j \in Jobs : TakeJob(w, j)
      BY <3>1 DEF TakeJob, TaskTyped
    <3>2. CASE \E e \in Executions : BeginExecution(w, e)
      BY ZenonT(40), <3>2 DEF BeginExecution, At, TaskTyped
    <3>3. CASE StartExecution(w)
      BY <3>3 DEF StartExecution, At, Advance, TaskTyped
    <3>4. CASE HandlerReturns(w)
      BY <3>4 DEF HandlerReturns, At, Advance, TaskTyped
    <3>5. CASE FinishJob(w)
      BY <3>5 DEF FinishJob, Advance, TaskTyped
    <3>6. CASE EndTask(w)
      BY <3>6 DEF EndTask, IdleTask, TaskTyped
    <3>7. QED
      BY <2>2, <3>1, <3>2, <3>3, <3>4, <3>5, <3>6 DEF WorkerStep
  <2>3. ASSUME NEW w \in Workers, CallFails(w) PROVE TaskTyped'
    BY <2>3 DEF CallFails, IdleTask, TaskTyped
  <2>4. ASSUME NEW w \in Workers, Stop(w) PROVE TaskTyped'
    BY <2>4 DEF Stop, Advance, TaskTyped
  <2>5. QED
    BY <2>1, <2>2, <2>3, <2>4
       DEF ProcessorNext, ProcessorStep, ClientNext, ServiceStep, Heartbeat, OperatorReport, procVars
<1>3. QED
  BY <1>1, <1>2, PTL DEF ProcessorSpec

-----------------------------------------------------------------------------
\* A request of a client is one that JobService takes from anybody.
LEMMA ClientsStep ==
    ASSUME ClientNext
    PROVE  ServicesNext
<1>1. ASSUME NEW c \in Clients, NEW j \in Jobs, ClientRequest(c, j)
      PROVE  Next
  <2>1. c \in Calls /\ ClientTargets \subseteq StatusTargets
    BY ProcessorAssumption DEF Clients
  <2>2. Request(c, j)
    BY <1>1, <2>1 DEF ClientRequest, Request
  <2>3. QED
    BY <2>1, <2>2 DEF Next
<1>2. ASSUME NEW k \in calls, Abort(k)
      PROVE  Next
  BY <1>2 DEF Next
<1>3. QED
  BY <1>1, <1>2 DEF ClientNext, ServicesNext, execVars

\* Every step of a worker's task is a call of one of the services, or none.
LEMMA WorkersStep ==
    ASSUME TaskTyped, NEW w \in Workers, WorkerStep(w)
    PROVE  ServicesNext \/ UNCHANGED serviceVars
<1>1. w \in Calls /\ w \in Reports /\ {"Succeeded", "Failed"} \subseteq StatusTargets
  BY ProcessorAssumption
<1>2. ASSUME NEW e \in Executions, ExecutionRequest(w, e), UNCHANGED vars
      PROVE  ServicesNext
  BY <1>1, <1>2 DEF ServicesNext, ExecutionNext
<1>3. ASSUME NEW j \in Jobs, TakeJob(w, j)
      PROVE  ServicesNext
  <2>1. CallerUpdates(w, j)
    BY <1>3 DEF TakeJob, CallerUpdates
  <2>2. Next
    BY <1>1, <2>1 DEF Next, Request
  <2>3. QED
    BY <1>3, <2>2 DEF ServicesNext, TakeJob
<1>4. ASSUME NEW e \in Executions, BeginExecution(w, e)
      PROVE  ServicesNext
  <2>1. task[w].job \in Jobs
    BY <1>4 DEF BeginExecution, At, TaskTyped, WithJob
  <2>2. ExecutionRequest(w, e)
    BY <1>4, <2>1 DEF BeginExecution, ExecutionRequest
  <2>3. QED
    BY <1>2, <1>4, <2>2 DEF BeginExecution
<1>5. ASSUME StartExecution(w) \/ HandlerReturns(w)
      PROVE  ServicesNext
  <2>1. task[w].exec \in Executions
    BY <1>5 DEF StartExecution, HandlerReturns, At, TaskTyped, WithJob, WithExec
  <2>2. ExecutionRequest(w, task[w].exec) /\ UNCHANGED vars
    BY <1>5 DEF StartExecution, HandlerReturns, ExecutionRequest
  <2>3. QED
    BY <1>2, <2>1, <2>2
<1>6. ASSUME FinishJob(w)
      PROVE  ServicesNext
  <2>1. task[w].job \in Jobs
    BY <1>6 DEF FinishJob, At, TaskTyped, WithJob
  <2>2. Request(w, task[w].job)
    BY <1>1, <1>6 DEF FinishJob, Request
  <2>3. QED
    BY <1>1, <1>6, <2>1, <2>2 DEF ServicesNext, Next, FinishJob
<1>7. ASSUME EndTask(w)
      PROVE  UNCHANGED serviceVars
  BY <1>7 DEF EndTask
<1>8. QED
  BY <1>3, <1>4, <1>5, <1>6, <1>7 DEF WorkerStep

\* A worker that stops, or whose call fails, leaves the services a call that
\* ends, or nothing.
LEMMA LossesStep ==
    ASSUME NEW w \in Workers, CallFails(w) \/ Stop(w)
    PROVE  ServicesNext \/ UNCHANGED serviceVars
<1>1. CASE LosesCall(w)
  <2>1. CASE \E k \in calls : k.id = w /\ Abort(k) /\ UNCHANGED execVars
    BY <2>1 DEF ServicesNext, Next
  <2>2. CASE \E k \in reports : k.id = w /\ AbortReport(k) /\ UNCHANGED vars
    BY <2>2 DEF ServicesNext, ExecutionNext
  <2>3. QED
    BY <1>1, <2>1, <2>2 DEF LosesCall
<1>2. CASE UNCHANGED serviceVars
  BY <1>2
<1>3. QED
  BY <1>1, <1>2 DEF CallFails, Stop

\* Workers and clients, however they interleave, fail and stop, use the two
\* services as ServicesSpec allows.
THEOREM ProcessorUsesServices == ProcessorSpec => ServicesSpec
<1>1. ProcessorInit => ServicesInit
  BY DEF ProcessorInit
<1>2. TaskTyped /\ [ProcessorNext]_procVars => [ServicesNext]_serviceVars
  <2> SUFFICES ASSUME TaskTyped, ProcessorNext
               PROVE  ServicesNext \/ UNCHANGED serviceVars
    BY DEF procVars, serviceVars
  <2>1. CASE ClientNext
    BY <2>1, ClientsStep
  <2>2. CASE ServiceStep
    BY <2>2 DEF ServiceStep, ServicesNext, Next, ExecutionNext
  <2>3. ASSUME NEW w \in Workers, WorkerStep(w) \/ CallFails(w) \/ Stop(w)
        PROVE  ServicesNext \/ UNCHANGED serviceVars
    BY <2>3, WorkersStep, LossesStep
  <2>4. ASSUME NEW b \in Beats, NEW w \in Workers, Heartbeat(b, w)
        PROVE  ServicesNext
    <3>1. b \in Reports /\ task[w].exec \in Executions
      BY <2>4 DEF Beats, Heartbeat, At, TaskTyped, WithJob, WithExec
    <3>2. ExecutionRequest(b, task[w].exec) /\ UNCHANGED vars
      BY <2>4 DEF Heartbeat, ExecutionRequest, vars
    <3>3. QED
      BY <3>1, <3>2 DEF ServicesNext, ExecutionNext
  <2>5. ASSUME NEW b \in Beats, NEW e \in Executions, OperatorReport(b, e)
        PROVE  ServicesNext
    <3>1. ExecutionRequest(b, e) /\ UNCHANGED vars
      BY <2>5 DEF OperatorReport, ExecutionRequest, vars
    <3>2. QED
      BY <3>1 DEF Beats, ServicesNext, ExecutionNext
  <2>6. QED
    BY <2>1, <2>2, <2>3, <2>4, <2>5 DEF ProcessorNext, ProcessorStep
<1>3. QED
  BY <1>1, <1>2, TasksAreTyped, PTL DEF ProcessorSpec, ServicesSpec

-----------------------------------------------------------------------------
\* A call that steps or ends leaves a call with its id at most, and a report
\* that is written or ends leaves nothing.
LEMMA StepsKeepIds ==
    ASSUME TypeOK, NEW k \in calls, Step(k) \/ Abort(k)
    PROVE  \E x : x.id = k.id /\ calls' \subseteq (calls \ {k}) \cup {x}
<1>1. k \in Call
  BY DEF TypeOK
<1>2. \A p, r, f, d :
         /\ [k EXCEPT !.pc = p].id = k.id
         /\ [k EXCEPT !.rest = d].id = k.id
         /\ [k EXCEPT !.pc = p, !.row = r].id = k.id
         /\ [k EXCEPT !.pc = p, !.rest = d].id = k.id
         /\ [k EXCEPT !.pc = p, !.row = r, !.from = f].id = k.id
  BY <1>1 DEF Call
<1>3. ASSUME NEW x, x.id = k.id, Continue(k, x)
      PROVE  \E y : y.id = k.id /\ calls' \subseteq (calls \ {k}) \cup {y}
  BY <1>3 DEF Continue
<1>4. ASSUME Return(k)
      PROVE  \E y : y.id = k.id /\ calls' \subseteq (calls \ {k}) \cup {y}
  BY <1>4 DEF Return
<1>5. CASE InsertJob(k) \/ Abort(k)
  BY <1>4, <1>5 DEF InsertJob, Abort
<1>6. CASE WriteJob(k)
  BY <1>2, <1>3, <1>4, <1>6 DEF WriteJob
<1>7. CASE ReadDependents(k)
  BY <1>2, <1>3, <1>4, <1>7 DEF ReadDependents
<1>8. CASE \E d \in k.rest : CancelDependent(k, d)
  BY <1>2, <1>3, <1>4, <1>8 DEF CancelDependent
<1>9. CASE ReadRetryQueue(k)
  BY <1>2, <1>3, <1>9 DEF ReadRetryQueue
<1>10. CASE MoveToDeadLetterQueue(k)
  <2> DEFINE x == [k EXCEPT !.pc = "dlq", !.row = jobs[k.job],
                            !.from = jobs[k.job].status]
  <2>1. x.id = k.id
    BY <1>2
  <2>2. Continue(k, x)
    BY <1>10 DEF MoveToDeadLetterQueue
  <2>3. QED
    BY <1>3, <2>1, <2>2
<1>11. CASE ReadDeadLetterQueue(k)
  BY <1>2, <1>3, <1>11 DEF ReadDeadLetterQueue
<1>12. QED
  BY <1>5, <1>6, <1>7, <1>8, <1>9, <1>10, <1>11 DEF Step

\* A request adds a call, or a report, under the id it is made with.
AddsCall(c) ==
    /\ \E x : x.id = c /\ calls' \subseteq calls \cup {x}
    /\ reports' = reports

AddsReport(c) ==
    /\ \E x : x.id = c /\ reports' \subseteq reports \cup {x}
    /\ calls' = calls

LEMMA RequestAddsCall ==
    ASSUME NEW c, NEW j, UNCHANGED execVars,
           Request(c, j) \/ ClientRequest(c, j)
    PROVE  AddsCall(c)
<1>1. \A op, pc, r, f : NewCall(c, op, pc, j, r, f).id = c
  BY DEF NewCall
<1>2. ASSUME NEW op, NEW r, Prepare(c, op, j, r)
      PROVE  AddsCall(c)
  BY <1>1, <1>2 DEF Prepare, AddsCall, execVars
<1>3. ASSUME NEW r, CreateJob(c, j, r)
      PROVE  AddsCall(c)
  BY <1>1, <1>3 DEF CreateJob, AddsCall, execVars
<1>4. ASSUME ScheduleJobForRetry(c, j)
      PROVE  AddsCall(c)
  BY <1>1, <1>4 DEF ScheduleJobForRetry, AddsCall, execVars
<1>5. QED
  BY <1>2, <1>3, <1>4
     DEF Request, ClientRequest, UpdateJobStatus, CallerUpdates, UpdateJob,
         CancelJob, RetryJob

LEMMA RequestAddsReport ==
    ASSUME NEW c, NEW e, UNCHANGED vars, ExecutionRequest(c, e)
    PROVE  AddsReport(c)
<1>1. \A pc, r : NewReport(c, pc, e, r).id = c
  BY DEF NewReport
<1>2. ASSUME NEW r, PrepareExecution(c, e, r)
      PROVE  AddsReport(c)
  BY <1>1, <1>2 DEF PrepareExecution, AddsReport, vars
<1>3. ASSUME NEW j, CreateExecution(c, e, j)
      PROVE  AddsReport(c)
  BY <1>1, <1>3 DEF CreateExecution, AddsReport, vars
<1>4. QED
  BY <1>2, <1>3
     DEF ExecutionRequest, MarkExecutionAsStarted, MarkExecutionAsSucceeded,
         MarkExecutionAsFailed, UpdateExecutionHeartbeat, UpdateExecutionStatus

\* What a worker has in flight, after another's request or its own.
LEMMA FlightsAfterRequest ==
    ASSUME NEW v, OneInFlight(v, calls, reports), NEW c,
           AddsCall(c) \/ AddsReport(c), c # v \/ Free(v)
    PROVE  /\ OneInFlight(v, calls', reports')
           /\ c # v /\ Free(v) => Free(v)'
  BY DEF OneInFlight, AddsCall, AddsReport, Free, Idle, ReportIdle

\* What a worker has in flight, after a call in flight goes on or ends.
LEMMA FlightsAfterStep ==
    ASSUME NEW v, OneInFlight(v, calls, reports),
           \/ /\ \E k \in calls : \E x : x.id = k.id /\ calls' \subseteq (calls \ {k}) \cup {x}
              /\ reports' = reports
           \/ reports' \subseteq reports /\ calls' = calls
    PROVE  /\ OneInFlight(v, calls', reports')
           /\ Free(v) => Free(v)'
  BY DEF OneInFlight, Free, Idle, ReportIdle

\* When a worker loses its call it has none in flight.
LEMMA LossFrees ==
    ASSUME TypeOK, NEW w, OneInFlight(w, calls, reports), LosesCall(w)
    PROVE  Free(w)'
<1>1. CASE \E k \in calls : k.id = w /\ Abort(k) /\ UNCHANGED execVars
  BY <1>1 DEF TypeOK, OneInFlight, Abort, Return, Free, Idle, ReportIdle, execVars
<1>2. CASE \E k \in reports : k.id = w /\ AbortReport(k) /\ UNCHANGED vars
  BY <1>2 DEF OneInFlight, AbortReport, Free, Idle, ReportIdle, vars
<1>3. QED
  BY <1>1, <1>2 DEF LosesCall

LEMMA LossEndsCall ==
    ASSUME NEW v, OneInFlight(v, calls, reports), NEW w, LosesCall(w)
    PROVE  /\ OneInFlight(v, calls', reports')
           /\ Free(v) => Free(v)'
  BY DEF LosesCall, Abort, AbortReport, Return, OneInFlight, Free, Idle,
         ReportIdle, execVars, vars

\* A worker's own request: it has none in flight, and does not stop.
LEMMA OwnRequest ==
    ASSUME TaskTyped, NEW w \in Workers, WorkerStep(w)
    PROVE  /\ \/ Free(w) /\ (AddsCall(w) \/ AddsReport(w))
              \/ UNCHANGED serviceVars
           /\ task'[w].at # "dead"
           /\ \A v \in Workers \ {w} : task'[v] = task[v]
<1>1. ASSUME NEW j \in Jobs, TakeJob(w, j) PROVE Request(w, j)
  BY <1>1 DEF TakeJob, Request, CallerUpdates
<1>2. ASSUME FinishJob(w) PROVE Request(w, task[w].job)
  BY <1>2, ProcessorAssumption DEF FinishJob, Request
<1>3. ASSUME NEW e, BeginExecution(w, e) PROVE AddsReport(w)
  BY <1>3 DEF BeginExecution, CreateExecution, AddsReport, NewReport, vars
<1>4. ASSUME StartExecution(w) \/ HandlerReturns(w)
      PROVE  ExecutionRequest(w, task[w].exec)
  BY <1>4 DEF StartExecution, HandlerReturns, ExecutionRequest
<1>5. \/ Free(w) /\ (AddsCall(w) \/ AddsReport(w))
      \/ UNCHANGED serviceVars
  BY <1>1, <1>2, <1>3, <1>4, RequestAddsCall, RequestAddsReport
     DEF WorkerStep, TakeJob, BeginExecution, StartExecution, HandlerReturns,
         FinishJob, EndTask, At
<1>6. PICK r : task' = [task EXCEPT ![w] = r] /\ r.at # "dead"
  <2> DEFINE x == task[w]
  <2>1. x \in [at : Stage, job : Jobs \cup {NoJob}, exec : Executions \cup {NoExec}]
    BY DEF TaskTyped
  <2>2. \A s, e : /\ [x EXCEPT !.at = s].at = s
                  /\ [x EXCEPT !.at = s, !.exec = e].at = s
    BY <2>1
  <2>3. ASSUME NEW j \in Jobs, TakeJob(w, j)
        PROVE  \E r : task' = [task EXCEPT ![w] = r] /\ r.at # "dead"
    <3> DEFINE r == [at |-> "taking", job |-> j, exec |-> NoExec]
    <3>1. task' = [task EXCEPT ![w] = r] /\ r.at # "dead"
      BY <2>3 DEF TakeJob
    <3>2. QED
      BY <3>1
  <2>4. ASSUME NEW e, BeginExecution(w, e)
        PROVE  \E r : task' = [task EXCEPT ![w] = r] /\ r.at # "dead"
    <3> DEFINE r == [x EXCEPT !.at = "creating", !.exec = e]
    <3>1. task' = [task EXCEPT ![w] = r]
      BY <2>4 DEF BeginExecution
    <3>2. r.at = "creating"
      BY <2>2
    <3>3. QED
      BY <3>1, <3>2
  <2>5. ASSUME NEW s, s # "dead", Advance(w, s)
        PROVE  \E r : task' = [task EXCEPT ![w] = r] /\ r.at # "dead"
    <3> DEFINE r == [x EXCEPT !.at = s]
    <3>1. task' = [task EXCEPT ![w] = r]
      BY <2>5 DEF Advance
    <3>2. r.at = s
      BY <2>2
    <3>3. QED
      BY <2>5, <3>1, <3>2
  <2>6. CASE StartExecution(w) \/ HandlerReturns(w) \/ FinishJob(w)
    BY <2>5, <2>6 DEF StartExecution, HandlerReturns, FinishJob
  <2>7. CASE EndTask(w)
    <3>1. task' = [task EXCEPT ![w] = IdleTask] /\ IdleTask.at # "dead"
      BY <2>7 DEF EndTask, IdleTask
    <3>2. QED
      BY <3>1
  <2>8. QED
    BY <2>3, <2>4, <2>6, <2>7 DEF WorkerStep
<1>7. /\ task'[w].at # "dead"
      /\ \A v \in Workers \ {w} : task'[v] = task[v]
  BY <1>6 DEF TaskTyped
<1>8. QED
  BY <1>5, <1>7

\* The single flights of the workers are an invariant of the system.
LEMMA WorkersFlyOnce == ProcessorSpec => []ProcessorInv
<1>1. ProcessorInit => ProcessorInv
  BY DEF ProcessorInit, ServicesInit, Init, ExecutionInit, IdleTask,
         ProcessorInv, OneInFlight
<1>2. TypeOK /\ TaskTyped /\ ProcessorInv /\ [ProcessorNext]_procVars => ProcessorInv'
  <2> SUFFICES ASSUME TypeOK, TaskTyped, ProcessorInv, [ProcessorNext]_procVars,
                      NEW v \in Workers
               PROVE  /\ OneInFlight(v, calls', reports')
                      /\ task'[v].at = "dead" => Free(v)'
    BY DEF ProcessorInv
  <2>1. OneInFlight(v, calls, reports) /\ (task[v].at = "dead" => Free(v))
    BY DEF ProcessorInv
  <2>2. CASE UNCHANGED <<calls, reports>>
             /\ (task'[v].at = "dead" => task[v].at = "dead")
    BY <2>1, <2>2 DEF Free, Idle, ReportIdle
  <2>3. CASE ClientNext
    <3>1. ASSUME NEW c \in Clients, NEW j \in Jobs, ClientRequest(c, j)
          PROVE  AddsCall(c) /\ c # v
      BY <2>3, <3>1, RequestAddsCall DEF ClientNext, Clients, execVars
    <3>2. ASSUME NEW k \in calls, Abort(k)
          PROVE  \E i \in calls : \E x :
                    x.id = i.id /\ calls' \subseteq (calls \ {i}) \cup {x}
      BY <3>2, StepsKeepIds
    <3>3. task' = task /\ reports' = reports
      BY <2>3 DEF ClientNext, execVars
    <3>4. QED
      BY <2>1, <2>3, <3>1, <3>2, <3>3, FlightsAfterRequest, FlightsAfterStep
         DEF ClientNext
  <2>4. CASE ServiceStep
    <3>1. ASSUME NEW k \in calls, Step(k)
          PROVE  \E i \in calls : \E x :
                    x.id = i.id /\ calls' \subseteq (calls \ {i}) \cup {x}
      BY <3>1, StepsKeepIds
    <3>2. QED
      BY <2>1, <2>4, <3>1, FlightsAfterStep
         DEF ServiceStep, WriteExecution, AbortReport, execVars, vars
  <2>5. ASSUME NEW w \in Workers, WorkerStep(w)
        PROVE  OneInFlight(v, calls', reports') /\ (task'[v].at = "dead" => Free(v)')
    <3>1. CASE UNCHANGED serviceVars
      BY <2>2, <2>5, <3>1, OwnRequest DEF serviceVars
    <3>2. CASE Free(w) /\ (AddsCall(w) \/ AddsReport(w))
      <4>1. task'[v].at = "dead" => w # v /\ task[v].at = "dead"
        BY <2>5, OwnRequest
      <4>2. QED
        BY <2>1, <3>2, <4>1, FlightsAfterRequest
    <3>3. QED
      BY <2>5, <3>1, <3>2, OwnRequest
  <2>6. ASSUME NEW w \in Workers, CallFails(w)
        PROVE  OneInFlight(v, calls', reports') /\ (task'[v].at = "dead" => Free(v)')
    <3>1. task'[v].at = "dead" => task[v].at = "dead"
      BY <2>6 DEF CallFails, IdleTask, TaskTyped
    <3>2. QED
      BY <2>1, <2>6, <3>1, LossEndsCall DEF CallFails
  <2>7. ASSUME NEW w \in Workers, Stop(w)
        PROVE  OneInFlight(v, calls', reports') /\ (task'[v].at = "dead" => Free(v)')
    <3>1. v # w => task'[v] = task[v]
      BY <2>7 DEF Stop, Advance, TaskTyped
    <3>2. CASE LosesCall(w)
      BY <2>1, <3>1, <3>2, LossEndsCall, LossFrees
    <3>3. CASE Free(w) /\ UNCHANGED serviceVars
      BY <2>1, <3>1, <3>3 DEF serviceVars, Free, Idle, ReportIdle
    <3>4. QED
      BY <2>7, <3>2, <3>3 DEF Stop
  <2>8. ASSUME NEW b \in Beats, NEW w \in Workers, Heartbeat(b, w)
        PROVE  OneInFlight(v, calls', reports') /\ (task'[v].at = "dead" => Free(v)')
    <3>1. b # v /\ task' = task
      BY <2>8 DEF Beats, Heartbeat
    <3>2. AddsReport(b)
      BY <2>8, RequestAddsReport DEF Heartbeat, ExecutionRequest, vars
    <3>3. QED
      BY <2>1, <3>1, <3>2, FlightsAfterRequest
  <2>9. ASSUME NEW b \in Beats, NEW e \in Executions, OperatorReport(b, e)
        PROVE  OneInFlight(v, calls', reports') /\ (task'[v].at = "dead" => Free(v)')
    <3>1. b # v /\ task' = task
      BY <2>9 DEF Beats, OperatorReport
    <3>2. AddsReport(b)
      BY <2>9, RequestAddsReport DEF OperatorReport, ExecutionRequest, vars
    <3>3. QED
      BY <2>1, <3>1, <3>2, FlightsAfterRequest
  <2>10. QED
    BY <2>2, <2>3, <2>4, <2>5, <2>6, <2>7, <2>8, <2>9
       DEF ProcessorNext, ProcessorStep, procVars
<1>3. QED
  BY <1>1, <1>2, TasksAreTyped, ProcessorUsesServices,
     ServicesImplementJobService, TypeCorrect, PTL
     DEF ProcessorSpec

\* A task has what its calls need, and a stopped worker has nothing in flight.
THEOREM ProcessorTypeCorrect == ProcessorSpec => []ProcessorTypeOK
<1>1. TaskTyped /\ ProcessorInv /\ lost \subseteq Jobs \cup {NoJob} => ProcessorTypeOK
  BY DEF ProcessorInv, ProcessorTypeOK
<1>2. ProcessorInit => lost \subseteq Jobs \cup {NoJob}
  BY DEF ProcessorInit
<1>3. TaskTyped /\ lost \subseteq Jobs \cup {NoJob} /\ [ProcessorNext]_procVars
         => (lost \subseteq Jobs \cup {NoJob})'
  BY DEF ProcessorNext, TaskTyped, procVars
<1>4. QED
  BY <1>1, <1>2, <1>3, TasksAreTyped, WorkersFlyOnce, PTL DEF ProcessorSpec

\* What holds of the services holds of the workers' use of them: no execution
\* is numbered 0 or beyond the starts of its job.
THEOREM ProcessorNumbersExecutions == ProcessorSpec => []AttemptNumbersAreReal
  BY ProcessorUsesServices, ExecutionsAreNumbered, PTL

-----------------------------------------------------------------------------
(***************************************************************************)
(* The reports of a worker are its own.                                    *)
(***************************************************************************)

\* What the methods of job_execution.rs make of the row of one stage is a row
\* of the next.
LEMMA StageRows ==
    /\ \A j \in Jobs, n \in Nat : RowOf(NewExecution(j, n), [at |-> "creating", job |-> j])
    /\ \A x \in ExecutionRow(Jobs) :
         /\ ExecutionStarted(x).job = x.job
         /\ ExecutionSucceeded(x).job = x.job
         /\ ExecutionFailed(x).job = x.job
         /\ RowAt(x, "creating") => RowAt(ExecutionStarted(x), "starting")
         /\ RowAt(x, "starting") => /\ RowAt(ExecutionSucceeded(x), "succeeding")
                                    /\ RowAt(ExecutionFailed(x), "failing")
  BY DEF NewExecution, ExecutionStarted, ExecutionSucceeded, ExecutionFailed,
         ExecutionRow, RowOf, RowAt

\* A worker with no report in flight makes the next one, on an execution that
\* no other worker reports on.
LEMMA WorkerReports ==
    ASSUME ReportsFit, OwnExecutions, TaskTyped, NEW w \in Workers, ReportIdle(w),
           NEW t, t.at \in WithExec, task' = [task EXCEPT ![w] = t],
           NEW k, k.id = w, ReportFits(k, t, executions),
           reports' = reports \cup {k}, executions' = executions,
           \A v \in Workers \ {w} : task[v].at \in WithExec => task[v].exec # t.exec
    PROVE  ReportsFit' /\ OwnExecutions'
<1>1. task'[w] = t /\ \A v \in Workers \ {w} : task'[v] = task[v]
  BY DEF TaskTyped
<1>2. OwnExecutions'
  BY <1>1 DEF OwnExecutions
<1>3. \A i \in reports : i.id # w
  BY DEF ReportIdle
<1>4. \A i \in reports' : i.id \in Workers /\ ReportFits(i, task'[i.id], executions')
  BY <1>1, <1>3 DEF ReportsFit
<1>5. \A v \in Workers : ReportIdle(v)' => v # w /\ ReportIdle(v)
  BY DEF ReportIdle
<1>6. QED
  BY <1>1, <1>2, <1>4, <1>5 DEF ReportsFit

\* A worker that has no report in flight gives up its execution, or has none.
LEMMA WorkerLeaves ==
    ASSUME ReportsFit, OwnExecutions, TaskTyped, NEW w \in Workers,
           NEW t, t.at \notin WithExec, task' = [task EXCEPT ![w] = t],
           reports' \subseteq reports, ReportIdle(w)',
           \A k \in reports : k.id # w => k \in reports',
           executions' = executions
    PROVE  ReportsFit' /\ OwnExecutions'
<1>1. task'[w] = t /\ \A v \in Workers \ {w} : task'[v] = task[v]
  BY DEF TaskTyped
<1>2. OwnExecutions'
  BY <1>1 DEF OwnExecutions
<1>3. \A i \in reports' : i.id # w
  BY DEF ReportIdle
<1>4. \A i \in reports' : i.id \in Workers /\ ReportFits(i, task'[i.id], executions')
  BY <1>1, <1>3 DEF ReportsFit
<1>5. \A v \in Workers : v # w /\ ReportIdle(v)' => ReportIdle(v)
  BY DEF ReportIdle
<1>6. QED
  BY <1>1, <1>2, <1>4, <1>5 DEF ReportsFit

\* A report is written over the row of its own execution.
LEMMA ReportWritten ==
    ASSUME ReportsFit, OwnExecutions, TaskTyped, ExecutionTypeOK, ProcessorInv,
           NEW k \in reports, WriteExecution(k), UNCHANGED task
    PROVE  ReportsFit' /\ OwnExecutions'
<1>1. OwnExecutions'
  BY DEF OwnExecutions
<1>2. /\ k.id \in Workers /\ ReportFits(k, task[k.id], executions)
      /\ k.exec \in Executions /\ k.row \in ExecutionRow(Jobs)
  BY DEF ReportsFit, ExecutionTypeOK, Report
<1>3. /\ reports' = reports \ {k}
      /\ executions'[k.exec] = k.row
      /\ \A e \in Executions : e # k.exec => executions'[e] = executions[e]
  BY <1>2 DEF WriteExecution, ExecutionTypeOK
<1>4. k.row # NoExecution
  BY <1>2 DEF ExecutionRow, NoExecution, ExecutionStatus
<1>5. \A i \in reports' : i.id # k.id
  BY <1>2, <1>3 DEF ProcessorInv, OneInFlight
<1>6. ASSUME NEW i \in reports'
      PROVE  i.id \in Workers /\ ReportFits(i, task'[i.id], executions')
  <2>1. i.id \in Workers /\ ReportFits(i, task[i.id], executions) /\ i.exec \in Executions
    BY <1>3 DEF ReportsFit, ExecutionTypeOK, Report
  <2>2. i.exec # k.exec
    BY <1>2, <1>5, <2>1 DEF ReportFits, OwnExecutions
  <2>3. QED
    BY <1>3, <2>1, <2>2 DEF ReportFits
<1>7. ASSUME NEW w \in Workers, task[w].at \in WithExec, ReportIdle(w)'
      PROVE  /\ executions'[task[w].exec] # NoExecution
             /\ RowOf(executions'[task[w].exec], task[w])
  <2>1. CASE w = k.id
    BY <1>2, <1>3, <1>4, <2>1 DEF ReportFits
  <2>2. CASE w # k.id
    <3>1. ReportIdle(w)
      BY <1>3, <1>7, <2>2 DEF ReportIdle
    <3>2. task[w].exec # k.exec /\ task[w].exec \in Executions
      BY <1>2, <1>7, <2>2 DEF ReportFits, OwnExecutions, TaskTyped
    <3>3. QED
      BY <1>3, <1>7, <3>1, <3>2 DEF ReportsFit
  <2>3. QED
    BY <2>1, <2>2
<1>8. ASSUME NEW e \in Executions, executions'[e] # NoExecution
      PROVE  \E s \in WithExec : RowAt(executions'[e], s)
  BY <1>2, <1>3, <1>8 DEF ReportsFit, ReportFits, RowOf
<1>9. QED
  BY <1>1, <1>6, <1>7, <1>8 DEF ReportsFit

\* The next report of a worker fits its next stage.
LEMMA NextReport ==
    ASSUME ReportsFit, OwnExecutions, TaskTyped, ExecutionTypeOK, TypeOK,
           NEW w \in Workers,
           \/ StartExecution(w) \/ HandlerReturns(w)
           \/ \E e \in Executions : BeginExecution(w, e)
    PROVE  ReportsFit' /\ OwnExecutions'
<1> DEFINE x == task[w]
<1>1. x \in [at : Stage, job : Jobs \cup {NoJob}, exec : Executions \cup {NoExec}]
  BY DEF TaskTyped
<1>2. \A s : /\ [x EXCEPT !.at = s].at = s
             /\ [x EXCEPT !.at = s].job = x.job
             /\ [x EXCEPT !.at = s].exec = x.exec
  BY <1>1
<1>3. ASSUME NEW s \in WithExec, Advance(w, s), x.at \in {"creating", "starting"},
             NEW r, PrepareExecution(w, x.exec, r), Free(w),
             RowOf(executions[x.exec], x) =>
                r.job = executions[x.exec].job /\ RowAt(r, s)
      PROVE  ReportsFit' /\ OwnExecutions'
  <2> DEFINE t == [x EXCEPT !.at = s]
             k == NewReport(w, "update", x.exec, r)
  <2>1. task' = [task EXCEPT ![w] = t] /\ t.at = s /\ t.job = x.job /\ t.exec = x.exec
    BY <1>2, <1>3 DEF Advance
  <2>2. /\ ReportIdle(w) /\ reports' = reports \cup {k} /\ executions' = executions
        /\ k.id = w /\ k.exec = x.exec /\ k.row = r
    BY <1>3 DEF PrepareExecution, NewReport, Free
  <2> HIDE DEF t, k
  <2>3. x.at \in WithExec /\ RowOf(executions[x.exec], x)
    BY <1>3, <2>2 DEF ReportsFit, WithExec, WithJob
  <2>4. executions[x.exec].status # "Succeeded"
    BY <1>3, <2>3 DEF RowOf, RowAt
  <2>5. ReportFits(k, t, executions)
    BY <1>3, <2>1, <2>2, <2>3, <2>4 DEF ReportFits, RowOf
  <2>6. \A v \in Workers \ {w} : task[v].at \in WithExec => task[v].exec # t.exec
    BY <2>1, <2>3 DEF OwnExecutions
  <2>7. QED
    BY <2>1, <2>2, <2>5, <2>6, WorkerReports
<1>4. x.at \in {"creating", "starting"} /\ Free(w)
      => executions[x.exec] \in ExecutionRow(Jobs)
  BY DEF ReportsFit, Free, WithExec, WithJob, TaskTyped, ExecutionTypeOK
<1>5. CASE StartExecution(w)
  <2>1. RowOf(executions[x.exec], x) =>
          /\ ExecutionStarted(executions[x.exec]).job = executions[x.exec].job
          /\ RowAt(ExecutionStarted(executions[x.exec]), "starting")
    BY <1>4, <1>5, StageRows DEF StartExecution, At, RowOf
  <2>2. QED
    BY <1>3, <1>5, <2>1
       DEF StartExecution, MarkExecutionAsStarted, At, WithExec, WithJob
<1>6. CASE HandlerReturns(w)
  <2>1. RowOf(executions[x.exec], x) =>
          /\ ExecutionSucceeded(executions[x.exec]).job = executions[x.exec].job
          /\ RowAt(ExecutionSucceeded(executions[x.exec]), "succeeding")
          /\ ExecutionFailed(executions[x.exec]).job = executions[x.exec].job
          /\ RowAt(ExecutionFailed(executions[x.exec]), "failing")
    BY <1>4, <1>6, StageRows DEF HandlerReturns, At, RowOf
  <2>2. QED
    BY <1>3, <1>6, <2>1
       DEF HandlerReturns, MarkExecutionAsSucceeded, MarkExecutionAsFailed, At,
           WithExec, WithJob
<1>7. ASSUME NEW e \in Executions, BeginExecution(w, e)
      PROVE  ReportsFit' /\ OwnExecutions'
  <2> DEFINE r == NewExecution(x.job, jobs[x.job].attempt_count)
             k == NewReport(w, "insert", e, r)
             t == [x EXCEPT !.at = "creating", !.exec = e]
  <2>1. /\ x.at = "taking" /\ x.job \in Jobs /\ ReportIdle(w)
        /\ executions[e] = NoExecution /\ \A i \in reports : i.exec # e
        /\ reports' = reports \cup {k} /\ executions' = executions
        /\ task' = [task EXCEPT ![w] = t]
    BY <1>7 DEF BeginExecution, CreateExecution, At, Free, TaskTyped, WithJob
  <2>2. /\ t.at = "creating" /\ t.job = x.job /\ t.exec = e
        /\ k.id = w /\ k.exec = e /\ k.row = r
    BY <1>1 DEF NewReport
  <2>3. r.job = x.job /\ RowAt(r, "creating")
    BY DEF NewExecution, RowAt
  <2> HIDE DEF t, k, r
  <2>4. ReportFits(k, t, executions)
    BY <2>1, <2>2, <2>3 DEF ReportFits, RowOf, NoExecution, WithExec, WithJob
  <2>5. ASSUME NEW v \in Workers, v # w, task[v].at \in WithExec, task[v].exec = e
        PROVE  FALSE
    <3>1. CASE ReportIdle(v)
      BY <2>1, <2>5, <3>1 DEF ReportsFit
    <3>2. ASSUME NEW i \in reports, i.id = v
          PROVE  FALSE
      BY <2>1, <2>5, <3>2 DEF ReportsFit, ReportFits
    <3>3. QED
      BY <3>1, <3>2 DEF ReportIdle
  <2>6. QED
    BY <2>1, <2>2, <2>4, <2>5, WorkerReports DEF WithExec, WithJob
<1>8. QED
  BY <1>5, <1>6, <1>7

\* Whatever happens, reports fit the stages of their workers.
LEMMA ReportsStayFit ==
    ASSUME OwnReports, TypeOK, TaskTyped, ExecutionTypeOK, ProcessorInv,
           ReportsFit, OwnExecutions, [ProcessorNext]_procVars
    PROVE  ReportsFit' /\ OwnExecutions'
<1>1. CASE UNCHANGED <<execVars, task>>
  BY <1>1 DEF execVars, ReportsFit, OwnExecutions, ReportIdle
<1>2. CASE ServiceStep
  BY <1>1, <1>2, ReportWritten DEF ServiceStep, OwnReports
<1>3. ASSUME NEW w \in Workers, NEW t, t.at \notin WithExec,
             task' = [task EXCEPT ![w] = t], Free(w), UNCHANGED execVars
      PROVE  ReportsFit' /\ OwnExecutions'
  BY <1>3, WorkerLeaves DEF Free, ReportIdle, execVars
<1>4. ASSUME NEW w \in Workers, NEW t, t.at \notin WithExec,
             task' = [task EXCEPT ![w] = t], LosesCall(w)
      PROVE  ReportsFit' /\ OwnExecutions'
  <2>1. ReportIdle(w)'
    BY <1>4, LossFrees DEF ProcessorInv, Free
  <2>2. /\ reports' \subseteq reports /\ executions' = executions
        /\ \A k \in reports : k.id # w => k \in reports'
    BY <1>4 DEF LosesCall, AbortReport, execVars
  <2>3. QED
    BY <1>4, <2>1, <2>2, WorkerLeaves
<1>5. /\ \A w \in Workers : \A s : [task[w] EXCEPT !.at = s].at = s
      /\ IdleTask.at = "idle"
  BY DEF TaskTyped, IdleTask
<1>6. {"idle", "taking", "finishing", "dead"} \cap WithExec = {}
  BY DEF WithExec, WithJob
<1>7. ASSUME NEW w \in Workers, WorkerStep(w)
      PROVE  ReportsFit' /\ OwnExecutions'
  <2>1. ASSUME NEW j \in Jobs, TakeJob(w, j)
        PROVE  ReportsFit' /\ OwnExecutions'
    <3> DEFINE t == [at |-> "taking", job |-> j, exec |-> NoExec]
    <3>1. t.at \notin WithExec
      BY <1>6
    <3>2. task' = [task EXCEPT ![w] = t] /\ Free(w) /\ UNCHANGED execVars
      BY <2>1 DEF TakeJob, At
    <3> HIDE DEF t
    <3>3. QED
      BY <1>3, <3>1, <3>2
  <2>2. CASE FinishJob(w)
    <3> DEFINE t == [task[w] EXCEPT !.at = "finishing"]
    <3>1. t.at \notin WithExec
      BY <1>5, <1>6
    <3>2. task' = [task EXCEPT ![w] = t] /\ Free(w) /\ UNCHANGED execVars
      BY <2>2 DEF FinishJob, At, Advance
    <3> HIDE DEF t
    <3>3. QED
      BY <1>3, <3>1, <3>2
  <2>3. CASE EndTask(w)
    <3>1. IdleTask.at \notin WithExec
      BY <1>5, <1>6
    <3>2. task' = [task EXCEPT ![w] = IdleTask] /\ Free(w) /\ UNCHANGED execVars
      BY <2>3 DEF EndTask, Refused, At, serviceVars, execVars
    <3>3. QED
      BY <1>3, <3>1, <3>2
  <2>4. QED
    BY <1>7, <2>1, <2>2, <2>3, NextReport DEF WorkerStep
<1>8. ASSUME NEW w \in Workers, CallFails(w)
      PROVE  ReportsFit' /\ OwnExecutions'
  <2>1. IdleTask.at \notin WithExec
    BY <1>5, <1>6
  <2>2. QED
    BY <1>4, <1>8, <2>1 DEF CallFails
<1>9. ASSUME NEW w \in Workers, Stop(w)
      PROVE  ReportsFit' /\ OwnExecutions'
  <2> DEFINE t == [task[w] EXCEPT !.at = "dead"]
  <2>1. t.at \notin WithExec
    BY <1>5, <1>6
  <2>2. task' = [task EXCEPT ![w] = t]
    BY <1>9 DEF Stop, Advance
  <2>3. LosesCall(w) \/ (Free(w) /\ UNCHANGED execVars)
    BY <1>9 DEF Stop, serviceVars, execVars
  <2> HIDE DEF t
  <2>4. QED
    BY <1>3, <1>4, <2>1, <2>2, <2>3
<1>10. QED
  BY <1>1, <1>2, <1>7, <1>8, <1>9
     DEF ProcessorNext, ProcessorStep, OwnReports, ClientNext, procVars, execVars

-----------------------------------------------------------------------------
(***************************************************************************)
(* What a call in flight does next.                                        *)
(***************************************************************************)
GoesOn(k) ==
    /\ \/ Return(k)
       \/ \E x : /\ Continue(k, x) /\ x.id = k.id /\ x.pc # "insert"
                 /\ x.pc = "write" => x.row.status \in {"Scheduled", "Pending", "Failed"}
    /\ \/ UNCHANGED <<jobs, starts>>
       \/ k.pc \in {"insert", "write"} /\ Store(k.job, k.row)
       \/ \E i \in Jobs : \E r : Store(i, r) /\ r.status = "Cancelled"
    /\ k.pc = "write" /\ k.op = "update_job" => Store(k.job, k.row) /\ Return(k)

LEMMA CallGoesOn ==
    ASSUME TypeOK, NEW k \in calls, Step(k)
    PROVE  GoesOn(k)
<1>1. k \in Call
  BY DEF TypeOK
<1>2. k.row \in Row /\ k.rest \subseteq [job : Jobs, row : Row]
  BY <1>1, CallTypes
<1>3. ASSUME NEW x, Continue(k, x) \/ Return(k), x.id = k.id, x.pc # "insert",
             x.pc = "write" => x.row.status \in {"Scheduled", "Pending", "Failed"},
             UNCHANGED <<jobs, starts>>, k.pc # "write"
      PROVE  GoesOn(k)
  BY <1>3 DEF GoesOn
<1>4. CASE InsertJob(k)
  BY <1>4 DEF InsertJob, GoesOn
<1>5. CASE WriteJob(k)
  <2> DEFINE x == [k EXCEPT !.pc = "dependents"]
  <2>1. x.id = k.id /\ x.pc = "dependents"
    BY <1>1 DEF Call
  <2>2. /\ k.pc = "write" /\ Store(k.job, k.row)
        /\ IF k.op = "cancel_job" THEN Continue(k, x) ELSE Return(k)
    BY <1>5 DEF WriteJob
  <2> HIDE DEF x
  <2>3. QED
    BY <2>1, <2>2 DEF GoesOn
<1>6. CASE ReadDependents(k)
  <2> DEFINE rest == {[job |-> d, row |-> jobs[d]] :
                         d \in {d \in Dependents[k.job] : Exists(d)}}
             x == [k EXCEPT !.pc = "cascade", !.rest = rest]
  <2>1. x.id = k.id /\ x.pc = "cascade"
    BY <1>1 DEF Call
  <2>2. /\ k.pc = "dependents" /\ (Continue(k, x) \/ Return(k))
        /\ UNCHANGED <<jobs, starts>>
    BY <1>6 DEF ReadDependents
  <2> HIDE DEF x
  <2>3. QED
    BY <1>3, <2>1, <2>2, <1>6 DEF ReadDependents
<1>7. ASSUME NEW d \in k.rest, CancelDependent(k, d)
      PROVE  GoesOn(k)
  <2> DEFINE x == [k EXCEPT !.rest = k.rest \ {d}]
             r == [d.row EXCEPT !.status = "Cancelled"]
  <2>1. k.pc = "cascade" /\ Store(d.job, r) /\ (Continue(k, x) \/ Return(k))
    BY <1>7 DEF CancelDependent
  <2>2. x.id = k.id /\ x.pc = "cascade"
    BY <1>1, <2>1 DEF Call
  <2>3. d.job \in Jobs /\ r.status = "Cancelled"
    BY <1>2 DEF Row, JobRow
  <2> HIDE DEF x, r
  <2>4. QED
    BY <2>1, <2>2, <2>3 DEF GoesOn
<1>8. CASE ReadRetryQueue(k)
  <2> DEFINE x == [k EXCEPT !.pc = "write", !.row = MarkAsScheduled(k.row)]
             y == [k EXCEPT !.pc = "reread"]
  <2>1. /\ x.id = k.id /\ x.pc = "write" /\ x.row.status = "Scheduled"
        /\ y.id = k.id /\ y.pc = "reread"
    BY <1>1, <1>2 DEF Call, MarkAsScheduled, Row, JobRow
  <2>2. /\ k.pc = "queue" /\ (Continue(k, x) \/ Continue(k, y))
        /\ UNCHANGED <<jobs, starts>>
    BY <1>8 DEF ReadRetryQueue
  <2> HIDE DEF x, y
  <2>3. QED
    BY <1>3, <2>1, <2>2
<1>9. CASE MoveToDeadLetterQueue(k)
  <2> DEFINE x == [k EXCEPT !.pc = "dlq", !.row = jobs[k.job],
                            !.from = jobs[k.job].status]
  <2>1. x.id = k.id /\ x.pc = "dlq"
    BY <1>1 DEF Call
  <2>2. k.pc = "reread" /\ Continue(k, x) /\ UNCHANGED <<jobs, starts>>
    BY <1>9 DEF MoveToDeadLetterQueue
  <2> HIDE DEF x
  <2>3. QED
    BY <1>3, <2>1, <2>2
<1>10. CASE ReadDeadLetterQueue(k)
  <2> DEFINE dlq == queues[k.row.queue_id].dead_letter_queue_id
             r == IF dlq # NoQueue
                  THEN [k.row EXCEPT !.queue_id = dlq, !.status = "Pending"]
                  ELSE [k.row EXCEPT !.status = "Failed"]
             x == [k EXCEPT !.pc = "write", !.row = r]
  <2>1. r.status \in {"Pending", "Failed"}
    BY <1>2 DEF Row, JobRow
  <2>2. k.pc = "dlq" /\ Continue(k, x) /\ UNCHANGED <<jobs, starts>>
    BY <1>10 DEF ReadDeadLetterQueue
  <2> HIDE DEF r
  <2>3. x.id = k.id /\ x.pc = "write" /\ x.row = r
    BY <1>1 DEF Call
  <2> HIDE DEF x
  <2>4. QED
    BY <1>3, <2>1, <2>2, <2>3
<1>11. QED
  BY <1>4, <1>5, <1>6, <1>7, <1>8, <1>9, <1>10 DEF Step

\* What a request adds: a call that does not write Succeeded, unless it asks
\* for that status.
Asks(c) ==
    /\ UNCHANGED <<jobs, starts>>
    /\ \E x : /\ x.id = c
              /\ calls' = calls \cup {x}
              /\ x.pc \in {"insert", "write"} => x.row.status # "Succeeded"

LEMMA RequestsAsk ==
    ASSUME OwnReports, TypeOK, NEW c, NEW j \in Jobs, ClientRequest(c, j)
    PROVE  Asks(c)
<1>1. ASSUME NEW op, NEW r, Prepare(c, op, j, r), r.status # "Succeeded"
      PROVE  Asks(c)
  <2> DEFINE x == NewCall(c, op, "write", j, r, jobs[j].status)
  <2>1. /\ x.id = c /\ x.row = r /\ calls' = calls \cup {x}
        /\ UNCHANGED <<jobs, starts>>
    BY <1>1 DEF Prepare, NewCall
  <2>2. QED
    BY <1>1, <2>1 DEF Asks
<1>2. ASSUME NEW s, NEW op, s # "Succeeded",
             Prepare(c, op, j, [jobs[j] EXCEPT !.status = s])
      PROVE  Asks(c)
  <2>1. jobs[j] \in Row
    BY <1>2, FoundRow, TypeParts DEF Prepare
  <2>2. [jobs[j] EXCEPT !.status = s].status = s
    BY <2>1 DEF Row, JobRow
  <2>3. QED
    BY <1>1, <1>2, <2>2
<1>3. ASSUME NEW r, CreateJob(c, j, r), r.status # "Succeeded"
      PROVE  Asks(c)
  <2> DEFINE x == NewCall(c, "create_job", "insert", j, r, r.status)
  <2>1. /\ x.id = c /\ x.row = r /\ calls' = calls \cup {x}
        /\ UNCHANGED <<jobs, starts>>
    BY <1>3 DEF CreateJob, NewCall
  <2>2. QED
    BY <1>3, <2>1 DEF Asks
<1>4. \A q, m : /\ New(q, m).status # "Succeeded"
                /\ NewScheduled(q, m).status # "Succeeded"
  BY DEF New, NewScheduled
<1>5. CASE ScheduleJobForRetry(c, j)
  <2> DEFINE x == NewCall(c, "schedule_job_for_retry", "queue", j, jobs[j],
                          jobs[j].status)
  <2>1. /\ x.id = c /\ x.pc = "queue" /\ calls' = calls \cup {x}
        /\ UNCHANGED <<jobs, starts>>
    BY <1>5 DEF ScheduleJobForRetry, NewCall
  <2>2. QED
    BY <2>1 DEF Asks
<1>6. QED
  BY <1>2, <1>3, <1>4, <1>5
     DEF ClientRequest, UpdateJobStatus, CancelJob, RetryJob, OwnReports

-----------------------------------------------------------------------------
(***************************************************************************)
(* A success that is written has been recorded.                            *)
(***************************************************************************)

\* A recorded success is never written over.
LEMMA RecordsStay ==
    ASSUME ExecutionTypeOK, ReportsFit, NEW j,
           \/ executions' = executions
           \/ \E k \in reports : WriteExecution(k)
    PROVE  WasRun(j) => WasRun(j)'
<1>1. CASE executions' = executions
  BY <1>1 DEF WasRun
<1>2. ASSUME NEW k \in reports, WriteExecution(k)
      PROVE  WasRun(j) => WasRun(j)'
  <2>1. executions[k.exec].status # "Succeeded"
    BY DEF ReportsFit, ReportFits
  <2>2. \A e \in Executions : e # k.exec => executions'[e] = executions[e]
    BY <1>2 DEF WriteExecution, ExecutionTypeOK
  <2>3. QED
    BY <2>1, <2>2 DEF WasRun
<1>3. QED
  BY <1>1, <1>2

\* A worker reports the job Succeeded when it has recorded its run as such.
LEMMA FinishedRunIsRecorded ==
    ASSUME ReportsFit, TaskTyped, NEW w \in Workers, At(w, "succeeding")
    PROVE  WasRun(task[w].job)
<1>1. task[w].at \in WithExec /\ task[w].exec \in Executions
  BY DEF At, WithExec, WithJob, TaskTyped
<1>2. /\ executions[task[w].exec] # NoExecution
      /\ RowOf(executions[task[w].exec], task[w])
  BY <1>1 DEF At, Free, ReportsFit
<1>3. QED
  BY <1>1, <1>2 DEF At, RowOf, RowAt, WasRun

LEMMA SuccessStays ==
    ASSUME OwnReports, TypeOK, TaskTyped, ExecutionTypeOK, ReportsFit,
           SuccessInv, [ProcessorNext]_procVars
    PROVE  SuccessInv'
<1>1. ASSUME UNCHANGED <<jobs, executions>>, calls' \subseteq calls
      PROVE  SuccessInv'
  BY <1>1, RecordsStay DEF SuccessInv, SucceededJobWasRun
<1>2. ASSUME UNCHANGED <<jobs, executions>>, NEW x, calls' = calls \cup {x},
             x.pc \in {"insert", "write"} /\ x.row.status = "Succeeded" => WasRun(x.job)
      PROVE  SuccessInv'
  BY <1>2, RecordsStay DEF SuccessInv, SucceededJobWasRun
<1>3. CASE ClientNext
  <2>1. ASSUME NEW c \in Clients, NEW j \in Jobs, ClientRequest(c, j)
        PROVE  SuccessInv'
    BY <1>2, <1>3, <2>1, RequestsAsk DEF Asks, ClientNext, execVars
  <2>2. ASSUME NEW k \in calls, Abort(k)
        PROVE  SuccessInv'
    BY <1>1, <1>3, <2>2 DEF Abort, Return, ClientNext, execVars
  <2>3. QED
    BY <1>3, <2>1, <2>2 DEF ClientNext
<1>4. ASSUME NEW k \in calls, Step(k), UNCHANGED execVars
      PROVE  SuccessInv'
  <2>1. GoesOn(k) /\ k.job \in Jobs
    BY <1>4, CallGoesOn, CallTypes DEF TypeOK
  <2>2. \A j : WasRun(j) => WasRun(j)'
    BY <1>4, RecordsStay DEF execVars
  <2>3. jobs \in [Jobs -> Row \cup {Absent}]
    BY DEF TypeOK
  <2>4. \A i \in calls' : i.pc \in {"insert", "write"} /\ i.row.status = "Succeeded"
                           => WasRun(i.job)'
    BY <2>1, <2>2 DEF GoesOn, Return, Continue, SuccessInv
  <2>5. SucceededJobWasRun'
    <3>1. CASE UNCHANGED <<jobs, starts>>
      BY <2>2, <3>1 DEF SuccessInv, SucceededJobWasRun
    <3>2. CASE k.pc \in {"insert", "write"} /\ Store(k.job, k.row)
      BY <2>1, <2>2, <2>3, <3>2 DEF SuccessInv, SucceededJobWasRun, Store
    <3>3. ASSUME NEW i \in Jobs, NEW r, Store(i, r), r.status = "Cancelled"
          PROVE  SucceededJobWasRun'
      BY <2>2, <2>3, <3>3 DEF SuccessInv, SucceededJobWasRun, Store
    <3>4. QED
      BY <2>1, <3>1, <3>2, <3>3 DEF GoesOn
  <2>6. QED
    BY <2>4, <2>5 DEF SuccessInv
<1>5. ASSUME NEW k \in reports, WriteExecution(k), UNCHANGED vars
      PROVE  SuccessInv'
  BY <1>5, RecordsStay DEF SuccessInv, SucceededJobWasRun, vars
<1>6. ASSUME NEW w \in Workers, WorkerStep(w)
      PROVE  SuccessInv'
  <2>1. ASSUME NEW j \in Jobs, TakeJob(w, j)
        PROVE  SuccessInv'
    <3> DEFINE r == MarkAsProcessing(jobs[j])
               x == NewCall(w, "update_job", "write", j, r, jobs[j].status)
    <3>1. calls' = calls \cup {x} /\ UNCHANGED <<jobs, executions>> /\ Exists(j)
      BY <2>1 DEF TakeJob, UpdateJob, Prepare, execVars
    <3>2. r.status = "Processing"
      BY <3>1, FoundRow, TypeParts DEF MarkAsProcessing, Row, JobRow
    <3>3. x.row = r
      BY DEF NewCall
    <3> HIDE DEF r, x
    <3>4. QED
      BY <1>2, <3>1, <3>2, <3>3
  <2>2. CASE FinishJob(w)
    <3>1. PICK s : /\ UpdateJobStatus(w, task[w].job, s)
                   /\ s = "Failed" \/ (s = "Succeeded" /\ At(w, "succeeding"))
      BY <2>2 DEF FinishJob
    <3> DEFINE j == task[w].job
               r == [jobs[j] EXCEPT !.status = s]
               x == NewCall(w, "update_job_status", "write", j, r, jobs[j].status)
    <3>2. calls' = calls \cup {x} /\ UNCHANGED <<jobs, executions>> /\ Exists(j)
      BY <2>2, <3>1 DEF FinishJob, UpdateJobStatus, Prepare, execVars
    <3>3. j \in Jobs
      BY <2>2 DEF FinishJob, At, TaskTyped, WithJob
    <3>4. r.status = s
      BY <3>2, <3>3, FoundRow, TypeParts DEF Row, JobRow
    <3>5. x.row = r /\ x.job = j
      BY DEF NewCall
    <3>6. s = "Succeeded" => WasRun(j)
      BY <3>1, FinishedRunIsRecorded
    <3> HIDE DEF r, x, j
    <3>7. QED
      BY <1>2, <3>2, <3>4, <3>5, <3>6
  <2>3. CASE UNCHANGED <<jobs, executions, calls>>
    BY <1>1, <2>3
  <2>4. QED
    BY <1>6, <2>1, <2>2, <2>3
       DEF WorkerStep, BeginExecution, CreateExecution, StartExecution,
           MarkExecutionAsStarted, HandlerReturns, MarkExecutionAsSucceeded,
           MarkExecutionAsFailed, PrepareExecution, EndTask, serviceVars, vars
<1>7. ASSUME NEW w \in Workers, CallFails(w) \/ Stop(w)
      PROVE  SuccessInv'
  BY <1>1, <1>7
     DEF CallFails, Stop, LosesCall, Abort, Return, AbortReport, serviceVars,
         execVars, vars
<1>8. CASE UNCHANGED procVars
  BY <1>1, <1>8 DEF procVars
<1>9. QED
  BY <1>3, <1>4, <1>5, <1>6, <1>7, <1>8 DEF ProcessorNext, ProcessorStep, ServiceStep, OwnReports

LEMMA RunsAreRecorded ==
    ASSUME OwnReports
    PROVE  ProcessorSpec => [](ReportsFit /\ OwnExecutions /\ SuccessInv)
<1>1. ProcessorInit => ReportsFit /\ OwnExecutions /\ SuccessInv
  <2> SUFFICES ASSUME ProcessorInit
               PROVE  ReportsFit /\ OwnExecutions /\ SuccessInv
    OBVIOUS
  <2>1. /\ reports = {} /\ calls = {}
        /\ \A w \in Workers : task[w].at = "idle"
        /\ \A e \in Executions : executions[e] = NoExecution
        /\ \A j \in Jobs : jobs[j].status = "Absent"
    BY DEF ProcessorInit, ServicesInit, Init, ExecutionInit, IdleTask, Absent
  <2>2. QED
    BY <2>1 DEF ReportsFit, OwnExecutions, SuccessInv, SucceededJobWasRun,
                WithExec, WithJob
<1>2. /\ TypeOK /\ TaskTyped /\ ExecutionTypeOK /\ ProcessorInv
      /\ ReportsFit /\ OwnExecutions /\ SuccessInv /\ [ProcessorNext]_procVars
      => ReportsFit' /\ OwnExecutions' /\ SuccessInv'
  BY ReportsStayFit, SuccessStays
<1>3. ProcessorSpec => [](TypeOK /\ ExecutionTypeOK)
  BY ProcessorUsesServices, ServicesImplementJobService, TypeCorrect,
     ExecutionTypeCorrect, PTL
<1>4. QED
  BY <1>1, <1>2, <1>3, TasksAreTyped, WorkersFlyOnce, PTL DEF ProcessorSpec

\* While all reports are the workers' own, no job is Succeeded without a run of
\* it that is recorded as a success, whoever takes, cancels or retries the job
\* and wherever a worker stops (process_job reports the execution first).
THEOREM SuccessIsRecorded ==
    ASSUME OwnReports
    PROVE  ProcessorSpec => []SucceededJobWasRun
<1>1. SuccessInv => SucceededJobWasRun
  BY DEF SuccessInv
<1>2. QED
  BY <1>1, RunsAreRecorded, PTL

-----------------------------------------------------------------------------
(***************************************************************************)
(* The timeline: runs are told once each, and use up the starts of a job.  *)
(***************************************************************************)

\* A worker that has taken a job waits for the write that starts it.
LEMMA TakingStays ==
    ASSUME OwnReports, TypeOK, TaskTyped, TakingInv, [ProcessorNext]_procVars
    PROVE  TakingInv'
<1>1. ASSUME calls' \subseteq calls,
             \A w \in Workers : task'[w].at = "taking" => task'[w] = task[w]
      PROVE  TakingInv'
  BY <1>1 DEF TakingInv
<1>2. CASE ClientNext
  <2>1. ASSUME NEW c \in Clients, NEW j \in Jobs, ClientRequest(c, j)
        PROVE  TakingInv'
    <3>1. task' = task /\ c \notin Workers /\ AddsCall(c)
      BY <1>2, <2>1, RequestAddsCall DEF ClientNext, Clients, execVars
    <3>2. QED
      BY <3>1 DEF AddsCall, TakingInv
  <2>2. QED
    BY <1>1, <1>2, <2>1 DEF ClientNext, Abort, Return
<1>3. ASSUME NEW k \in calls, Step(k), task' = task
      PROVE  TakingInv'
  <2>1. GoesOn(k)
    BY <1>3, CallGoesOn
  <2>2. QED
    BY <1>3, <2>1 DEF GoesOn, Return, Continue, TakingInv
<1>4. ASSUME NEW w \in Workers, WorkerStep(w)
      PROVE  TakingInv'
  <2>1. ASSUME NEW j \in Jobs, TakeJob(w, j)
        PROVE  TakingInv'
    <3> DEFINE r == MarkAsProcessing(jobs[j])
               t == [at |-> "taking", job |-> j, exec |-> NoExec]
               x == NewCall(w, "update_job", "write", j, r, jobs[j].status)
    <3>1. /\ calls' = calls \cup {x} /\ Exists(j) /\ Free(w)
          /\ task' = [task EXCEPT ![w] = t]
      BY <2>1 DEF TakeJob, UpdateJob, Prepare, At
    <3>2. r.status = "Processing"
      BY <3>1, FoundRow, TypeParts DEF MarkAsProcessing, Row, JobRow
    <3>3. /\ x.id = w /\ x.op = "update_job" /\ x.pc = "write" /\ x.job = j
          /\ x.row = r /\ t.at = "taking" /\ t.job = j
      BY DEF NewCall
    <3> HIDE DEF r, x, t
    <3>4. task'[w] = t /\ \A v \in Workers \ {w} : task'[v] = task[v]
      BY <3>1 DEF TaskTyped
    <3>5. \A k \in calls : k.id # w
      BY <3>1 DEF Free, Idle
    <3>6. QED
      BY <3>1, <3>2, <3>3, <3>4, <3>5 DEF TakingInv
  <2>2. CASE FinishJob(w)
    <3>1. Request(w, task[w].job) /\ UNCHANGED execVars
      BY <2>2, ProcessorAssumption DEF FinishJob, Request
    <3>2. AddsCall(w)
      BY <3>1, RequestAddsCall
    <3>3. task'[w].at = "finishing" /\ \A v \in Workers \ {w} : task'[v] = task[v]
      BY <2>2 DEF FinishJob, Advance, TaskTyped
    <3>4. QED
      BY <3>2, <3>3 DEF AddsCall, TakingInv
  <2>3. ASSUME NEW e \in Executions, BeginExecution(w, e)
        PROVE  TakingInv'
    BY <1>1, <2>3 DEF BeginExecution, TaskTyped, vars
  <2>4. CASE StartExecution(w) \/ HandlerReturns(w) \/ EndTask(w)
    BY <1>1, <2>4
       DEF StartExecution, HandlerReturns, EndTask, Advance, IdleTask, TaskTyped,
           serviceVars, vars
  <2>5. QED
    BY <1>4, <2>1, <2>2, <2>3, <2>4 DEF WorkerStep
<1>5. ASSUME NEW w \in Workers, CallFails(w) \/ Stop(w)
      PROVE  TakingInv'
  <2>1. calls' \subseteq calls
    BY <1>5 DEF CallFails, Stop, LosesCall, Abort, Return, serviceVars, vars
  <2>2. task'[w].at # "taking" /\ \A v \in Workers \ {w} : task'[v] = task[v]
    BY <1>5 DEF CallFails, Stop, Advance, IdleTask, TaskTyped
  <2>3. QED
    BY <1>1, <2>1, <2>2
<1>6. CASE UNCHANGED <<calls, task>>
  BY <1>1, <1>6
<1>7. QED
  BY <1>2, <1>3, <1>4, <1>5, <1>6
     DEF ProcessorNext, ProcessorStep, ServiceStep, OwnReports, procVars, vars

\* A set that is no larger, that gains an element, or that trades one.
LEMMA BoundedSets ==
    ASSUME NEW S, NEW n \in Nat, IsFiniteSet(S), Cardinality(S) <= n, NEW T
    PROVE  /\ T \subseteq S => IsFiniteSet(T) /\ Cardinality(T) <= n
           /\ \A x : T \subseteq S \cup {x} => IsFiniteSet(T) /\ Cardinality(T) <= n + 1
           /\ \A x : \A y \in S : T \subseteq (S \ {y}) \cup {x}
                 => IsFiniteSet(T) /\ Cardinality(T) <= n
<1>1. Cardinality(S) \in Nat
  BY FS_CardinalityType
<1>2. ASSUME T \subseteq S
      PROVE  IsFiniteSet(T) /\ Cardinality(T) <= n
  <2>1. IsFiniteSet(T) /\ Cardinality(T) <= Cardinality(S)
    BY <1>2, FS_Subset
  <2>2. Cardinality(T) \in Nat
    BY <2>1, FS_CardinalityType
  <2>3. QED
    BY <1>1, <2>1, <2>2
<1>3. ASSUME NEW R, IsFiniteSet(R), NEW m \in Nat, Cardinality(R) <= m, NEW x,
             T \subseteq R \cup {x}
      PROVE  IsFiniteSet(T) /\ Cardinality(T) <= m + 1
  <2>1. /\ IsFiniteSet(R \cup {x})
        /\ Cardinality(R \cup {x}) = Cardinality(R) \/ Cardinality(R \cup {x}) = Cardinality(R) + 1
    BY <1>3, FS_AddElement
  <2>2. IsFiniteSet(T) /\ Cardinality(T) <= Cardinality(R \cup {x})
    BY <1>3, <2>1, FS_Subset
  <2>3. Cardinality(T) \in Nat /\ Cardinality(R) \in Nat
    BY <1>3, <2>2, FS_CardinalityType
  <2>4. QED
    BY <1>3, <2>1, <2>2, <2>3
<1>4. ASSUME NEW x, NEW y \in S, T \subseteq (S \ {y}) \cup {x}
      PROVE  IsFiniteSet(T) /\ Cardinality(T) <= n
  <2>1. IsFiniteSet(S \ {y}) /\ Cardinality(S \ {y}) = Cardinality(S) - 1
    BY FS_RemoveElement
  <2>2. Cardinality(S \ {y}) \in Nat
    BY <2>1, FS_CardinalityType
  <2>3. n - 1 \in Nat /\ Cardinality(S \ {y}) <= n - 1 /\ n - 1 + 1 = n
    BY <1>1, <2>1, <2>2
  <2>4. QED
    BY <1>3, <1>4, <2>1, <2>3
<1>5. QED
  BY <1>2, <1>3, <1>4

\* No start is used twice: steps that begin no run use none.
LEMMA StartsKept ==
    ASSUME TypeOK, StartsSuffice, NEW j \in Jobs,
           Runs(j)' \subseteq Runs(j), Takers(j)' \subseteq Takers(j),
           starts'[j] \in Nat, starts[j] <= starts'[j]
    PROVE  IsFiniteSet(UsedStarts(j)') /\ Cardinality(UsedStarts(j)') <= starts'[j]
<1>1. UsedStarts(j)' \subseteq UsedStarts(j)
  BY DEF UsedStarts
<1>2. starts[j] \in Nat
  BY DEF TypeOK
<1>3. IsFiniteSet(UsedStarts(j)') /\ Cardinality(UsedStarts(j)') <= starts[j]
  BY <1>1, <1>2, BoundedSets DEF StartsSuffice
<1>4. Cardinality(UsedStarts(j)') \in Nat
  BY <1>3, FS_CardinalityType
<1>5. QED
  BY <1>2, <1>3, <1>4

\* A worker that begins a run trades the start it has taken for it.
LEMMA BeginUsesStart ==
    ASSUME TypeOK, TaskTyped, ReportsFit, StartsSuffice,
           NEW w \in Workers, NEW e \in Executions, BeginExecution(w, e)
    PROVE  StartsSuffice'
<1> DEFINE i == task[w].job
           r == NewExecution(i, jobs[i].attempt_count)
           k == NewReport(w, "insert", e, r)
<1>1. /\ task[w].at = "taking" /\ i \in Jobs /\ Free(w)
      /\ executions' = executions /\ reports' = reports \cup {k}
      /\ starts' = starts /\ calls' = calls
  BY DEF BeginExecution, CreateExecution, At, TaskTyped, WithJob, vars
<1>2. k.exec = e /\ k.row.job = i
  BY DEF NewReport, NewExecution
<1>3. task'[w].at = "creating" /\ \A v \in Workers \ {w} : task'[v] = task[v]
  BY DEF BeginExecution, TaskTyped
<1> HIDE DEF k, r
<1>4. w \in Takers(i)
  BY <1>1 DEF Takers, Free
<1>5. \A j \in Jobs : Takers(j)' \subseteq Takers(j) \ {w}
  BY <1>1, <1>3 DEF Takers, Idle
<1>6. /\ \A j \in Jobs : Runs(j)' \subseteq Runs(j) \cup {e}
      /\ \A j \in Jobs : j # i => Runs(j)' \subseteq Runs(j)
  BY <1>1, <1>2 DEF Runs
<1>7. ASSUME NEW j \in Jobs
      PROVE  IsFiniteSet(UsedStarts(j)') /\ Cardinality(UsedStarts(j)') <= starts'[j]
  <2>1. starts[j] \in Nat
    BY DEF TypeOK
  <2>2. CASE j = i
    <3> DEFINE y == <<w, "taking">>
               x == <<e, "Started">>
    <3>1. y \in UsedStarts(j)
      BY <1>4, <2>2 DEF UsedStarts
    <3>2. UsedStarts(j)' \subseteq (UsedStarts(j) \ {y}) \cup {x}
      BY <1>5, <1>6 DEF UsedStarts
    <3> HIDE DEF x, y
    <3>3. QED
      BY <1>1, <2>1, <3>1, <3>2, BoundedSets DEF StartsSuffice
  <2>3. CASE j # i
    BY <1>1, <1>5, <1>6, <2>1, <2>3, StartsKept
  <2>4. QED
    BY <2>2, <2>3
<1>8. QED
  BY <1>7 DEF StartsSuffice

\* The write a taker waits for is a start of its job.
LEMMA StepGivesStart ==
    ASSUME TypeOK, TaskTyped, TakingInv, StartsSuffice, NEW k \in calls, Step(k),
           UNCHANGED <<execVars, task>>
    PROVE  StartsSuffice'
<1>1. GoesOn(k)
  BY CallGoesOn
<1>2. \A j \in Jobs : Runs(j)' = Runs(j)
  BY DEF Runs, execVars
<1>3. /\ starts' \in [Jobs -> Nat]
      /\ \A j \in Jobs : starts[j] <= starts'[j]
  BY StartsGrow DEF Next
<1>4. \A v \in Workers : v # k.id /\ Idle(v)' => Idle(v)
  BY <1>1 DEF GoesOn, Return, Continue, Idle
<1>5. CASE k.id \in Workers /\ task[k.id].at = "taking"
  <2> DEFINE w == k.id
             i == task[w].job
  <2>1. /\ k.pc = "write" /\ k.op = "update_job" /\ k.job = i
        /\ k.row.status = "Processing"
    BY <1>5 DEF TakingInv
  <2>2. i \in Jobs
    BY <1>5 DEF TaskTyped, WithJob
  <2>3. starts' = [starts EXCEPT ![i] = starts[i] + 1]
    BY <1>1, <2>1 DEF GoesOn, Store
  <2>4. /\ \A j \in Jobs : Takers(j)' \subseteq Takers(j) \cup {w}
        /\ \A j \in Jobs : j # i => Takers(j)' \subseteq Takers(j)
    BY <1>4 DEF Takers
  <2>5. ASSUME NEW j \in Jobs
        PROVE  IsFiniteSet(UsedStarts(j)') /\ Cardinality(UsedStarts(j)') <= starts'[j]
    <3>1. starts[j] \in Nat
      BY DEF TypeOK
    <3>2. CASE j = i
      <4> DEFINE x == <<w, "taking">>
      <4>1. UsedStarts(j)' \subseteq UsedStarts(j) \cup {x}
        BY <1>2, <2>4 DEF UsedStarts
      <4>2. starts'[j] = starts[j] + 1
        BY <2>2, <2>3, <3>2 DEF TypeOK
      <4>3. IsFiniteSet(UsedStarts(j)) /\ Cardinality(UsedStarts(j)) <= starts[j]
        BY DEF StartsSuffice
      <4> HIDE DEF x
      <4>4. /\ IsFiniteSet(UsedStarts(j)')
            /\ Cardinality(UsedStarts(j)') <= starts[j] + 1
        BY <3>1, <4>1, <4>3, BoundedSets
      <4>5. QED
        BY <4>2, <4>4
    <3>3. CASE j # i
      BY <1>2, <1>3, <2>4, <3>3, StartsKept
    <3>4. QED
      BY <3>2, <3>3
  <2>6. QED
    BY <2>5 DEF StartsSuffice
<1>6. CASE ~ (k.id \in Workers /\ task[k.id].at = "taking")
  <2>1. \A j \in Jobs : Takers(j)' \subseteq Takers(j)
    BY <1>4, <1>6 DEF Takers
  <2>2. QED
    BY <1>2, <1>3, <2>1, StartsKept DEF StartsSuffice
<1>7. QED
  BY <1>5, <1>6

\* Every other step begins no run and takes no start.
LEMMA StartsStaySufficient ==
    ASSUME OwnReports, TypeOK, TaskTyped, ExecutionTypeOK, ReportsFit, TakingInv,
           StartsSuffice, [ProcessorNext]_procVars
    PROVE  StartsSuffice'
<1>1. ASSUME UNCHANGED starts, \A j \in Jobs : Runs(j)' \subseteq Runs(j),
             \A v \in Workers : task'[v].at = "taking" /\ Idle(v)' =>
                task'[v] = task[v] /\ Idle(v)
      PROVE  StartsSuffice'
  <2>1. \A j \in Jobs : Takers(j)' \subseteq Takers(j)
    BY <1>1 DEF Takers
  <2>2. \A j \in Jobs : starts'[j] \in Nat /\ starts[j] <= starts'[j]
    BY <1>1 DEF TypeOK
  <2>3. QED
    BY <1>1, <2>1, <2>2, StartsKept DEF StartsSuffice
<1>2. ASSUME executions' = executions, reports' \subseteq reports
      PROVE  \A j \in Jobs : Runs(j)' \subseteq Runs(j)
  BY <1>2 DEF Runs
<1>3. ASSUME calls \subseteq calls'
      PROVE  \A v \in Workers : Idle(v)' => Idle(v)
  BY <1>3 DEF Idle
<1>4. CASE ClientNext
  <2>1. ASSUME NEW c \in Clients, NEW j \in Jobs, ClientRequest(c, j)
        PROVE  calls \subseteq calls' /\ UNCHANGED starts
    BY <2>1, RequestsAsk DEF Asks
  <2>2. ASSUME NEW k \in calls, k.id \in Clients, Abort(k)
        PROVE  UNCHANGED starts /\ \A v \in Workers : Idle(v)' => Idle(v)
    BY <2>2 DEF Abort, Return, Idle, Clients
  <2>3. UNCHANGED <<executions, reports, task>>
    BY <1>4 DEF ClientNext, execVars
  <2>4. QED
    BY <1>1, <1>2, <1>3, <1>4, <2>1, <2>2, <2>3 DEF ClientNext
<1>5. ASSUME NEW k \in reports, WriteExecution(k), UNCHANGED <<vars, task>>
      PROVE  StartsSuffice'
  <2>1. \A j \in Jobs : Runs(j)' \subseteq Runs(j)
    BY <1>5 DEF WriteExecution, Runs, ExecutionTypeOK, Report
  <2>2. QED
    BY <1>1, <1>5, <2>1 DEF vars, Idle
<1>6. ASSUME NEW w \in Workers, WorkerStep(w)
      PROVE  StartsSuffice'
  <2>1. \A v \in Workers \ {w} : task'[v] = task[v]
    BY <1>6, OwnRequest
  <2>2. ASSUME NEW j \in Jobs, TakeJob(w, j)
        PROVE  StartsSuffice'
    <3> DEFINE x == NewCall(w, "update_job", "write", j, MarkAsProcessing(jobs[j]),
                            jobs[j].status)
    <3>1. calls' = calls \cup {x} /\ UNCHANGED <<starts, executions, reports>>
      BY <2>2 DEF TakeJob, UpdateJob, Prepare, execVars
    <3>2. x.id = w
      BY DEF NewCall
    <3> HIDE DEF x
    <3>3. ~Idle(w)'
      BY <3>1, <3>2 DEF Idle
    <3>4. QED
      BY <1>1, <1>2, <1>3, <2>1, <3>1, <3>3
  <2>3. ASSUME task'[w].at # "taking", calls \subseteq calls', UNCHANGED starts,
               \A j \in Jobs : Runs(j)' \subseteq Runs(j)
        PROVE  StartsSuffice'
    BY <1>1, <1>3, <2>1, <2>3
  <2>4. CASE FinishJob(w)
    <3>1. task'[w].at # "taking"
      BY <2>4 DEF FinishJob, Advance, TaskTyped
    <3>2. calls \subseteq calls' /\ UNCHANGED <<starts, executions, reports>>
      BY <2>4 DEF FinishJob, UpdateJobStatus, Prepare, execVars
    <3>3. QED
      BY <1>2, <2>3, <3>1, <3>2
  <2>5. CASE EndTask(w)
    <3>1. task'[w].at # "taking"
      BY <2>5 DEF EndTask, IdleTask, TaskTyped
    <3>2. QED
      BY <1>2, <2>3, <2>5, <3>1 DEF EndTask, serviceVars
  <2>6. CASE StartExecution(w) \/ HandlerReturns(w)
    <3> DEFINE e == task[w].exec
    <3>1. /\ task'[w].at # "taking" /\ UNCHANGED <<calls, starts>>
          /\ e \in Executions
      BY <2>6 DEF StartExecution, HandlerReturns, At, Advance, TaskTyped, WithExec,
                  WithJob, vars
    <3>2. PICK r : /\ PrepareExecution(w, e, r)
                   /\ \/ r = ExecutionStarted(executions[e])
                      \/ r = ExecutionSucceeded(executions[e])
                      \/ r = ExecutionFailed(executions[e])
      BY <2>6 DEF StartExecution, HandlerReturns, MarkExecutionAsStarted,
                  MarkExecutionAsSucceeded, MarkExecutionAsFailed
    <3>3. /\ executions[e] # NoExecution /\ executions[e] \in ExecutionRow(Jobs)
          /\ executions' = executions
          /\ reports' = reports \cup {NewReport(w, "update", e, r)}
      BY <3>1, <3>2 DEF PrepareExecution, ExecutionTypeOK
    <3>4. r.job = executions[e].job
      BY <3>2, <3>3, StageRows
    <3>5. /\ NewReport(w, "update", e, r).exec = e
          /\ NewReport(w, "update", e, r).row = r
      BY DEF NewReport
    <3> HIDE DEF e
    <3>6. \A j \in Jobs : Runs(j)' \subseteq Runs(j)
      BY <3>1, <3>3, <3>4, <3>5 DEF Runs
    <3>7. QED
      BY <2>3, <3>1, <3>6
  <2>7. QED
    BY <1>6, <2>2, <2>4, <2>5, <2>6, BeginUsesStart DEF WorkerStep
<1>7. ASSUME NEW w \in Workers, CallFails(w) \/ Stop(w)
      PROVE  StartsSuffice'
  <2>1. task'[w].at # "taking" /\ \A v \in Workers \ {w} : task'[v] = task[v]
    BY <1>7 DEF CallFails, Stop, Advance, IdleTask, TaskTyped
  <2>2. executions' = executions /\ reports' \subseteq reports /\ UNCHANGED starts
    BY <1>7 DEF CallFails, Stop, LosesCall, Abort, AbortReport, serviceVars, execVars,
                vars
  <2>3. \A v \in Workers \ {w} : Idle(v)' => Idle(v)
    BY <1>7 DEF CallFails, Stop, LosesCall, Abort, Return, AbortReport, serviceVars,
                vars, Idle
  <2>4. QED
    BY <1>1, <1>2, <2>1, <2>2, <2>3
<1>8. CASE UNCHANGED procVars
  BY <1>1, <1>2, <1>3, <1>8 DEF procVars
<1>9. QED
  BY <1>4, <1>5, <1>6, <1>7, <1>8, StepGivesStart
     DEF ProcessorNext, ProcessorStep, ServiceStep, OwnReports

LEMMA StartsAreNotReused ==
    ASSUME OwnReports
    PROVE  ProcessorSpec => [](TakingInv /\ StartsSuffice)
<1>1. ProcessorInit => TakingInv /\ StartsSuffice
  <2> SUFFICES ASSUME ProcessorInit
               PROVE  TakingInv /\ StartsSuffice
    OBVIOUS
  <2>1. /\ reports = {} /\ calls = {}
        /\ \A w \in Workers : task[w].at = "idle"
        /\ \A e \in Executions : executions[e] = NoExecution
        /\ \A j \in Jobs : starts[j] = 0
    BY DEF ProcessorInit, ServicesInit, Init, ExecutionInit, IdleTask
  <2>2. \A j \in Jobs : UsedStarts(j) = {}
    BY <2>1 DEF UsedStarts, Runs, Takers
  <2>3. QED
    BY <2>1, <2>2, FS_EmptySet DEF TakingInv, StartsSuffice
<1>2. /\ TypeOK /\ TaskTyped /\ ExecutionTypeOK /\ ReportsFit
      /\ TakingInv /\ StartsSuffice /\ [ProcessorNext]_procVars
      => TakingInv' /\ StartsSuffice'
  BY TakingStays, StartsStaySufficient
<1>3. ProcessorSpec => [](TypeOK /\ ExecutionTypeOK)
  BY ProcessorUsesServices, ServicesImplementJobService, TypeCorrect,
     ExecutionTypeCorrect, PTL
<1>4. QED
  BY <1>1, <1>2, <1>3, TasksAreTyped, RunsAreRecorded, PTL DEF ProcessorSpec

\* While all reports are the workers' own, the timeline of a job tells of runs
\* that were made: each end it tells is known and comes with a start of the same
\* execution, and it tells of no more starts than the job had.
THEOREM TimelineIsTrue ==
    ASSUME OwnReports
    PROVE  ProcessorSpec => []TimelineTellsOfRuns
<1>1. TypeOK /\ ReportsFit /\ StartsSuffice => TimelineTellsOfRuns
  <2> SUFFICES ASSUME TypeOK, ReportsFit, StartsSuffice, NEW j \in Jobs
               PROVE  LET timeline == GetExecutionTimeline(j)
                          Started == {x \in timeline : x[2] = "Started"}
                      IN  /\ \A x \in timeline :
                                x[2] # "Unknown" /\ <<x[1], "Started">> \in timeline
                          /\ Cardinality(Started) <= starts[j]
    BY DEF TimelineTellsOfRuns
  <2> DEFINE timeline == GetExecutionTimeline(j)
             Started == {x \in timeline : x[2] = "Started"}
             OfJob == {e \in Executions :
                          executions[e] # NoExecution /\ executions[e].job = j}
  <2>1. \A e \in OfJob : executions[e].finished_at =>
           /\ executions[e].started_at
           /\ EndEvent(executions[e]) \in {"Succeeded", "Failed"}
    BY DEF ReportsFit, RowAt, EndEvent, IsExecutionComplete
  <2>2. timeline = {<<e, "Started">> : e \in {e \in OfJob : executions[e].started_at}}
                   \cup {<<e, EndEvent(executions[e])>> :
                            e \in {e \in OfJob : executions[e].finished_at}}
    BY DEF GetExecutionTimeline
  <2> HIDE DEF timeline, OfJob
  <2>3. \A x \in timeline : x[2] # "Unknown" /\ <<x[1], "Started">> \in timeline
    BY <2>1, <2>2
  <2>4. Started \subseteq {<<e, "Started">> : e \in OfJob}
    BY <2>1, <2>2
  <2>5. Started \subseteq UsedStarts(j)
    BY <2>4 DEF OfJob, UsedStarts, Runs
  <2>6. starts[j] \in Nat
    BY DEF TypeOK
  <2> HIDE DEF Started
  <2>7. Cardinality(Started) <= starts[j]
    BY <2>5, <2>6, BoundedSets DEF StartsSuffice
  <2>8. QED
    BY <2>3, <2>7 DEF Started, timeline
<1>2. ProcessorSpec => []TypeOK
  BY ProcessorUsesServices, ServicesImplementJobService, TypeCorrect, PTL
<1>3. QED
  BY <1>1, <1>2, RunsAreRecorded, StartsAreNotReused, PTL
=============================================================================
