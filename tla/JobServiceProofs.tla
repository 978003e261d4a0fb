-------------------------- MODULE JobServiceProofs --------------------------
(***************************************************************************)
(* Theorems about JobService, for every value of its constants.            *)
(***************************************************************************)
EXTENDS JobService, TLAPS

-----------------------------------------------------------------------------
(***************************************************************************)
(* Rows.  The methods of job.rs map job rows to job rows.                  *)
(***************************************************************************)

\* The marker of a missing row is no job row, and no handler's guard holds
\* of it.
LEMMA AbsentIsNoRow == Absent \notin Row /\ Absent.status \notin JobStatus
  BY DEF Absent, Row, JobRow, JobStatus

\* new and new_scheduled build job rows (job.rs:40 and 70).
LEMMA NewRows ==
    ASSUME NEW q \in Queues, NEW m \in MaxAttempts
    PROVE  New(q, m) \in Row /\ NewScheduled(q, m) \in Row
  BY ConstantsAssumption DEF New, NewScheduled, Row, JobRow, JobStatus

\* Each method applied to a job row gives a job row (job.rs:131-161), and so
\* does every change of the status alone.
LEMMA ChangedRows ==
    ASSUME NEW r \in Row
    PROVE  /\ MarkAsProcessing(r) \in Row
           /\ MarkAsSucceeded(r) \in Row
           /\ MarkAsFailed(r) \in Row
           /\ MarkAsCancelled(r) \in Row
           /\ MarkAsScheduled(r) \in Row
           /\ \A s \in JobStatus : [r EXCEPT !.status = s] \in Row
           /\ \A q \in Queues, s \in JobStatus :
                [r EXCEPT !.queue_id = q, !.status = s] \in Row
<1>1. ASSUME NEW s \in JobStatus
      PROVE  [r EXCEPT !.status = s] \in Row
  BY DEF Row, JobRow
<1>2. ASSUME NEW s \in JobStatus, NEW q \in Queues
      PROVE  [r EXCEPT !.queue_id = q, !.status = s] \in Row
  BY DEF Row, JobRow
<1>3. MarkAsProcessing(r) \in Row
  <2>1. r.attempt_count + 1 \in Nat
    BY DEF Row, JobRow
  <2>2. ASSUME NEW n \in Nat
        PROVE  [r EXCEPT !.status = "Processing", !.attempt_count = n] \in Row
    BY DEF Row, JobRow, JobStatus
  <2>3. QED
    BY <2>1, <2>2 DEF MarkAsProcessing
<1>4. MarkAsScheduled(r) \in Row
  BY DEF MarkAsScheduled, Row, JobRow, JobStatus
<1>5. QED
  BY <1>1, <1>2, <1>3, <1>4
     DEF MarkAsSucceeded, MarkAsFailed, MarkAsCancelled, JobStatus

-----------------------------------------------------------------------------
(***************************************************************************)
(* The set of calls.                                                       *)
(***************************************************************************)
CallsOK ==
    /\ calls \subseteq Call
    /\ \A k1, k2 \in calls : k1.id = k2.id => k1 = k2

\* The record of a new call has the type of a call.
LEMMA NewCallType ==
    ASSUME NEW c \in Calls, NEW op \in Op, NEW pc \in PC, NEW j \in Jobs,
           NEW r \in Row, NEW s \in JobStatus
    PROVE  /\ NewCall(c, op, pc, j, r, s) \in Call
           /\ NewCall(c, op, pc, j, r, s).id = c
  BY DEF NewCall, Call

\* A call under an idle id joins the calls in flight.
LEMMA CallJoins ==
    ASSUME CallsOK, NEW n \in Call, Idle(n.id), calls' = calls \cup {n}
    PROVE  CallsOK'
  BY DEF CallsOK, Idle

\* A call that goes on keeps its id.
LEMMA CallContinues ==
    ASSUME CallsOK, NEW k \in calls, NEW k2 \in Call, k2.id = k.id,
           Continue(k, k2)
    PROVE  CallsOK'
  BY DEF CallsOK, Continue

\* A call that returns leaves the others as they are.
LEMMA CallReturns ==
    ASSUME CallsOK, NEW k \in calls, Return(k)
    PROVE  CallsOK'
  BY DEF CallsOK, Return

\* What a call holds.
LEMMA CallTypes ==
    ASSUME NEW k \in Call
    PROVE  /\ k.job \in Jobs /\ k.row \in Row /\ k.id \in Calls
           /\ k.rest \subseteq [job : Jobs, row : Row]
  BY DEF Call

-----------------------------------------------------------------------------
(***************************************************************************)
(* Type correctness.                                                       *)
(***************************************************************************)
TablesOK ==
    /\ jobs \in [Jobs -> Row \cup {Absent}]
    /\ queues \in [Queues -> QueueRow]
    /\ starts \in [Jobs -> Nat]

\* TypeOK in two parts: the tables and the calls.
LEMMA TypeParts == TypeOK <=> TablesOK /\ CallsOK
  BY DEF TypeOK, TablesOK, CallsOK

\* A row that exists is a job row.
LEMMA FoundRow ==
    ASSUME TablesOK, NEW j \in Jobs, Exists(j)
    PROVE  jobs[j] \in Row /\ jobs[j].status \in JobStatus
  BY DEF TablesOK, Exists, Row, JobRow

\* A job row whose status some handler accepts is no missing row.
LEMMA KnownStatus ==
    ASSUME TablesOK, NEW j \in Jobs, jobs[j].status \in JobStatus
    PROVE  Exists(j)
  BY AbsentIsNoRow DEF Exists

\* The one-statement update of a row keeps the types of the tables.
LEMMA StoreType ==
    ASSUME TablesOK, NEW j \in Jobs, NEW r \in Row, Store(j, r),
           UNCHANGED queues
    PROVE  TablesOK'
  BY DEF TablesOK, Store

\* A handler that only reads keeps the tables.
LEMMA ReadType ==
    ASSUME TablesOK, UNCHANGED <<jobs, queues, starts>>
    PROVE  TablesOK'
  BY DEF TablesOK

\* A handler that has read a row and holds a job row keeps the types.
LEMMA PrepareType ==
    ASSUME TypeOK, NEW c \in Calls, NEW op \in Op, NEW j \in Jobs,
           NEW r, Exists(j) => r \in Row, Prepare(c, op, j, r)
    PROVE  TypeOK'
<1> DEFINE n == NewCall(c, op, "write", j, r, jobs[j].status)
<1>1. TablesOK /\ CallsOK
  BY TypeParts
<1>2. n \in Call /\ n.id = c
  BY <1>1, FoundRow, NewCallType DEF Prepare, PC
<1>3. CallsOK'
  BY <1>1, <1>2, CallJoins DEF Prepare
<1>4. TablesOK'
  BY <1>1, ReadType DEF Prepare
<1>5. QED
  BY <1>3, <1>4, TypeParts DEF TypeOK, TablesOK, CallsOK

\* Every request keeps the types.
LEMMA RequestType ==
    ASSUME TypeOK, NEW c \in Calls, NEW j \in Jobs, Request(c, j)
    PROVE  TypeOK'
<1>1. TablesOK /\ CallsOK
  BY TypeParts
<1>2. ASSUME NEW r \in Row, CreateJob(c, j, r)
      PROVE  TypeOK'
  <2> DEFINE n == NewCall(c, "create_job", "insert", j, r, r.status)
  <2>1. r.status \in JobStatus
    BY DEF Row, JobRow
  <2>2. n \in Call /\ n.id = c
    BY <2>1, NewCallType DEF PC, Op
  <2>3. CallsOK'
    BY <1>1, <1>2, <2>2, CallJoins DEF CreateJob
  <2>4. TablesOK'
    BY <1>1, <1>2, ReadType DEF CreateJob
  <2>5. QED
    BY <2>3, <2>4 DEF TypeOK, TablesOK, CallsOK
<1>3. ASSUME NEW s \in StatusTargets, UpdateJobStatus(c, j, s)
      PROVE  TypeOK'
  <2>1. s \in JobStatus
    BY ConstantsAssumption
  <2>2. Exists(j) => [jobs[j] EXCEPT !.status = s] \in Row
    BY <1>1, <2>1, FoundRow, ChangedRows
  <2>3. QED
    BY <1>3, <2>2, PrepareType DEF UpdateJobStatus, Op
<1>4. ASSUME CallerUpdates(c, j)
      PROVE  TypeOK'
  <2>1. Exists(j) => /\ MarkAsProcessing(jobs[j]) \in Row
                     /\ MarkAsSucceeded(jobs[j]) \in Row
                     /\ MarkAsFailed(jobs[j]) \in Row
                     /\ MarkAsScheduled(jobs[j]) \in Row
                     /\ MarkAsCancelled(jobs[j]) \in Row
    BY <1>1, FoundRow, ChangedRows
  <2>2. ASSUME NEW r, Exists(j) => r \in Row, UpdateJob(c, j, r)
        PROVE  TypeOK'
    BY <2>2, PrepareType DEF UpdateJob, Op
  <2>3. QED
    BY <1>4, <2>1, <2>2 DEF CallerUpdates
<1>5. ASSUME CancelJob(c, j)
      PROVE  TypeOK'
  <2>1. Exists(j) => [jobs[j] EXCEPT !.status = "Cancelled"] \in Row
    BY <1>1, FoundRow, ChangedRows DEF JobStatus
  <2>2. QED
    BY Zenon, <1>5, <2>1, PrepareType DEF CancelJob, Op
<1>6. ASSUME RetryJob(c, j)
      PROVE  TypeOK'
  <2>1. Exists(j) => [jobs[j] EXCEPT !.status = "Pending"] \in Row
    BY <1>1, FoundRow, ChangedRows DEF JobStatus
  <2>2. QED
    BY Zenon, <1>6, <2>1, PrepareType DEF RetryJob, Op
<1>7. ASSUME ScheduleJobForRetry(c, j)
      PROVE  TypeOK'
  <2> DEFINE n == NewCall(c, "schedule_job_for_retry", "queue", j, jobs[j],
                          jobs[j].status)
  <2>1. n \in Call /\ n.id = c
    BY <1>1, <1>7, FoundRow, NewCallType DEF ScheduleJobForRetry, PC, Op
  <2>2. CallsOK'
    BY <1>1, <1>7, <2>1, CallJoins DEF ScheduleJobForRetry
  <2>3. TablesOK'
    BY <1>1, <1>7, ReadType DEF ScheduleJobForRetry
  <2>4. QED
    BY <2>2, <2>3 DEF TypeOK, TablesOK, CallsOK
<1>8. QED
  BY <1>2, <1>3, <1>4, <1>5, <1>6, <1>7, NewRows DEF Request

\* Every step of a call in flight keeps the types.
LEMMA StepType ==
    ASSUME TypeOK, NEW k \in calls, Step(k)
    PROVE  TypeOK'
<1>1. TablesOK /\ CallsOK
  BY TypeParts
<1>2. k \in Call
  BY <1>1 DEF CallsOK
<1>3. k.job \in Jobs /\ k.row \in Row
  BY <1>2, CallTypes
<1>4. ASSUME NEW k2 \in Call, k2.id = k.id,
             Continue(k, k2) \/ Return(k), TablesOK'
      PROVE  TypeOK'
  BY <1>1, <1>4, CallContinues, CallReturns DEF TypeOK, TablesOK, CallsOK
<1>5. k.id = k.id /\ \A pc \in PC : [k EXCEPT !.pc = pc].id = k.id
  BY <1>2 DEF Call
<1>6. CASE InsertJob(k)
  <2>1. TablesOK'
    BY <1>1, <1>3, <1>6, StoreType DEF InsertJob
  <2>2. QED
    BY <1>2, <1>4, <1>6, <2>1 DEF InsertJob
<1>7. CASE WriteJob(k)
  <2>1. TablesOK'
    BY <1>1, <1>3, <1>7, StoreType DEF WriteJob
  <2>2. [k EXCEPT !.pc = "dependents"] \in Call
    BY <1>2 DEF PC, Call
  <2>3. [k EXCEPT !.pc = "dependents"].id = k.id
    BY <1>2 DEF Call
  <2>4. QED
    BY <1>2, <1>4, <1>7, <2>1, <2>2, <2>3 DEF WriteJob
<1>8. CASE ReadDependents(k)
  <2> DEFINE found == {d \in Dependents[k.job] : Exists(d)}
             rest == {[job |-> d, row |-> jobs[d]] : d \in found}
             k2 == [k EXCEPT !.pc = "cascade", !.rest = rest]
  <2>1. TablesOK'
    BY <1>1, <1>8, ReadType DEF ReadDependents
  <2>2. found \subseteq Jobs
    BY <1>3, ConstantsAssumption
  <2>3. \A d \in found : jobs[d] \in Row
    BY <1>1, <2>2, FoundRow
  <2>4. rest \in SUBSET [job : Jobs, row : Row]
    BY <2>2, <2>3
  <2>5. k2 \in Call /\ k2.id = k.id
    BY <1>2, <2>4 DEF PC, Call
  <2>6. QED
    BY <1>2, <1>4, <1>8, <2>1, <2>5 DEF ReadDependents
<1>9. ASSUME NEW d \in k.rest, CancelDependent(k, d)
      PROVE  TypeOK'
  <2> DEFINE k2 == [k EXCEPT !.rest = k.rest \ {d}]
  <2>1. d.job \in Jobs /\ d.row \in Row
    BY <1>2 DEF Call
  <2>2. [d.row EXCEPT !.status = "Cancelled"] \in Row
    BY <2>1, ChangedRows DEF JobStatus
  <2>3. TablesOK'
    BY <1>1, <1>9, <2>1, <2>2, StoreType DEF CancelDependent
  <2>4. k2 \in Call /\ k2.id = k.id
    BY <1>2 DEF Call
  <2>5. QED
    BY <1>2, <1>4, <1>9, <2>3, <2>4 DEF CancelDependent
<1>10. CASE ReadRetryQueue(k)
  <2>1. TablesOK'
    BY <1>1, <1>10, ReadType DEF ReadRetryQueue
  <2>2. MarkAsScheduled(k.row) \in Row
    BY <1>3, ChangedRows
  <2>3. /\ [k EXCEPT !.pc = "write", !.row = MarkAsScheduled(k.row)] \in Call
        /\ [k EXCEPT !.pc = "reread"] \in Call
    BY <1>2, <2>2 DEF PC, Call
  <2>4. /\ [k EXCEPT !.pc = "write", !.row = MarkAsScheduled(k.row)].id = k.id
        /\ [k EXCEPT !.pc = "reread"].id = k.id
    BY <1>2 DEF Call
  <2>5. QED
    BY <1>4, <1>10, <2>1, <2>3, <2>4 DEF ReadRetryQueue
<1>11. CASE MoveToDeadLetterQueue(k)
  <2> DEFINE k2 == [k EXCEPT !.pc = "dlq", !.row = jobs[k.job],
                             !.from = jobs[k.job].status]
  <2>1. TablesOK'
    BY <1>1, <1>11, ReadType DEF MoveToDeadLetterQueue
  <2>2. jobs[k.job] \in Row /\ jobs[k.job].status \in JobStatus
    BY <1>1, <1>3, <1>11, FoundRow DEF MoveToDeadLetterQueue
  <2>3. k2 \in Call /\ k2.id = k.id
    BY <1>2, <2>2 DEF PC, Call
  <2>4. QED
    BY <1>4, <1>11, <2>1, <2>3 DEF MoveToDeadLetterQueue
<1>12. CASE ReadDeadLetterQueue(k)
  <2> DEFINE dlq == queues[k.row.queue_id].dead_letter_queue_id
             moved == IF dlq # NoQueue
                      THEN [k.row EXCEPT !.queue_id = dlq, !.status = "Pending"]
                      ELSE [k.row EXCEPT !.status = "Failed"]
             k2 == [k EXCEPT !.pc = "write", !.row = moved]
  <2>1. TablesOK'
    BY <1>1, <1>12, ReadType DEF ReadDeadLetterQueue
  <2>2. dlq \in Queues \cup {NoQueue}
    BY <1>1, <1>3 DEF TablesOK, QueueRow, Row, JobRow
  <2>3. moved \in Row
    BY <1>3, <2>2, ChangedRows DEF JobStatus
  <2>4. k2 \in Call /\ k2.id = k.id
    BY <1>2, <2>3 DEF PC, Call
  <2>5. QED
    BY <1>4, <1>12, <2>1, <2>4 DEF ReadDeadLetterQueue
<1>13. QED
  BY <1>6, <1>7, <1>8, <1>9, <1>10, <1>11, <1>12 DEF Step

\* Type correctness: the service reads and writes well-formed job rows, and a
\* call id never stands for two calls (all handlers of job_service.rs).
THEOREM TypeCorrect == Spec => []TypeOK
<1>1. Init => TypeOK
  BY ConstantsAssumption DEF Init, TypeOK
<1>2. TypeOK /\ [Next]_vars => TypeOK'
  <2> SUFFICES ASSUME TypeOK, [Next]_vars
               PROVE  TypeOK'
    OBVIOUS
  <2>1. ASSUME NEW c \in Calls, NEW j \in Jobs, Request(c, j)
        PROVE  TypeOK'
    BY <2>1, RequestType
  <2>2. ASSUME NEW k \in calls, Step(k)
        PROVE  TypeOK'
    BY <2>2, StepType
  <2>3. ASSUME NEW k \in calls, Abort(k)
        PROVE  TypeOK'
    BY <2>3, CallReturns DEF Abort, TypeOK, CallsOK
  <2>4. ASSUME NEW q \in Queues, QueueServiceWrites(q)
        PROVE  TypeOK'
    BY <2>4, ConstantsAssumption DEF QueueServiceWrites, TypeOK
  <2>5. CASE UNCHANGED vars
    BY <2>5 DEF vars, TypeOK
  <2>6. QED
    BY <2>1, <2>2, <2>3, <2>4, <2>5 DEF Next
<1>3. QED
  BY <1>1, <1>2, PTL DEF Spec

-----------------------------------------------------------------------------
(***************************************************************************)
(* Every row is backed by starts.                                          *)
(***************************************************************************)

\* A row backed by the starts so far stays backed when they grow.
LEMMA BackedGrows ==
    ASSUME NEW r \in Row, NEW n \in Nat, NEW m \in Nat, n <= m
    PROVE  /\ Backed(r, n) => Backed(r, m)
           /\ BackedWhenWritten(r, n) => BackedWhenWritten(r, m)
           /\ Backed(r, n) => BackedWhenWritten(r, n)
  BY DEF Backed, BackedWhenWritten, Row, JobRow

\* And so does what a call holds.
LEMMA CallBackedGrows ==
    ASSUME NEW k \in Call, NEW st \in [Jobs -> Nat], NEW st2 \in [Jobs -> Nat],
           \A j \in Jobs : st[j] <= st2[j], CallBacked(k, st)
    PROVE  CallBacked(k, st2)
<1>1. k.job \in Jobs /\ k.row \in Row /\ k.rest \subseteq [job : Jobs, row : Row]
  BY CallTypes
<1>2. \A d \in k.rest : d.job \in Jobs /\ d.row \in Row
  BY <1>1
<1>3. \A j \in Jobs : st[j] \in Nat /\ st2[j] \in Nat
  OBVIOUS
<1>4. \A d \in k.rest : Backed(d.row, st2[d.job])
  BY <1>2, <1>3, BackedGrows DEF CallBacked
<1>5. QED
  BY <1>1, <1>3, <1>4, BackedGrows DEF CallBacked

\* The write of a row that may be written leaves the table backed, and the
\* starts only grow.
LEMMA StoreBacked ==
    ASSUME TypeOK, StartsInv, NEW j \in Jobs, NEW r \in Row,
           BackedWhenWritten(r, starts[j]), Store(j, r)
    PROVE  /\ starts' \in [Jobs -> Nat]
           /\ \A i \in Jobs : starts[i] <= starts'[i]
           /\ \A i \in Jobs : Backed(jobs'[i], starts'[i])
<1>1. starts \in [Jobs -> Nat] /\ jobs \in [Jobs -> Row \cup {Absent}]
  BY DEF TypeOK
<1>2. starts' \in [Jobs -> Nat] /\ \A i \in Jobs : starts[i] <= starts'[i]
  BY <1>1 DEF Store
<1>3. Backed(r, starts'[j])
  <2>1. CASE r.status = "Processing"
    <3>1. starts'[j] = starts[j] + 1 /\ starts[j] \in Nat
      BY <1>1, <2>1 DEF Store
    <3>2. r.attempt_count <= starts[j] + 1
      BY <2>1 DEF BackedWhenWritten
    <3>3. QED
      BY <3>1, <3>2 DEF Backed
  <2>2. CASE r.status # "Processing"
    BY <2>2 DEF BackedWhenWritten, Store
  <2>3. QED
    BY <2>1, <2>2
<1>4. \A i \in Jobs \ {j} : jobs'[i] = jobs[i] /\ starts'[i] = starts[i]
  BY <1>1 DEF Store
<1>5. jobs'[j] = r
  BY <1>1 DEF Store
<1>6. QED
  BY <1>2, <1>3, <1>4, <1>5 DEF StartsInv

\* A step that keeps the table backed and at most adds one backed call keeps
\* the invariant.
LEMMA CallsBacked ==
    ASSUME TypeOK, StartsInv, starts' \in [Jobs -> Nat],
           \A i \in Jobs : starts[i] <= starts'[i],
           \A i \in Jobs : Backed(jobs'[i], starts'[i]),
           NEW n, CallBacked(n, starts'), calls' \subseteq calls \cup {n}
    PROVE  StartsInv'
<1>1. starts \in [Jobs -> Nat] /\ calls \subseteq Call
  BY DEF TypeOK
<1>2. \A k \in calls : CallBacked(k, starts')
  BY <1>1, CallBackedGrows DEF StartsInv
<1>3. \A k \in calls' : CallBacked(k, starts')
  BY <1>2
<1>4. QED
  BY <1>3 DEF StartsInv

\* The same for a step that only reads.
LEMMA ReadBacked ==
    ASSUME TypeOK, StartsInv, UNCHANGED <<jobs, starts>>,
           NEW n, CallBacked(n, starts), calls' \subseteq calls \cup {n}
    PROVE  StartsInv'
<1>1. /\ starts' \in [Jobs -> Nat]
      /\ \A i \in Jobs : starts[i] <= starts'[i]
  BY DEF TypeOK
<1>2. \A i \in Jobs : Backed(jobs'[i], starts'[i])
  BY DEF StartsInv
<1>3. CallBacked(n, starts')
  OBVIOUS
<1>4. QED
  BY <1>1, <1>2, <1>3, CallsBacked

\* A change of status backs the new row unless it completes a job that has
\* not run.
LEMMA StatusChangeBacked ==
    ASSUME NEW r \in Row, NEW n \in Nat, Backed(r, n), NEW s \in JobStatus,
           s \in {"Succeeded", "Failed", "DeadLetter"}
              => r.status \in {"Processing", "Failed"}
    PROVE  BackedWhenWritten([r EXCEPT !.status = s], n)
<1>1. /\ [r EXCEPT !.status = s].status = s
      /\ [r EXCEPT !.status = s].attempt_count = r.attempt_count
      /\ r.attempt_count \in Nat
  BY DEF Row, JobRow
<1>2. QED
  BY <1>1 DEF Backed, BackedWhenWritten

\* Each method of job.rs, under the precondition its callers respect, backs
\* the row it makes.
LEMMA MarkBacked ==
    ASSUME NEW r \in Row, NEW n \in Nat, Backed(r, n)
    PROVE  /\ BackedWhenWritten(MarkAsProcessing(r), n)
           /\ r.status = "Processing" =>
                 /\ BackedWhenWritten(MarkAsSucceeded(r), n)
                 /\ BackedWhenWritten(MarkAsFailed(r), n)
           /\ BackedWhenWritten(MarkAsScheduled(r), n)
           /\ BackedWhenWritten(MarkAsCancelled(r), n)
<1>1. /\ MarkAsProcessing(r).status = "Processing"
      /\ MarkAsProcessing(r).attempt_count = r.attempt_count + 1
      /\ MarkAsScheduled(r).status = "Scheduled"
      /\ MarkAsScheduled(r).attempt_count = r.attempt_count
      /\ r.attempt_count \in Nat
  BY DEF Row, JobRow, MarkAsProcessing, MarkAsScheduled
<1>2. /\ BackedWhenWritten(MarkAsProcessing(r), n)
      /\ BackedWhenWritten(MarkAsScheduled(r), n)
  BY <1>1 DEF Backed, BackedWhenWritten
<1>3. /\ r.status = "Processing" =>
            /\ BackedWhenWritten(MarkAsSucceeded(r), n)
            /\ BackedWhenWritten(MarkAsFailed(r), n)
      /\ BackedWhenWritten(MarkAsCancelled(r), n)
  BY StatusChangeBacked
     DEF MarkAsSucceeded, MarkAsFailed, MarkAsCancelled, JobStatus
<1>4. QED
  BY <1>2, <1>3

\* A row just read is backed.
LEMMA FoundBacked ==
    ASSUME TypeOK, StartsInv, NEW j \in Jobs, Exists(j)
    PROVE  /\ jobs[j] \in Row /\ jobs[j].status \in JobStatus
           /\ starts[j] \in Nat /\ Backed(jobs[j], starts[j])
  BY TypeParts, FoundRow DEF TablesOK, StartsInv

\* A handler that has read a row and holds a backed row keeps the invariant.
LEMMA PrepareBacked ==
    ASSUME TypeOK, StartsInv, NEW c \in Calls, NEW op, NEW j \in Jobs, NEW r,
           Exists(j) => BackedWhenWritten(r, starts[j]), Prepare(c, op, j, r)
    PROVE  StartsInv'
<1> DEFINE n == NewCall(c, op, "write", j, r, jobs[j].status)
<1>1. CallBacked(n, starts)
  BY DEF CallBacked, NewCall, Prepare
<1>2. QED
  BY <1>1, ReadBacked DEF Prepare

\* Every request keeps the invariant.
LEMMA RequestBacked ==
    ASSUME TypeOK, StartsInv, NEW c \in Calls, NEW j \in Jobs, Request(c, j)
    PROVE  StartsInv'
<1>1. ASSUME NEW r \in Row, CreateJob(c, j, r), r.attempt_count = 0,
             r.status \in {"Pending", "Scheduled"}
      PROVE  StartsInv'
  <2> DEFINE n == NewCall(c, "create_job", "insert", j, r, r.status)
  <2>1. starts[j] \in Nat
    BY DEF TypeOK
  <2>2. BackedWhenWritten(r, starts[j])
    BY <1>1, <2>1 DEF BackedWhenWritten, Backed
  <2>3. CallBacked(n, starts)
    BY <2>2 DEF CallBacked, NewCall
  <2>4. QED
    BY <1>1, <2>3, ReadBacked DEF CreateJob
<1>2. ASSUME NEW s \in StatusTargets, UpdateJobStatus(c, j, s)
      PROVE  StartsInv'
  <2>1. s \in JobStatus
    BY ConstantsAssumption
  <2>2. s \in {"Succeeded", "Failed", "DeadLetter"}
           => jobs[j].status \in {"Processing", "Failed"}
    BY <1>2 DEF UpdateJobStatus, IsValidStatusTransition
  <2>3. Exists(j) => BackedWhenWritten([jobs[j] EXCEPT !.status = s], starts[j])
    BY <2>1, <2>2, FoundBacked, StatusChangeBacked
  <2>4. QED
    BY <1>2, <2>3, PrepareBacked DEF UpdateJobStatus
<1>3. ASSUME CallerUpdates(c, j)
      PROVE  StartsInv'
  <2>1. ASSUME NEW r, Exists(j) => BackedWhenWritten(r, starts[j]),
               UpdateJob(c, j, r)
        PROVE  StartsInv'
    BY <2>1, PrepareBacked DEF UpdateJob
  <2>2. Exists(j) =>
          /\ BackedWhenWritten(MarkAsProcessing(jobs[j]), starts[j])
          /\ jobs[j].status = "Processing" =>
                /\ BackedWhenWritten(MarkAsSucceeded(jobs[j]), starts[j])
                /\ BackedWhenWritten(MarkAsFailed(jobs[j]), starts[j])
          /\ BackedWhenWritten(MarkAsScheduled(jobs[j]), starts[j])
          /\ BackedWhenWritten(MarkAsCancelled(jobs[j]), starts[j])
    BY FoundBacked, MarkBacked
  <2>3. QED
    BY <1>3, <2>1, <2>2 DEF CallerUpdates
<1>4. ASSUME CancelJob(c, j)
      PROVE  StartsInv'
  <2>1. Exists(j) =>
          BackedWhenWritten([jobs[j] EXCEPT !.status = "Cancelled"], starts[j])
    BY FoundBacked, StatusChangeBacked DEF JobStatus
  <2>2. QED
    BY <1>4, <2>1, PrepareBacked DEF CancelJob
<1>5. ASSUME RetryJob(c, j)
      PROVE  StartsInv'
  <2>1. Exists(j) =>
          BackedWhenWritten([jobs[j] EXCEPT !.status = "Pending"], starts[j])
    BY FoundBacked, StatusChangeBacked DEF JobStatus
  <2>2. QED
    BY <1>5, <2>1, PrepareBacked DEF RetryJob
<1>6. ASSUME ScheduleJobForRetry(c, j)
      PROVE  StartsInv'
  <2> DEFINE n == NewCall(c, "schedule_job_for_retry", "queue", j, jobs[j],
                          jobs[j].status)
  <2>1. Backed(jobs[j], starts[j]) /\ starts[j] > 0
    BY <1>6 DEF StartsInv, ScheduleJobForRetry, CanBeRetried, Backed
  <2>2. CallBacked(n, starts)
    BY <2>1 DEF CallBacked, NewCall
  <2>3. QED
    BY <1>6, <2>2, ReadBacked DEF ScheduleJobForRetry
<1>7. ASSUME NEW q \in Queues, NEW m \in MaxAttempts
      PROVE  /\ New(q, m).attempt_count = 0 /\ New(q, m).status = "Pending"
             /\ NewScheduled(q, m).attempt_count = 0
             /\ NewScheduled(q, m).status = "Scheduled"
  BY DEF New, NewScheduled
<1>8. QED
  BY <1>1, <1>2, <1>3, <1>4, <1>5, <1>6, <1>7, NewRows DEF Request

\* Every step of a call keeps the invariant.
LEMMA StepBacked ==
    ASSUME TypeOK, StartsInv, NEW k \in calls, Step(k)
    PROVE  StartsInv'
<1>1. k \in Call /\ CallBacked(k, starts)
  BY DEF TypeOK, StartsInv
<1>2. k.job \in Jobs /\ k.row \in Row /\ k.rest \subseteq [job : Jobs, row : Row]
  BY <1>1, CallTypes
<1>3. starts \in [Jobs -> Nat] /\ \A j \in Jobs : Backed(jobs[j], starts[j])
  BY DEF TypeOK, StartsInv
<1>4. ASSUME NEW j \in Jobs, NEW r \in Row, BackedWhenWritten(r, starts[j]),
             Store(j, r), NEW n \in Call, CallBacked(n, starts),
             calls' \subseteq calls \cup {n}
      PROVE  StartsInv'
  <2>1. /\ starts' \in [Jobs -> Nat]
        /\ \A i \in Jobs : starts[i] <= starts'[i]
        /\ \A i \in Jobs : Backed(jobs'[i], starts'[i])
    BY <1>4, StoreBacked
  <2>2. CallBacked(n, starts')
    BY <1>3, <1>4, <2>1, CallBackedGrows
  <2>3. QED
    BY <1>4, <2>1, <2>2, CallsBacked
<1>5. CASE InsertJob(k)
  BY <1>1, <1>2, <1>4, <1>5 DEF InsertJob, Return, CallBacked
<1>6. CASE WriteJob(k)
  <2> DEFINE n == [k EXCEPT !.pc = "dependents"]
  <2>1. n \in Call /\ n.pc = "dependents" /\ n.rest = k.rest
    BY <1>1 DEF Call, PC
  <2>2. CallBacked(n, starts)
    BY <1>1, <2>1 DEF CallBacked
  <2>3. BackedWhenWritten(k.row, starts[k.job])
    BY <1>1, <1>6 DEF CallBacked, WriteJob
  <2>4. calls' \subseteq calls \cup {n}
    BY <1>6 DEF WriteJob, Continue, Return
  <2>5. QED
    BY <1>2, <1>4, <1>6, <2>1, <2>2, <2>3, <2>4 DEF WriteJob
<1>7. CASE ReadDependents(k)
  <2> DEFINE found == {d \in Dependents[k.job] : Exists(d)}
             n == [k EXCEPT !.pc = "cascade",
                            !.rest = {[job |-> d, row |-> jobs[d]] : d \in found}]
  <2>1. found \subseteq Jobs
    BY <1>2, ConstantsAssumption
  <2>2. n.pc = "cascade" /\ n.rest = {[job |-> d, row |-> jobs[d]] : d \in found}
    BY <1>1 DEF Call
  <2>3. \A d \in n.rest : Backed(d.row, starts[d.job])
    BY <1>3, <2>1, <2>2
  <2>4. CallBacked(n, starts)
    BY <2>2, <2>3 DEF CallBacked
  <2>5. CASE found = {}
    BY <1>1, <1>7, <2>5, ReadBacked DEF ReadDependents, Return
  <2>6. CASE found # {}
    BY <1>7, <2>4, <2>6, ReadBacked DEF ReadDependents, Continue
  <2>7. QED
    BY <2>5, <2>6
<1>8. ASSUME NEW d \in k.rest, CancelDependent(k, d)
      PROVE  StartsInv'
  <2> DEFINE n == [k EXCEPT !.rest = k.rest \ {d}]
  <2>1. d.job \in Jobs /\ d.row \in Row /\ Backed(d.row, starts[d.job])
    BY <1>1, <1>2 DEF CallBacked
  <2>2. /\ [d.row EXCEPT !.status = "Cancelled"] \in Row
        /\ BackedWhenWritten([d.row EXCEPT !.status = "Cancelled"], starts[d.job])
    BY <1>3, <2>1, ChangedRows, StatusChangeBacked DEF JobStatus
  <2>3. n \in Call /\ n.pc = k.pc /\ n.row = k.row /\ n.job = k.job
           /\ n.rest \subseteq k.rest
    BY <1>1 DEF Call
  <2>4. CallBacked(n, starts)
    BY <1>1, <2>3 DEF CallBacked
  <2>5. calls' \subseteq calls \cup {n}
    BY <1>8 DEF CancelDependent, Continue, Return
  <2>6. QED
    BY Zenon, <1>4, <1>8, <2>1, <2>2, <2>3, <2>4, <2>5 DEF CancelDependent
<1>9. CASE ReadRetryQueue(k)
  <2>1. Backed(k.row, starts[k.job])
    BY <1>1, <1>9 DEF CallBacked, ReadRetryQueue
  <2>2. BackedWhenWritten(MarkAsScheduled(k.row), starts[k.job])
    BY <1>2, <1>3, <2>1, MarkBacked
  <2> DEFINE n == [k EXCEPT !.pc = "write", !.row = MarkAsScheduled(k.row)]
             m == [k EXCEPT !.pc = "reread"]
  <2>3. /\ n.pc = "write" /\ n.row = MarkAsScheduled(k.row)
        /\ n.job = k.job /\ n.rest = k.rest
        /\ m.pc = "reread" /\ m.rest = k.rest /\ m.job = k.job
        /\ k.pc = "queue"
    BY <1>1, <1>9 DEF Call, ReadRetryQueue
  <2>4. CallBacked(n, starts) /\ CallBacked(m, starts)
    BY <1>1, <2>2, <2>3 DEF CallBacked
  <2>5. CASE Continue(k, n)
    BY <1>9, <2>4, <2>5, ReadBacked DEF ReadRetryQueue, Continue
  <2>6. CASE Continue(k, m)
    BY <1>9, <2>4, <2>6, ReadBacked DEF ReadRetryQueue, Continue
  <2>7. QED
    BY <1>9, <2>5, <2>6 DEF ReadRetryQueue
<1>10. CASE MoveToDeadLetterQueue(k)
  <2> DEFINE n == [k EXCEPT !.pc = "dlq", !.row = jobs[k.job],
                            !.from = jobs[k.job].status]
  <2>1. /\ n.pc = "dlq" /\ n.row = jobs[k.job] /\ n.job = k.job
        /\ n.rest = k.rest /\ k.pc = "reread"
    BY <1>1, <1>10 DEF Call, MoveToDeadLetterQueue
  <2>2. CallBacked(n, starts)
    BY <1>1, <1>2, <1>3, <2>1 DEF CallBacked
  <2>3. QED
    BY <1>10, <2>2, ReadBacked DEF MoveToDeadLetterQueue, Continue
<1>11. CASE ReadDeadLetterQueue(k)
  <2> DEFINE dlq == queues[k.row.queue_id].dead_letter_queue_id
             moved == IF dlq # NoQueue
                      THEN [k.row EXCEPT !.queue_id = dlq, !.status = "Pending"]
                      ELSE [k.row EXCEPT !.status = "Failed"]
             n == [k EXCEPT !.pc = "write", !.row = moved]
  <2>1. Backed(k.row, starts[k.job]) /\ starts[k.job] > 0
    BY <1>1, <1>11 DEF CallBacked, ReadDeadLetterQueue
  <2>2. moved.attempt_count = k.row.attempt_count /\ moved.status # "Processing"
    BY <1>2 DEF Row, JobRow
  <2>3. BackedWhenWritten(moved, starts[k.job])
    BY <2>1, <2>2 DEF Backed, BackedWhenWritten
  <2>4. n.pc = "write" /\ n.row = moved /\ n.job = k.job /\ n.rest = k.rest
    BY <1>1 DEF Call
  <2>5. CallBacked(n, starts)
    BY <1>1, <2>3, <2>4 DEF CallBacked
  <2>6. QED
    BY <1>11, <2>5, ReadBacked DEF ReadDeadLetterQueue, Continue
<1>12. QED
  BY <1>5, <1>6, <1>7, <1>8, <1>9, <1>10, <1>11 DEF Step

\* The rows in the table and in every call's hands are backed by starts.
THEOREM RowsAreBacked == Spec => []StartsInv
<1>1. Init => StartsInv
  BY DEF Init, StartsInv, Backed, Absent
<1>2. TypeOK /\ StartsInv /\ [Next]_vars => StartsInv'
  <2> SUFFICES ASSUME TypeOK, StartsInv, [Next]_vars
               PROVE  StartsInv'
    OBVIOUS
  <2>1. ASSUME NEW c \in Calls, NEW j \in Jobs, Request(c, j)
        PROVE  StartsInv'
    BY <2>1, RequestBacked
  <2>2. ASSUME NEW k \in calls, Step(k)
        PROVE  StartsInv'
    BY <2>2, StepBacked
  <2>3. ASSUME NEW k \in calls, Abort(k)
        PROVE  StartsInv'
    BY <2>3 DEF Abort, Return, StartsInv
  <2>4. ASSUME NEW q \in Queues, QueueServiceWrites(q)
        PROVE  StartsInv'
    BY <2>4 DEF QueueServiceWrites, StartsInv
  <2>5. CASE UNCHANGED vars
    BY <2>5 DEF vars, StartsInv
  <2>6. QED
    BY <2>1, <2>2, <2>3, <2>4, <2>5 DEF Next
<1>3. QED
  BY <1>1, <1>2, TypeCorrect, PTL DEF Spec

\* A job that is running or has run was started, under every interleaving of
\* the handlers' reads and writes and wherever a call breaks off.
THEOREM CompletedJobsWereStarted == Spec => []CompletedWasStarted
<1>1. StartsInv => CompletedWasStarted
  BY DEF StartsInv, Backed, CompletedWasStarted
<1>2. QED
  BY <1>1, RowsAreBacked, PTL

\* No job is charged with an attempt that was not made.
THEOREM AttemptsWereMade == Spec => []NoPhantomAttempts
<1>1. StartsInv => NoPhantomAttempts
  BY DEF StartsInv, Backed, NoPhantomAttempts
<1>2. QED
  BY <1>1, RowsAreBacked, PTL

-----------------------------------------------------------------------------
(***************************************************************************)
(* The retry budget.                                                       *)
(***************************************************************************)

\* The rows a client creates have an attempt to spend.
LEMMA NewWithinBudget ==
    ASSUME NEW q \in Queues, NEW m \in MaxAttempts
    PROVE  WithinBudget(New(q, m)) /\ WithinBudget(NewScheduled(q, m))
  BY ConstantsAssumption DEF New, NewScheduled, WithinBudget, ValidAttempts

\* A change of status stays within the budget unless it makes a job startable
\* whose attempts are spent.
LEMMA StatusChangeWithinBudget ==
    ASSUME NEW r \in Row, WithinBudget(r), NEW s \in JobStatus,
           s \in {"Pending", "Scheduled"} => r.attempt_count < r.max_attempts
    PROVE  WithinBudget([r EXCEPT !.status = s])
<1>1. /\ [r EXCEPT !.status = s].status = s
      /\ [r EXCEPT !.status = s].attempt_count = r.attempt_count
      /\ [r EXCEPT !.status = s].max_attempts = r.max_attempts
  BY DEF Row, JobRow
<1>2. QED
  BY <1>1 DEF WithinBudget

\* So does each method of job.rs where its callers apply it.
LEMMA MarkWithinBudget ==
    ASSUME NEW r \in Row, WithinBudget(r)
    PROVE  /\ CanBeExecuted(r) => WithinBudget(MarkAsProcessing(r))
           /\ WithinBudget(MarkAsSucceeded(r))
           /\ WithinBudget(MarkAsFailed(r))
           /\ WithinBudget(MarkAsCancelled(r))
           /\ r.status = "Pending" \/ CanBeRetried(r)
                => WithinBudget(MarkAsScheduled(r))
<1>1. /\ r.attempt_count \in Nat /\ r.max_attempts \in Nat
      /\ MarkAsProcessing(r).status = "Processing"
      /\ MarkAsProcessing(r).attempt_count = r.attempt_count + 1
      /\ MarkAsProcessing(r).max_attempts = r.max_attempts
      /\ MarkAsScheduled(r).status = "Scheduled"
      /\ MarkAsScheduled(r).attempt_count = r.attempt_count
      /\ MarkAsScheduled(r).max_attempts = r.max_attempts
  BY DEF MarkAsProcessing, MarkAsScheduled, Row, JobRow, ValidAttempts
<1>2. CanBeExecuted(r) => WithinBudget(MarkAsProcessing(r))
  BY <1>1 DEF WithinBudget, CanBeExecuted
<1>3. r.status = "Pending" \/ CanBeRetried(r) => WithinBudget(MarkAsScheduled(r))
  BY <1>1 DEF WithinBudget, CanBeRetried
<1>4. /\ WithinBudget(MarkAsSucceeded(r))
      /\ WithinBudget(MarkAsFailed(r))
      /\ WithinBudget(MarkAsCancelled(r))
  BY StatusChangeWithinBudget
     DEF MarkAsSucceeded, MarkAsFailed, MarkAsCancelled, JobStatus
<1>5. QED
  BY <1>2, <1>3, <1>4

\* A step that at most adds one call within budget and keeps the table within
\* budget keeps the invariant.
LEMMA CallsWithinBudget ==
    ASSUME BudgetInv, \A i \in Jobs : WithinBudget(jobs'[i]),
           NEW n, CallWithinBudget(n), calls' \subseteq calls \cup {n}
    PROVE  BudgetInv'
  BY DEF BudgetInv, CallWithinBudget, WithinBudget, CanBeRetried

\* A handler that has read a row and holds a row within budget.
LEMMA PrepareWithinBudget ==
    ASSUME TypeOK, BudgetInv, NEW c, NEW op, NEW j \in Jobs, NEW r,
           Exists(j) => WithinBudget(r), Prepare(c, op, j, r)
    PROVE  BudgetInv'
<1> DEFINE n == NewCall(c, op, "write", j, r, jobs[j].status)
<1>1. CallWithinBudget(n)
  BY DEF CallWithinBudget, NewCall, Prepare
<1>2. QED
  BY <1>1, CallsWithinBudget DEF Prepare, BudgetInv

\* Every request that respects the budget keeps the invariant.
LEMMA RequestWithinBudget ==
    ASSUME TypeOK, BudgetInv, BudgetRequests,
           NEW c \in Calls, NEW j \in Jobs, Request(c, j)
    PROVE  BudgetInv'
<1>1. Exists(j) => jobs[j] \in Row /\ WithinBudget(jobs[j])
  BY TypeParts, FoundRow DEF BudgetInv
<1>2. ASSUME NEW r, WithinBudget(r), CreateJob(c, j, r)
      PROVE  BudgetInv'
  <2> DEFINE n == NewCall(c, "create_job", "insert", j, r, r.status)
  <2>1. CallWithinBudget(n)
    BY <1>2 DEF CallWithinBudget, NewCall
  <2>2. QED
    BY <1>2, <2>1, CallsWithinBudget DEF CreateJob, BudgetInv
<1>3. ASSUME NEW s \in StatusTargets, UpdateJobStatus(c, j, s)
      PROVE  BudgetInv'
  <2>1. s \in JobStatus /\ s # "Pending"
    BY ConstantsAssumption DEF BudgetRequests
  <2>2. s = "Scheduled" => jobs[j].status = "Pending"
    BY <1>3 DEF UpdateJobStatus, IsValidStatusTransition
  <2>3. Exists(j) => WithinBudget([jobs[j] EXCEPT !.status = s])
    <3>1. SUFFICES ASSUME Exists(j)
                   PROVE  WithinBudget([jobs[j] EXCEPT !.status = s])
      OBVIOUS
    <3>2. s \in {"Pending", "Scheduled"}
            => jobs[j].attempt_count < jobs[j].max_attempts
      BY <1>1, <2>1, <2>2, <3>1 DEF WithinBudget
    <3>3. QED
      BY <1>1, <2>1, <3>1, <3>2, StatusChangeWithinBudget
  <2>4. QED
    BY <1>3, <2>3, PrepareWithinBudget DEF UpdateJobStatus
<1>4. ASSUME CallerUpdates(c, j)
      PROVE  BudgetInv'
  <2>1. ASSUME NEW r, Exists(j) => WithinBudget(r), UpdateJob(c, j, r)
        PROVE  BudgetInv'
    BY <2>1, PrepareWithinBudget DEF UpdateJob
  <2>2. Exists(j) =>
          /\ CanBeExecuted(jobs[j]) => WithinBudget(MarkAsProcessing(jobs[j]))
          /\ WithinBudget(MarkAsSucceeded(jobs[j]))
          /\ WithinBudget(MarkAsFailed(jobs[j]))
          /\ WithinBudget(MarkAsCancelled(jobs[j]))
          /\ jobs[j].status = "Pending" => WithinBudget(MarkAsScheduled(jobs[j]))
    BY <1>1, MarkWithinBudget
  <2>3. QED
    BY <1>4, <2>1, <2>2 DEF CallerUpdates
<1>5. ASSUME CancelJob(c, j)
      PROVE  BudgetInv'
  <2>1. Exists(j) => WithinBudget([jobs[j] EXCEPT !.status = "Cancelled"])
    BY <1>1, StatusChangeWithinBudget DEF JobStatus
  <2>2. QED
    BY <1>5, <2>1, PrepareWithinBudget DEF CancelJob
<1>6. ASSUME RetryJob(c, j)
      PROVE  BudgetInv'
  <2>1. Exists(j) => WithinBudget([jobs[j] EXCEPT !.status = "Pending"])
    BY <1>1, <1>6, StatusChangeWithinBudget DEF RetryJob, JobStatus
  <2>2. QED
    BY <1>6, <2>1, PrepareWithinBudget DEF RetryJob
<1>7. ASSUME ScheduleJobForRetry(c, j)
      PROVE  BudgetInv'
  <2> DEFINE n == NewCall(c, "schedule_job_for_retry", "queue", j, jobs[j],
                          jobs[j].status)
  <2>1. CallWithinBudget(n)
    BY <1>1, <1>7 DEF CallWithinBudget, NewCall, ScheduleJobForRetry
  <2>2. QED
    BY <1>7, <2>1, CallsWithinBudget DEF ScheduleJobForRetry, BudgetInv
<1>8. QED
  BY <1>2, <1>3, <1>4, <1>5, <1>6, <1>7, NewWithinBudget DEF Request

\* Every step of a call keeps the invariant.
LEMMA StepWithinBudget ==
    ASSUME TypeOK, BudgetInv, BudgetRequests, NEW k \in calls, Step(k)
    PROVE  BudgetInv'
<1>1. k \in Call /\ CallWithinBudget(k)
  BY DEF TypeOK, BudgetInv
<1>2. k.job \in Jobs /\ k.row \in Row /\ k.rest \subseteq [job : Jobs, row : Row]
  BY <1>1, CallTypes
<1>3. ASSUME NEW j \in Jobs, NEW r, WithinBudget(r), Store(j, r)
      PROVE  \A i \in Jobs : WithinBudget(jobs'[i])
  BY <1>3 DEF Store, BudgetInv, TypeOK
<1>4. ASSUME UNCHANGED jobs
      PROVE  \A i \in Jobs : WithinBudget(jobs'[i])
  BY <1>4 DEF BudgetInv
<1>5. CASE InsertJob(k)
  BY <1>1, <1>2, <1>3, <1>5, CallsWithinBudget
     DEF InsertJob, Return, CallWithinBudget
<1>6. CASE WriteJob(k)
  <2> DEFINE n == [k EXCEPT !.pc = "dependents"]
  <2>1. n.pc = "dependents" /\ n.row = k.row /\ n.rest = k.rest
    BY <1>1 DEF Call
  <2>2. CallWithinBudget(n)
    BY <1>1, <2>1 DEF CallWithinBudget
  <2>3. calls' \subseteq calls \cup {n}
    BY <1>6 DEF WriteJob, Continue, Return
  <2>4. \A i \in Jobs : WithinBudget(jobs'[i])
    BY <1>1, <1>2, <1>3, <1>6 DEF WriteJob, CallWithinBudget
  <2>5. QED
    BY <2>2, <2>3, <2>4, CallsWithinBudget
<1>7. CASE ReadDependents(k)
  <2> DEFINE found == {d \in Dependents[k.job] : Exists(d)}
             n == [k EXCEPT !.pc = "cascade",
                            !.rest = {[job |-> d, row |-> jobs[d]] : d \in found}]
  <2>1. found \subseteq Jobs
    BY <1>2, ConstantsAssumption
  <2>2. /\ n.pc = "cascade" /\ n.row = k.row
        /\ n.rest = {[job |-> d, row |-> jobs[d]] : d \in found}
    BY <1>1 DEF Call
  <2>3. \A d \in n.rest : WithinBudget(d.row)
    BY <2>1, <2>2 DEF BudgetInv
  <2>4. CallWithinBudget(n)
    BY <1>1, <2>2, <2>3 DEF CallWithinBudget
  <2>5. calls' \subseteq calls \cup {n} /\ UNCHANGED jobs
    BY <1>7 DEF ReadDependents, Continue, Return
  <2>6. QED
    BY <1>4, <2>4, <2>5, CallsWithinBudget
<1>8. ASSUME NEW d \in k.rest, CancelDependent(k, d)
      PROVE  BudgetInv'
  <2> DEFINE n == [k EXCEPT !.rest = k.rest \ {d}]
  <2>1. d.job \in Jobs /\ d.row \in Row /\ WithinBudget(d.row)
    BY <1>1, <1>2 DEF CallWithinBudget
  <2>2. WithinBudget([d.row EXCEPT !.status = "Cancelled"])
    BY <2>1, StatusChangeWithinBudget DEF JobStatus
  <2>3. \A i \in Jobs : WithinBudget(jobs'[i])
    BY <1>3, <1>8, <2>1, <2>2 DEF CancelDependent
  <2>4. n.pc = k.pc /\ n.row = k.row /\ n.rest \subseteq k.rest
    BY <1>1 DEF Call
  <2>5. CallWithinBudget(n)
    BY <1>1, <2>4 DEF CallWithinBudget
  <2>6. calls' \subseteq calls \cup {n}
    BY <1>8 DEF CancelDependent, Continue, Return
  <2>7. QED
    BY <2>3, <2>5, <2>6, CallsWithinBudget
<1>9. CASE ReadRetryQueue(k)
  <2> DEFINE n == [k EXCEPT !.pc = "write", !.row = MarkAsScheduled(k.row)]
  <2>1. n.pc = "write" /\ n.row = MarkAsScheduled(k.row) /\ n.rest = k.rest
    BY <1>1 DEF Call
  <2>2. WithinBudget(MarkAsScheduled(k.row))
    BY <1>1, <1>2, <1>9, MarkWithinBudget DEF CallWithinBudget, ReadRetryQueue
  <2>3. CallWithinBudget(n)
    BY <1>1, <2>1, <2>2 DEF CallWithinBudget
  <2>4. calls' \subseteq calls \cup {n} /\ UNCHANGED jobs
    BY <1>9 DEF ReadRetryQueue, Continue, BudgetRequests
  <2>5. QED
    BY <1>4, <2>3, <2>4, CallsWithinBudget
<1>10. ~MoveToDeadLetterQueue(k) /\ ~ReadDeadLetterQueue(k)
  BY <1>1 DEF CallWithinBudget, MoveToDeadLetterQueue, ReadDeadLetterQueue
<1>11. QED
  BY <1>5, <1>6, <1>7, <1>8, <1>9, <1>10 DEF Step

\* While no client brings failed jobs back by update_job_status and no job is
\* given up to the dead letter queue, no stale write makes a job exceed its
\* max_attempts (job_service.rs:191, job.rs:128).
THEOREM AttemptsWithinBudget ==
    ASSUME BudgetRequests
    PROVE  Spec => []RetryBudget
<1>1. Init => BudgetInv
  BY DEF Init, BudgetInv, WithinBudget, Absent
<1>2. TypeOK /\ BudgetInv /\ [Next]_vars => BudgetInv'
  <2> SUFFICES ASSUME TypeOK, BudgetInv, [Next]_vars
               PROVE  BudgetInv'
    OBVIOUS
  <2>1. ASSUME NEW c \in Calls, NEW j \in Jobs, Request(c, j)
        PROVE  BudgetInv'
    BY <2>1, RequestWithinBudget
  <2>2. ASSUME NEW k \in calls, Step(k)
        PROVE  BudgetInv'
    BY <2>2, StepWithinBudget
  <2>3. ASSUME NEW k \in calls, Abort(k)
        PROVE  BudgetInv'
    BY <2>3 DEF Abort, Return, BudgetInv
  <2>4. ASSUME NEW q \in Queues, QueueServiceWrites(q)
        PROVE  BudgetInv'
    BY <2>4 DEF QueueServiceWrites, BudgetInv
  <2>5. CASE UNCHANGED vars
    BY <2>5 DEF vars, BudgetInv
  <2>6. QED
    BY <2>1, <2>2, <2>3, <2>4, <2>5 DEF Next
<1>3. BudgetInv => RetryBudget
  BY DEF BudgetInv, WithinBudget, RetryBudget
<1>4. QED
  BY <1>1, <1>2, <1>3, TypeCorrect, PTL DEF Spec

-----------------------------------------------------------------------------
(***************************************************************************)
(* Calls that do not overlap.                                              *)
(***************************************************************************)

\* With one call id, the call in flight is alone, and none is in flight when
\* a request finds the id idle.
LEMMA Alone ==
    ASSUME TypeOK, OneCall
    PROVE  /\ \A k1, k2 \in calls : k1 = k2
           /\ \A c \in Calls : Idle(c) => calls = {}
<1>1. \A k \in calls : k.id \in Calls
  BY DEF TypeOK, Call
<1>2. QED
  BY <1>1 DEF TypeOK, OneCall, Idle

\* A request that leaves one call, in agreement with the table it has read.
LEMMA RequestAlone ==
    ASSUME TypeOK, OneCall, NEW c \in Calls, Idle(c), NEW n,
           calls' = calls \cup {n}, CallCurrent(n, jobs), UNCHANGED jobs
    PROVE  SerialInv'
  BY Alone DEF SerialInv

\* A request changes no job, and what it has read is current.
LEMMA RequestSerial ==
    ASSUME TypeOK, OneCall, NEW c \in Calls, NEW j \in Jobs, Request(c, j)
    PROVE  SerialInv' /\ UNCHANGED jobs
<1>1. ASSUME NEW r, CreateJob(c, j, r)
      PROVE  SerialInv' /\ UNCHANGED jobs
  <2> DEFINE n == NewCall(c, "create_job", "insert", j, r, r.status)
  <2>1. CallCurrent(n, jobs)
    BY <1>1 DEF CallCurrent, NewCall, CreateJob, Exists
  <2>2. QED
    BY <1>1, <2>1, RequestAlone DEF CreateJob
<1>2. ASSUME NEW op, NEW r, Prepare(c, op, j, r),
             jobs[j].status \notin {"Succeeded", "Cancelled"},
             op = "cancel_job" => r.status = "Cancelled"
      PROVE  SerialInv' /\ UNCHANGED jobs
  <2> DEFINE n == NewCall(c, op, "write", j, r, jobs[j].status)
  <2>1. CallCurrent(n, jobs)
    BY <1>2 DEF CallCurrent, NewCall
  <2>2. QED
    BY <1>2, <2>1, RequestAlone DEF Prepare
<1>3. ASSUME NEW s \in StatusTargets, UpdateJobStatus(c, j, s)
      PROVE  SerialInv' /\ UNCHANGED jobs
  BY <1>2, <1>3 DEF UpdateJobStatus, IsValidStatusTransition
<1>4. ASSUME CallerUpdates(c, j)
      PROVE  SerialInv' /\ UNCHANGED jobs
  BY <1>2, <1>4 DEF CallerUpdates, CanBeExecuted, UpdateJob
<1>5. ASSUME CancelJob(c, j)
      PROVE  SerialInv' /\ UNCHANGED jobs
  <2>1. Exists(j) => [jobs[j] EXCEPT !.status = "Cancelled"].status = "Cancelled"
    BY TypeParts, FoundRow DEF Row, JobRow
  <2>2. QED
    BY <1>2, <1>5, <2>1 DEF CancelJob, Prepare
<1>6. ASSUME RetryJob(c, j)
      PROVE  SerialInv' /\ UNCHANGED jobs
  BY <1>2, <1>6 DEF RetryJob
<1>7. ASSUME ScheduleJobForRetry(c, j)
      PROVE  SerialInv' /\ UNCHANGED jobs
  <2> DEFINE n == NewCall(c, "schedule_job_for_retry", "queue", j, jobs[j],
                          jobs[j].status)
  <2>1. CallCurrent(n, jobs)
    BY <1>7 DEF CallCurrent, NewCall, ScheduleJobForRetry, CanBeRetried
  <2>2. QED
    BY <1>7, <2>1, RequestAlone DEF ScheduleJobForRetry
<1>8. QED
  BY <1>1, <1>3, <1>4, <1>5, <1>6, <1>7 DEF Request

\* The call alone goes on as n, or returns.
LEMMA StepAlone ==
    ASSUME TypeOK, OneCall, NEW k \in calls, NEW n,
           CallCurrent(n, jobs'), Continue(k, n) \/ Return(k)
    PROVE  SerialInv'
<1>1. calls' \subseteq {n}
  BY Alone DEF Continue, Return
<1>2. QED
  BY <1>1 DEF SerialInv

\* A step of the call keeps what it has read current, and leaves the final
\* statuses alone.
LEMMA StepSerial ==
    ASSUME TypeOK, SerialInv, OneCall, NEW k \in calls, Step(k)
    PROVE  SerialInv' /\ FinalStep
<1>1. k \in Call /\ CallCurrent(k, jobs)
  BY DEF TypeOK, SerialInv
<1>2. k.job \in Jobs /\ k.row \in Row /\ k.rest \subseteq [job : Jobs, row : Row]
  BY <1>1, CallTypes
<1>3. jobs \in [Jobs -> Row \cup {Absent}]
  BY DEF TypeOK
<1>4. ASSUME UNCHANGED jobs
      PROVE  FinalStep
  BY <1>4 DEF FinalStep
<1>5. ASSUME Store(k.job, k.row), jobs[k.job].status \notin {"Succeeded", "Cancelled"}
      PROVE  FinalStep
  BY <1>2, <1>3, <1>5 DEF Store, FinalStep
<1>6. CASE InsertJob(k)
  <2>1. jobs[k.job].status \notin {"Succeeded", "Cancelled"}
    BY <1>1, <1>6 DEF InsertJob, CallCurrent, Absent
  <2>2. calls' = {}
    BY <1>6, Alone DEF InsertJob, Return
  <2>3. QED
    BY <1>5, <1>6, <2>1, <2>2 DEF InsertJob, SerialInv
<1>7. CASE WriteJob(k)
  <2> DEFINE n == [k EXCEPT !.pc = "dependents"]
  <2>1. /\ jobs[k.job].status \notin {"Succeeded", "Cancelled"}
        /\ k.op = "cancel_job" => k.row.status = "Cancelled"
    BY <1>1, <1>7 DEF WriteJob, CallCurrent
  <2>2. FinalStep
    BY <1>5, <1>7, <2>1 DEF WriteJob
  <2>3. jobs'[k.job] = k.row
    BY <1>2, <1>3, <1>7 DEF WriteJob, Store
  <2>4. n.pc = "dependents" /\ n.job = k.job /\ n.rest = k.rest
    BY <1>1 DEF Call
  <2>5. CASE k.op = "cancel_job"
    <3>1. CallCurrent(n, jobs')
      BY <1>1, <2>1, <2>3, <2>4, <2>5 DEF CallCurrent
    <3>2. QED
      BY <1>7, <2>2, <2>5, <3>1, StepAlone DEF WriteJob
  <2>6. CASE k.op # "cancel_job"
    BY <1>7, <2>2, <2>6, Alone DEF WriteJob, Return, SerialInv
  <2>7. QED
    BY <2>5, <2>6
<1>8. CASE ReadDependents(k)
  <2> DEFINE found == {d \in Dependents[k.job] : Exists(d)}
             n == [k EXCEPT !.pc = "cascade",
                            !.rest = {[job |-> d, row |-> jobs[d]] : d \in found}]
  <2>1. /\ n.pc = "cascade" /\ n.job = k.job
        /\ n.rest = {[job |-> d, row |-> jobs[d]] : d \in found}
    BY <1>1 DEF Call
  <2>2. jobs' = jobs /\ jobs[k.job].status = "Cancelled"
    BY <1>1, <1>8 DEF ReadDependents, CallCurrent
  <2>3. CallCurrent(n, jobs')
    BY <2>1, <2>2 DEF CallCurrent
  <2>4. QED
    BY <1>4, <1>8, <2>2, <2>3, StepAlone DEF ReadDependents
<1>9. ASSUME NEW d \in k.rest, CancelDependent(k, d)
      PROVE  SerialInv' /\ FinalStep
  <2> DEFINE n == [k EXCEPT !.rest = k.rest \ {d}]
             r == [d.row EXCEPT !.status = "Cancelled"]
  <2>1. /\ d.job \in Jobs /\ d.row \in Row /\ d.job \in Dependents[k.job]
        /\ jobs[k.job].status = "Cancelled" /\ k.pc = "cascade"
    BY <1>1, <1>2, <1>9 DEF CancelDependent, CallCurrent
  <2>2. r.status = "Cancelled"
    BY <2>1 DEF Row, JobRow
  <2>3. jobs' = [jobs EXCEPT ![d.job] = r]
    BY <1>9 DEF CancelDependent, Store
  <2>4. FinalStep
    BY <1>2, <1>3, <2>1, <2>2, <2>3 DEF FinalStep
  <2>5. jobs'[k.job].status = "Cancelled"
    BY <1>2, <1>3, <2>1, <2>2, <2>3
  <2>6. n.pc = k.pc /\ n.job = k.job /\ n.rest \subseteq k.rest
    BY <1>1 DEF Call
  <2>7. CallCurrent(n, jobs')
    BY <1>1, <2>1, <2>5, <2>6 DEF CallCurrent
  <2>8. QED
    BY <1>9, <2>4, <2>7, StepAlone DEF CancelDependent
<1>10. CASE ReadRetryQueue(k)
  <2> DEFINE n == [k EXCEPT !.pc = "write", !.row = MarkAsScheduled(k.row)]
             m == [k EXCEPT !.pc = "reread"]
  <2>1. jobs' = jobs /\ jobs[k.job].status = "Failed" /\ k.op # "cancel_job"
    BY <1>1, <1>10 DEF ReadRetryQueue, CallCurrent
  <2>2. /\ n.pc = "write" /\ n.job = k.job /\ n.op = k.op /\ n.rest = k.rest
        /\ m.pc = "reread" /\ m.job = k.job /\ m.op = k.op /\ m.rest = k.rest
    BY <1>1 DEF Call
  <2>3. CallCurrent(n, jobs') /\ CallCurrent(m, jobs')
    BY <1>1, <2>1, <2>2 DEF CallCurrent
  <2>4. QED
    BY <1>4, <1>10, <2>1, <2>3, StepAlone DEF ReadRetryQueue
<1>11. CASE MoveToDeadLetterQueue(k)
  <2> DEFINE n == [k EXCEPT !.pc = "dlq", !.row = jobs[k.job],
                            !.from = jobs[k.job].status]
  <2>1. jobs' = jobs /\ jobs[k.job].status = "Failed" /\ k.op # "cancel_job"
    BY <1>1, <1>11 DEF MoveToDeadLetterQueue, CallCurrent
  <2>2. n.pc = "dlq" /\ n.job = k.job /\ n.op = k.op /\ n.rest = k.rest
    BY <1>1 DEF Call
  <2>3. CallCurrent(n, jobs')
    BY <1>1, <2>1, <2>2 DEF CallCurrent
  <2>4. QED
    BY <1>4, <1>11, <2>1, <2>3, StepAlone DEF MoveToDeadLetterQueue
<1>12. CASE ReadDeadLetterQueue(k)
  <2> DEFINE dlq == queues[k.row.queue_id].dead_letter_queue_id
             moved == IF dlq # NoQueue
                      THEN [k.row EXCEPT !.queue_id = dlq, !.status = "Pending"]
                      ELSE [k.row EXCEPT !.status = "Failed"]
             n == [k EXCEPT !.pc = "write", !.row = moved]
  <2>1. jobs' = jobs /\ jobs[k.job].status = "Failed" /\ k.op # "cancel_job"
    BY <1>1, <1>12 DEF ReadDeadLetterQueue, CallCurrent
  <2>2. n.pc = "write" /\ n.job = k.job /\ n.op = k.op /\ n.rest = k.rest
    BY <1>1 DEF Call
  <2>3. CallCurrent(n, jobs')
    BY <1>1, <2>1, <2>2 DEF CallCurrent
  <2>4. QED
    BY <1>4, <1>12, <2>1, <2>3, StepAlone DEF ReadDeadLetterQueue
<1>13. QED
  BY <1>6, <1>7, <1>8, <1>9, <1>10, <1>11, <1>12 DEF Step

\* Every step keeps what the call has read current.
LEMMA NextSerial ==
    ASSUME TypeOK, SerialInv, OneCall, [Next]_vars
    PROVE  SerialInv' /\ [FinalStep]_vars
<1>1. ASSUME UNCHANGED jobs
      PROVE  FinalStep
  BY <1>1 DEF FinalStep
<1>2. ASSUME NEW c \in Calls, NEW j \in Jobs, Request(c, j)
      PROVE  SerialInv' /\ FinalStep
  BY <1>1, <1>2, RequestSerial
<1>3. ASSUME NEW k \in calls, Step(k)
      PROVE  SerialInv' /\ FinalStep
  BY <1>3, StepSerial
<1>4. ASSUME NEW k \in calls, Abort(k)
      PROVE  SerialInv' /\ FinalStep
  BY <1>1, <1>4 DEF Abort, Return, SerialInv
<1>5. ASSUME NEW q \in Queues, QueueServiceWrites(q)
      PROVE  SerialInv' /\ FinalStep
  BY <1>1, <1>5 DEF QueueServiceWrites, SerialInv
<1>6. CASE UNCHANGED vars
  BY <1>6 DEF vars, SerialInv
<1>7. QED
  BY <1>2, <1>3, <1>4, <1>5, <1>6 DEF Next

LEMMA CallsStayCurrent ==
    ASSUME OneCall
    PROVE  Spec => []SerialInv
<1>1. Init => SerialInv
  BY DEF Init, SerialInv
<1>2. TypeOK /\ SerialInv /\ [Next]_vars => SerialInv'
  BY NextSerial
<1>3. QED
  BY <1>1, <1>2, TypeCorrect, PTL DEF Spec

\* When calls do not overlap, Cancelled is final and a job leaves Succeeded
\* only because a job it depends on is Cancelled (job_service.rs:297, 300).
THEOREM FinalStatusesStay ==
    ASSUME OneCall
    PROVE  Spec => Finality
<1>1. TypeOK /\ SerialInv /\ [Next]_vars => [FinalStep]_vars
  BY NextSerial
<1>2. QED
  BY <1>1, CallsStayCurrent, TypeCorrect, PTL DEF Spec, Finality

-----------------------------------------------------------------------------
(***************************************************************************)
(* The lifecycle.  With requests that respect it, the copy a call holds is *)
(* one move of the lifecycle away from the row in the table.               *)
(***************************************************************************)

\* The table's part of LegalInv.
RowsLegal ==
    \A j \in Jobs : /\ jobs[j].attempt_count = starts[j]
                    /\ jobs[j].status # "DeadLetter"
                    /\ WithinBudget(jobs[j])

\* A request leaves one call, which is legal if it has read the table so.
LEMMA RequestedLegal ==
    ASSUME TypeOK, LegalInv, OneCall, NEW c \in Calls, Idle(c), NEW n,
           calls' = calls \cup {n}, UNCHANGED <<jobs, starts>>,
           CallLegal(n, jobs)
    PROVE  LegalInv'
  BY Alone DEF LegalInv

\* So is a call that has prepared a move of the lifecycle.
LEMMA PreparedLegal ==
    ASSUME TypeOK, LegalInv, OneCall, NEW c \in Calls, NEW op, NEW j \in Jobs,
           NEW r, Prepare(c, op, j, r), LegalMove(jobs[j], r)
    PROVE  LegalInv'
<1> DEFINE n == NewCall(c, op, "write", j, r, jobs[j].status)
<1>1. CallLegal(n, jobs)
  BY DEF CallLegal, NewCall
<1>2. QED
  BY <1>1, RequestedLegal DEF Prepare

\* The fields of a row whose status alone is changed.
LEMMA StatusChange ==
    ASSUME NEW r \in Row, NEW s
    PROVE  /\ [r EXCEPT !.status = s].status = s
           /\ SameCounts(r, [r EXCEPT !.status = s])
  BY DEF Row, JobRow, SameCounts

\* The methods of job.rs, applied where their preconditions hold, are moves of
\* the lifecycle; the transition table is, but for the targets left out.
LEMMA MethodsAreLegal ==
    ASSUME NEW r \in Row
    PROVE  /\ CanBeExecuted(r) => LegalMove(r, MarkAsProcessing(r))
           /\ r.status = "Processing" =>
                 LegalMove(r, MarkAsSucceeded(r)) /\ LegalMove(r, MarkAsFailed(r))
           /\ r.status = "Pending" \/ CanBeRetried(r) =>
                 LegalMove(r, MarkAsScheduled(r))
           /\ r.status \in {"Pending", "Scheduled", "Processing"} =>
                 LegalMove(r, MarkAsCancelled(r))
<1>1. ASSUME CanBeExecuted(r)
      PROVE  LegalMove(r, MarkAsProcessing(r))
  <2>1. /\ MarkAsProcessing(r).status = "Processing"
        /\ MarkAsProcessing(r).attempt_count = r.attempt_count + 1
        /\ MarkAsProcessing(r).max_attempts = r.max_attempts
    BY DEF MarkAsProcessing, Row, JobRow
  <2>2. QED
    BY <1>1, <2>1 DEF LegalMove, CanBeExecuted
<1>2. /\ MarkAsScheduled(r).status = "Scheduled"
      /\ SameCounts(r, MarkAsScheduled(r))
  BY DEF MarkAsScheduled, Row, JobRow, SameCounts
<1>3. QED
  BY <1>1, <1>2, StatusChange
     DEF LegalMove, MarkAsSucceeded, MarkAsFailed, MarkAsCancelled

\* Every request leaves a legal call.
LEMMA RequestLegal ==
    ASSUME TypeOK, LegalInv, SerialRequests, NEW c \in Calls, NEW j \in Jobs,
           Request(c, j)
    PROVE  LegalInv'
<1>0. OneCall /\ (Exists(j) => jobs[j] \in Row) /\ jobs[j].status # "DeadLetter"
  BY FoundRow, TypeParts DEF SerialRequests, LegalInv
<1>1. ASSUME NEW r, CreateJob(c, j, r),
             r.status \in {"Pending", "Scheduled"}, r.attempt_count = 0
      PROVE  LegalInv'
  <2> DEFINE n == NewCall(c, "create_job", "insert", j, r, r.status)
  <2>1. CallLegal(n, jobs)
    BY <1>1 DEF CallLegal, NewCall
  <2>2. QED
    BY <1>0, <1>1, <2>1, RequestedLegal DEF CreateJob
<1>2. ASSUME NEW q \in Queues, NEW m \in MaxAttempts,
             CreateJob(c, j, New(q, m)) \/ CreateJob(c, j, NewScheduled(q, m))
      PROVE  LegalInv'
  <2>1. /\ New(q, m).status = "Pending" /\ New(q, m).attempt_count = 0
        /\ NewScheduled(q, m).status = "Scheduled"
        /\ NewScheduled(q, m).attempt_count = 0
    BY DEF New, NewScheduled
  <2>2. QED
    BY <1>1, <1>2, <2>1
<1>3. ASSUME NEW s \in StatusTargets, UpdateJobStatus(c, j, s)
      PROVE  LegalInv'
  <2> DEFINE r == [jobs[j] EXCEPT !.status = s]
  <2>1. r.status = s /\ SameCounts(jobs[j], r)
    BY <1>0, <1>3, StatusChange DEF UpdateJobStatus, Prepare
  <2> HIDE DEF r
  <2>2. LegalMove(jobs[j], r)
    BY <1>0, <1>3, <2>1
       DEF UpdateJobStatus, IsValidStatusTransition, LegalMove, SerialRequests
  <2>3. Prepare(c, "update_job_status", j, r)
    BY <1>3 DEF UpdateJobStatus, r
  <2>4. QED
    BY <1>0, <2>2, <2>3, PreparedLegal
<1>4. CASE CallerUpdates(c, j)
  <2>1. ASSUME NEW r, UpdateJob(c, j, r), jobs[j] \in Row => LegalMove(jobs[j], r)
        PROVE  LegalInv'
    BY <1>0, <2>1, PreparedLegal DEF UpdateJob, Prepare
  <2>2. QED
    BY <1>4, <2>1, MethodsAreLegal DEF CallerUpdates
<1>5. CASE CancelJob(c, j)
  <2> DEFINE r == [jobs[j] EXCEPT !.status = "Cancelled"]
  <2>1. Prepare(c, "cancel_job", j, r)
    BY <1>5 DEF CancelJob
  <2>2. jobs[j] \in Row /\ jobs[j].status \in JobStatus
    BY <2>1, FoundRow, TypeParts DEF Prepare
  <2>3. LegalMove(jobs[j], r)
    BY <1>0, <1>5, <2>2, StatusChange DEF CancelJob, LegalMove, JobStatus
  <2>4. QED
    BY <1>0, <2>1, <2>3, PreparedLegal
<1>6. CASE RetryJob(c, j)
  <2> DEFINE r == [jobs[j] EXCEPT !.status = "Pending"]
  <2>1. Prepare(c, "retry_job", j, r)
    BY <1>6 DEF RetryJob
  <2>2. LegalMove(jobs[j], r)
    BY <1>0, <1>6, <2>1, StatusChange DEF RetryJob, LegalMove, CanBeRetried, Prepare
  <2>3. QED
    BY <1>0, <2>1, <2>2, PreparedLegal
<1>7. CASE ScheduleJobForRetry(c, j)
  <2> DEFINE n == NewCall(c, "schedule_job_for_retry", "queue", j, jobs[j],
                          jobs[j].status)
  <2>1. CallLegal(n, jobs)
    BY <1>7 DEF CallLegal, NewCall, ScheduleJobForRetry
  <2>2. QED
    BY <1>0, <1>7, <2>1, RequestedLegal DEF ScheduleJobForRetry
<1>8. QED
  BY <1>2, <1>3, <1>4, <1>5, <1>6, <1>7 DEF Request

-----------------------------------------------------------------------------
\* A row of a job is inserted, or replaced as the lifecycle lets it.
Inserts(j, r) ==
    /\ jobs[j] = Absent
    /\ r.status \in {"Pending", "Scheduled"} /\ r.attempt_count = 0

Cascades(j, r) ==
    /\ jobs[j] # Absent
    /\ r.status = "Cancelled" /\ SameCounts(jobs[j], r)
    /\ \E p \in Jobs : j \in Dependents[p] /\ jobs[p].status = "Cancelled"

LegalStore(j, r) ==
    /\ r \in Row
    /\ Store(j, r)
    /\ Inserts(j, r) \/ LegalMove(jobs[j], r) \/ Cascades(j, r)

\* A legal write counts the attempt it starts and keeps the row in its budget.
LEMMA StoreLegal ==
    ASSUME TypeOK, RowsLegal, NEW j \in Jobs, NEW r, LegalStore(j, r)
    PROVE  RowsLegal'
<1>1. /\ jobs' = [jobs EXCEPT ![j] = r]
      /\ starts' = IF r.status = "Processing"
                   THEN [starts EXCEPT ![j] = starts[j] + 1]
                   ELSE starts
  BY DEF LegalStore, Store
<1>2. /\ jobs \in [Jobs -> Row \cup {Absent}] /\ starts \in [Jobs -> Nat]
  BY DEF TypeOK
<1>3. ASSUME NEW i \in Jobs, i # j
      PROVE  jobs'[i] = jobs[i] /\ starts'[i] = starts[i]
  BY <1>1, <1>2, <1>3
<1>4. /\ jobs'[j] = r
      /\ starts'[j] = IF r.status = "Processing" THEN starts[j] + 1 ELSE starts[j]
  BY <1>1, <1>2
<1>5. /\ jobs[j].attempt_count = starts[j] /\ WithinBudget(jobs[j])
      /\ jobs[j].max_attempts \in Nat /\ starts[j] \in Nat
      /\ r.max_attempts \in 1..10
  BY <1>2 DEF RowsLegal, Row, JobRow, ValidAttempts, Absent, LegalStore
<1>6. r.attempt_count = starts'[j] /\ r.status # "DeadLetter" /\ WithinBudget(r)
  <2>1. CASE Inserts(j, r)
    BY <1>4, <1>5, <2>1 DEF Inserts, Absent, WithinBudget
  <2>2. CASE LegalMove(jobs[j], r)
    BY <1>4, <1>5, <2>2 DEF LegalMove, SameCounts, WithinBudget, CanBeRetried
  <2>3. CASE Cascades(j, r)
    BY <1>4, <1>5, <2>3 DEF Cascades, SameCounts, WithinBudget
  <2>4. QED
    BY <2>1, <2>2, <2>3 DEF LegalStore
<1>7. QED
  BY <1>3, <1>4, <1>6 DEF RowsLegal

\* What the lifecycle sees of a write of one row.
LEMMA StoreSeen ==
    ASSUME TypeOK, NEW j \in Jobs, NEW r, Store(j, r)
    PROVE  /\ [i \in Jobs |-> jobs[i].status]'
                = [[i \in Jobs |-> jobs[i].status] EXCEPT ![j] = r.status]
           /\ [i \in Jobs |-> jobs[i].attempt_count]'
                = [[i \in Jobs |-> jobs[i].attempt_count] EXCEPT ![j] = r.attempt_count]
           /\ [i \in Jobs |-> jobs[i].max_attempts]'
                = [[i \in Jobs |-> jobs[i].max_attempts] EXCEPT ![j] = r.max_attempts]
<1>1. jobs' = [jobs EXCEPT ![j] = r] /\ jobs \in [Jobs -> Row \cup {Absent}]
  BY DEF Store, TypeOK
<1>2. QED
  BY <1>1

\* A legal write is a step of the lifecycle, or changes nothing it sees.
LEMMA StoreImplements ==
    ASSUME TypeOK, RowsLegal, NEW j \in Jobs, NEW r, LegalStore(j, r)
    PROVE  [Lifecycle!Next]_(Lifecycle!vars)
<1> DEFINE status   == [i \in Jobs |-> jobs[i].status]
           attempts == [i \in Jobs |-> jobs[i].attempt_count]
           budget   == [i \in Jobs |-> jobs[i].max_attempts]
<1>1. /\ status' = [status EXCEPT ![j] = r.status]
      /\ attempts' = [attempts EXCEPT ![j] = r.attempt_count]
      /\ budget' = [budget EXCEPT ![j] = r.max_attempts]
  BY StoreSeen DEF LegalStore
<1>2. /\ status[j] = jobs[j].status
      /\ attempts[j] = jobs[j].attempt_count
      /\ budget[j] = jobs[j].max_attempts
      /\ WithinBudget(jobs[j])
  BY DEF RowsLegal
<1>3. /\ status = [status EXCEPT ![j] = status[j]]
      /\ attempts = [attempts EXCEPT ![j] = attempts[j]]
      /\ budget = [budget EXCEPT ![j] = budget[j]]
  OBVIOUS
<1>4. SameCounts(jobs[j], r) => attempts' = attempts /\ budget' = budget
  BY <1>1, <1>2, <1>3 DEF SameCounts
<1>5. \A p \in Jobs : status[p] = jobs[p].status
  OBVIOUS
<1>6. r.max_attempts \in 1..10
  BY DEF LegalStore, Row, JobRow, ValidAttempts
<1> HIDE DEF status, attempts, budget
<1>7. CASE Inserts(j, r)
  <2>1. status[j] = "Absent" /\ attempts' = attempts
    BY <1>1, <1>2, <1>3, <1>7 DEF Inserts, Absent
  <2>2. r.status \in {"Pending", "Scheduled"}
    BY <1>7 DEF Inserts
  <2>3. Lifecycle!Create(j)
    BY <1>1, <1>6, <2>1, <2>2 DEF Lifecycle!Create, status, attempts, budget
  <2>4. QED
    BY <2>3 DEF Lifecycle!Next
<1>8. CASE Cascades(j, r)
  <2>1. PICK p \in Jobs : j \in Dependents[p] /\ jobs[p].status = "Cancelled"
    BY <1>8 DEF Cascades
  <2>2. jobs[j].status # "Absent"
    BY <1>8, FoundRow, TypeParts DEF Cascades, Exists, JobStatus
  <2>3. Lifecycle!CancelWith(j, p)
    BY <1>1, <1>2, <1>4, <1>5, <1>8, <2>1, <2>2
       DEF Cascades, Lifecycle!CancelWith, Lifecycle!Moves, status, attempts, budget
  <2>4. QED
    BY <2>3 DEF Lifecycle!Next
<1>9. CASE LegalMove(jobs[j], r)
  <2>1. CASE SameCounts(jobs[j], r) /\ r.status = jobs[j].status
    BY <1>1, <1>2, <1>3, <1>4, <2>1
       DEF Lifecycle!vars, status, attempts, budget
  <2>2. CASE /\ SameCounts(jobs[j], r)
             /\ jobs[j].status = "Pending" /\ r.status = "Scheduled"
    BY <1>1, <1>2, <1>4, <2>2
       DEF Lifecycle!Next, Lifecycle!Defer, Lifecycle!Moves, status, attempts, budget
  <2>3. CASE /\ SameCounts(jobs[j], r) /\ jobs[j].status = "Processing"
             /\ r.status \in {"Succeeded", "Failed"}
    BY <1>1, <1>2, <1>4, <2>3
       DEF Lifecycle!Next, Lifecycle!Finish, Lifecycle!Moves, status, attempts, budget
  <2>4. CASE /\ SameCounts(jobs[j], r) /\ CanBeRetried(jobs[j])
             /\ r.status \in {"Pending", "Scheduled"}
    BY <1>1, <1>2, <1>4, <2>4
       DEF CanBeRetried, Lifecycle!Next, Lifecycle!Retry, Lifecycle!Moves,
           status, attempts, budget
  <2>5. CASE /\ SameCounts(jobs[j], r)
             /\ jobs[j].status \in {"Pending", "Scheduled", "Processing"}
             /\ r.status = "Cancelled"
    BY <1>1, <1>2, <1>4, <2>5
       DEF Lifecycle!Next, Lifecycle!Cancel, Lifecycle!Live, Lifecycle!Moves,
           status, attempts, budget
  <2>6. CASE /\ jobs[j].status \in {"Pending", "Scheduled"}
             /\ r.status = "Processing"
             /\ r.attempt_count = jobs[j].attempt_count + 1
             /\ r.max_attempts = jobs[j].max_attempts
    BY <1>1, <1>2, <1>3, <2>6
       DEF WithinBudget, Lifecycle!Next, Lifecycle!Start, status, attempts, budget
  <2>7. QED
    BY <1>9, <2>1, <2>2, <2>3, <2>4, <2>5, <2>6 DEF LegalMove, CanBeRetried
<1>10. QED
  BY <1>7, <1>8, <1>9 DEF LegalStore

\* The call alone goes on as n, or returns.
LEMMA LegalAlone ==
    ASSUME TypeOK, OneCall, RowsLegal', NEW k \in calls, NEW n,
           CallLegal(n, jobs'), Continue(k, n) \/ Return(k)
    PROVE  LegalInv'
<1>1. calls' \subseteq {n}
  BY Alone DEF Continue, Return
<1>2. QED
  BY <1>1 DEF LegalInv, RowsLegal

\* When the table stays as it is, the lifecycle stutters.
LEMMA TableStays ==
    ASSUME UNCHANGED <<jobs, starts>>
    PROVE  /\ [Lifecycle!Next]_(Lifecycle!vars)
           /\ RowsLegal => RowsLegal'
  BY DEF Lifecycle!vars, RowsLegal

\* A step of the call makes a move of the lifecycle, or none, and leaves the
\* call within one move of the table.
LEMMA StepLegal ==
    ASSUME TypeOK, SerialInv, LegalInv, OneCall, NEW k \in calls, Step(k)
    PROVE  LegalInv' /\ [Lifecycle!Next]_(Lifecycle!vars)
<1>1. k \in Call /\ CallCurrent(k, jobs) /\ CallLegal(k, jobs)
  BY DEF TypeOK, SerialInv, LegalInv
<1>2. k.job \in Jobs /\ k.row \in Row /\ k.rest \subseteq [job : Jobs, row : Row]
  BY <1>1, CallTypes
<1>3. jobs \in [Jobs -> Row \cup {Absent}] /\ RowsLegal
  BY DEF TypeOK, LegalInv, RowsLegal
<1>4. \A r : Store(k.job, r) => jobs' = [jobs EXCEPT ![k.job] = r]
  BY DEF Store
<1>5. ASSUME LegalStore(k.job, k.row)
      PROVE  RowsLegal' /\ [Lifecycle!Next]_(Lifecycle!vars)
  BY <1>2, <1>3, <1>5, StoreLegal, StoreImplements
<1>6. CASE InsertJob(k)
  <2>1. LegalStore(k.job, k.row)
    BY <1>1, <1>2, <1>6 DEF InsertJob, CallCurrent, CallLegal, LegalStore, Inserts
  <2>2. calls' = {}
    BY <1>6, Alone DEF InsertJob, Return
  <2>3. QED
    BY <1>5, <2>1, <2>2 DEF LegalInv, RowsLegal
<1>7. CASE WriteJob(k)
  <2> DEFINE n == [k EXCEPT !.pc = "dependents"]
  <2>1. LegalStore(k.job, k.row)
    BY <1>1, <1>2, <1>7 DEF WriteJob, CallLegal, LegalStore
  <2>2. n.pc = "dependents" /\ n.rest = {}
    BY <1>1, <1>7 DEF Call, WriteJob, CallLegal
  <2>3. CallLegal(n, jobs')
    BY <2>2 DEF CallLegal
  <2>4. Continue(k, n) \/ Return(k)
    BY <1>7 DEF WriteJob
  <2>5. QED
    BY <1>5, <2>1, <2>3, <2>4, LegalAlone
<1>8. CASE ReadDependents(k)
  <2> DEFINE found == {d \in Dependents[k.job] : Exists(d)}
             rest == {[job |-> d, row |-> jobs[d]] : d \in found}
             n == [k EXCEPT !.pc = "cascade", !.rest = rest]
  <2>1. n.pc = "cascade" /\ n.rest = rest
    BY <1>1 DEF Call
  <2>2. UNCHANGED <<jobs, starts>> /\ (Continue(k, n) \/ Return(k))
    BY <1>8 DEF ReadDependents
  <2>3. \A d \in rest : jobs[d.job] # Absent /\ SameCounts(jobs[d.job], d.row)
    BY DEF Exists, SameCounts
  <2> HIDE DEF n, rest
  <2>4. CallLegal(n, jobs')
    BY <2>1, <2>2, <2>3 DEF CallLegal
  <2>5. QED
    BY <1>3, <2>2, <2>4, LegalAlone, TableStays
<1>9. ASSUME NEW d \in k.rest, CancelDependent(k, d)
      PROVE  LegalInv' /\ [Lifecycle!Next]_(Lifecycle!vars)
  <2> DEFINE n == [k EXCEPT !.rest = k.rest \ {d}]
             r == [d.row EXCEPT !.status = "Cancelled"]
  <2>1. /\ d.job \in Jobs /\ d.row \in Row /\ d.job \in Dependents[k.job]
        /\ jobs[k.job].status = "Cancelled" /\ k.pc = "cascade"
        /\ jobs[d.job] # Absent /\ SameCounts(jobs[d.job], d.row)
    BY Zenon, <1>1, <1>2, <1>9 DEF CancelDependent, CallCurrent, CallLegal
  <2>2. r \in Row /\ r.status = "Cancelled" /\ SameCounts(d.row, r)
    BY <2>1, StatusChange, ChangedRows DEF JobStatus
  <2>3. Store(d.job, r) /\ (Continue(k, n) \/ Return(k))
    BY <1>9 DEF CancelDependent
  <2>4. jobs' = [jobs EXCEPT ![d.job] = r]
    BY <2>3 DEF Store
  <2>5. n.pc = k.pc /\ n.rest \subseteq k.rest
    BY <1>1 DEF Call
  <2> HIDE DEF n, r
  <2>6. LegalStore(d.job, r)
    BY <1>2, <2>1, <2>2, <2>3 DEF LegalStore, Cascades, SameCounts
  <2>7. RowsLegal' /\ [Lifecycle!Next]_(Lifecycle!vars)
    BY <1>3, <2>1, <2>6, StoreLegal, StoreImplements
  <2>8. ASSUME NEW e \in k.rest
        PROVE  jobs'[e.job] # Absent /\ SameCounts(jobs'[e.job], e.row)
    <3>1. /\ e.job \in Jobs /\ jobs[e.job] # Absent
          /\ SameCounts(jobs[e.job], e.row)
      BY <1>1, <1>2 DEF CallLegal
    <3>2. QED
      BY <1>3, <2>1, <2>2, <2>4, <3>1, AbsentIsNoRow DEF SameCounts
  <2>9. CallLegal(n, jobs')
    BY <2>1, <2>5, <2>8 DEF CallLegal
  <2>10. QED
    BY <2>3, <2>7, <2>9, LegalAlone
<1>10. CASE ReadRetryQueue(k)
  <2> DEFINE n == [k EXCEPT !.pc = "write", !.row = MarkAsScheduled(k.row)]
             m == [k EXCEPT !.pc = "reread"]
  <2>1. /\ UNCHANGED <<jobs, starts>> /\ (Continue(k, n) \/ Continue(k, m))
        /\ CanBeRetried(jobs[k.job]) /\ k.row = jobs[k.job] /\ k.rest = {}
    BY <1>1, <1>10 DEF ReadRetryQueue, CallLegal
  <2>2. /\ n.pc = "write" /\ n.job = k.job /\ n.row = MarkAsScheduled(k.row)
        /\ n.rest = {}
        /\ m.pc = "reread" /\ m.job = k.job /\ m.row = k.row /\ m.rest = {}
    BY <1>1, <2>1 DEF Call
  <2> HIDE DEF n, m
  <2>3. LegalMove(k.row, MarkAsScheduled(k.row))
    BY <1>2, <2>1, MethodsAreLegal
  <2>4. CallLegal(n, jobs') /\ CallLegal(m, jobs')
    BY <2>1, <2>2, <2>3 DEF CallLegal
  <2>5. QED
    BY <1>3, <2>1, <2>4, LegalAlone, TableStays
<1>11. CASE MoveToDeadLetterQueue(k)
  <2> DEFINE n == [k EXCEPT !.pc = "dlq", !.row = jobs[k.job],
                            !.from = jobs[k.job].status]
  <2>1. /\ UNCHANGED <<jobs, starts>> /\ Continue(k, n)
        /\ CanBeRetried(jobs[k.job]) /\ k.rest = {}
    BY <1>1, <1>11 DEF MoveToDeadLetterQueue, CallLegal
  <2>2. n.pc = "dlq" /\ n.job = k.job /\ n.row = jobs[k.job] /\ n.rest = {}
    BY <1>1, <2>1 DEF Call
  <2> HIDE DEF n
  <2>3. CallLegal(n, jobs')
    BY <2>1, <2>2 DEF CallLegal
  <2>4. QED
    BY <1>3, <2>1, <2>3, LegalAlone, TableStays
<1>12. CASE ReadDeadLetterQueue(k)
  <2> DEFINE dlq == queues[k.row.queue_id].dead_letter_queue_id
             moved == IF dlq # NoQueue
                      THEN [k.row EXCEPT !.queue_id = dlq, !.status = "Pending"]
                      ELSE [k.row EXCEPT !.status = "Failed"]
             n == [k EXCEPT !.pc = "write", !.row = moved]
  <2>1. /\ UNCHANGED <<jobs, starts>> /\ Continue(k, n)
        /\ CanBeRetried(jobs[k.job]) /\ k.row = jobs[k.job] /\ k.rest = {}
    BY <1>1, <1>12 DEF ReadDeadLetterQueue, CallLegal
  <2>2. n.pc = "write" /\ n.job = k.job /\ n.row = moved /\ n.rest = {}
    BY <1>1, <2>1 DEF Call
  <2>3. moved.status \in {"Pending", "Failed"} /\ SameCounts(k.row, moved)
    BY <1>2 DEF Row, JobRow, SameCounts
  <2> HIDE DEF n, moved
  <2>4. CallLegal(n, jobs')
    BY <2>1, <2>2, <2>3 DEF CallLegal, LegalMove
  <2>5. QED
    BY <1>3, <2>1, <2>4, LegalAlone, TableStays
<1>13. QED
  BY <1>6, <1>7, <1>8, <1>9, <1>10, <1>11, <1>12 DEF Step

\* Every step of the service keeps the invariant and is one of the lifecycle.
LEMMA NextLegal ==
    ASSUME TypeOK, SerialInv, LegalInv, SerialRequests, [Next]_vars
    PROVE  LegalInv' /\ [Lifecycle!Next]_(Lifecycle!vars)
<1>0. OneCall
  BY DEF SerialRequests
<1>1. ASSUME UNCHANGED <<jobs, starts>>, calls' \subseteq calls
      PROVE  LegalInv' /\ [Lifecycle!Next]_(Lifecycle!vars)
  BY <1>1, TableStays DEF LegalInv
<1>2. ASSUME NEW c \in Calls, NEW j \in Jobs, Request(c, j)
      PROVE  LegalInv' /\ [Lifecycle!Next]_(Lifecycle!vars)
  <2>1. UNCHANGED jobs
    BY <1>0, <1>2, RequestSerial
  <2>2. [Lifecycle!Next]_(Lifecycle!vars)
    BY <2>1 DEF Lifecycle!vars
  <2>3. QED
    BY <1>2, <2>2, RequestLegal
<1>3. ASSUME NEW k \in calls, Step(k)
      PROVE  LegalInv' /\ [Lifecycle!Next]_(Lifecycle!vars)
  BY <1>0, <1>3, StepLegal
<1>4. ASSUME NEW k \in calls, Abort(k)
      PROVE  LegalInv' /\ [Lifecycle!Next]_(Lifecycle!vars)
  BY <1>1, <1>4 DEF Abort, Return
<1>5. ASSUME NEW q \in Queues, QueueServiceWrites(q)
      PROVE  LegalInv' /\ [Lifecycle!Next]_(Lifecycle!vars)
  BY <1>1, <1>5 DEF QueueServiceWrites
<1>6. CASE UNCHANGED vars
  BY <1>1, <1>6 DEF vars
<1>7. QED
  BY <1>2, <1>3, <1>4, <1>5, <1>6 DEF Next

LEMMA InitiallyLegal == Init => LegalInv /\ Lifecycle!Init
<1> SUFFICES ASSUME Init
             PROVE  LegalInv /\ Lifecycle!Init
  OBVIOUS
<1>1. calls = {} /\ \A j \in Jobs : jobs[j] = Absent /\ starts[j] = 0
  BY DEF Init
<1>2. \A j \in Jobs : /\ jobs[j].status = "Absent"
                     /\ jobs[j].attempt_count = 0 /\ jobs[j].max_attempts = 1
  BY <1>1 DEF Absent
<1>3. QED
  BY <1>1, <1>2 DEF LegalInv, WithinBudget, Lifecycle!Init

LEMMA CallsStayLegal ==
    ASSUME SerialRequests
    PROVE  Spec => []LegalInv
<1>1. TypeOK /\ SerialInv /\ LegalInv /\ [Next]_vars => LegalInv'
  BY NextLegal
<1>2. Spec => []SerialInv
  BY CallsStayCurrent DEF SerialRequests
<1>3. QED
  BY <1>1, <1>2, InitiallyLegal, TypeCorrect, PTL DEF Spec

\* When calls do not overlap and every start goes through mark_as_processing,
\* a job is charged with exactly the attempts that were made (job.rs:131).
THEOREM EveryAttemptIsAStart ==
    ASSUME SerialRequests
    PROVE  Spec => []AttemptsAreStarts
<1>1. LegalInv => AttemptsAreStarts
  BY DEF LegalInv, AttemptsAreStarts
<1>2. QED
  BY <1>1, CallsStayLegal, PTL

\* Such calls implement the lifecycle: no job is started but from Pending or
\* Scheduled, none beyond its budget, and none leaves a final status but for a
\* cancelled parent.
THEOREM ServiceImplementsLifecycle ==
    ASSUME SerialRequests
    PROVE  Spec => ImplementsLifecycle
<1>1. TypeOK /\ SerialInv /\ LegalInv /\ [Next]_vars
      => [Lifecycle!Next]_(Lifecycle!vars)
  BY NextLegal
<1>2. Spec => []SerialInv
  BY CallsStayCurrent DEF SerialRequests
<1>3. QED
  BY <1>1, <1>2, CallsStayLegal, InitiallyLegal, TypeCorrect, PTL
     DEF Spec, ImplementsLifecycle, Lifecycle!Spec
=============================================================================
