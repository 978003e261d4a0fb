------------------------- MODULE QueueServiceProofs -------------------------
(***************************************************************************)
(* QueueService and JobService together implement JobService with the      *)
(* environment it assumes; a paused or deleted queue stays closed.         *)
(***************************************************************************)
EXTENDS QueueService, JobServiceProofs

\* A queue that is not there is one of the rows JobService reckons with.
LEMMA NoRowIsARow == NoRow \in QueueRows
  BY QueueServiceAssumption DEF NoRow

\* What a change prepares is a change with a queue row.
LEMMA ChangeType ==
    ASSUME NEW e \in Editors, NEW op \in EditOp,
           NEW pc \in {"write", "count", "delete"}, NEW q \in Queues,
           NEW r \in QueueRows
    PROVE  /\ Change(e, op, pc, q, r) \in Edit
           /\ Change(e, op, pc, q, r).row = r
           /\ Change(e, op, pc, q, r).id = e
           /\ Change(e, op, pc, q, r).queue = q
           /\ Change(e, op, pc, q, r).pc = pc
           /\ Change(e, op, pc, q, r).op = op
  BY ConstantsAssumption DEF Change, Edit

\* A row whose flag or dead letter queue is changed is still a queue row.
LEMMA ChangedQueueRows ==
    ASSUME NEW r \in QueueRows, NEW b \in BOOLEAN, NEW s \in Settings
    PROVE  /\ [r EXCEPT !.is_active = b] \in QueueRows
           /\ [r EXCEPT !.dead_letter_queue_id = s] \in QueueRows
           /\ [is_active |-> b, dead_letter_queue_id |-> s] \in QueueRows
  BY QueueServiceAssumption

\* What a request for a change leaves behind: one more change, of a stored or
\* a new queue, which would open the queue only if it is open already, is
\* meant to be opened, or was never there.
Harmless(x, q) ==
    x.queue = q /\ x.pc = "write" =>
        \/ ~x.row.is_active
        \/ queues[q].is_active
        \/ q \notin stored \cup dropped
        \/ q \notin held'

\* A change is of a queue in the table, or creates one under a new id.
Placed(x) ==
    /\ x.op = "pause_queue" => ~x.row.is_active
    /\ IF x.op = "create_queue"
       THEN /\ x.queue \notin stored \cup dropped
            /\ \A x2 \in edits : x2.queue # x.queue
       ELSE x.queue \in stored

Adds(e) ==
    \E x \in Edit :
        /\ x.id = e /\ x.row \in QueueRows /\ x.pc # "delete"
        /\ \A x2 \in edits : x2.id # e
        /\ edits' = edits \cup {x}
        /\ held' \subseteq held
        /\ UNCHANGED <<vars, stored, dropped, late>>
        /\ \A p \in Queues : Harmless(x, p)
        /\ Placed(x)

LEMMA AskAdds ==
    ASSUME NEW e \in Editors, NEW op \in EditOp,
           NEW pc \in {"write", "count"}, NEW q \in Queues,
           NEW r \in QueueRows, Ask(e, Change(e, op, pc, q, r)),
           held' \subseteq held,
           Placed(Change(e, op, pc, q, r)),
           pc = "write" =>
              \/ ~r.is_active
              \/ queues[q].is_active
              \/ q \notin stored \cup dropped
              \/ q \notin held'
    PROVE  Adds(e)
<1> DEFINE x == Change(e, op, pc, q, r)
<1>1. /\ x \in Edit /\ x.row = r /\ x.id = e /\ x.queue = q /\ x.pc = pc
  BY ChangeType
<1>2. /\ \A x2 \in edits : x2.id # e
      /\ edits' = edits \cup {x}
      /\ UNCHANGED <<vars, stored, dropped, late>>
  BY DEF Ask
<1>5. Placed(x)
  OBVIOUS
<1> HIDE DEF x
<1>3. \A p \in Queues : Harmless(x, p)
  BY <1>1 DEF Harmless
<1>4. QED
  BY <1>1, <1>2, <1>3, <1>5 DEF Adds

LEMMA QueueRequestAdds ==
    ASSUME QueueRowsOK, NEW e \in Editors, NEW q \in Queues, QueueRequest(e, q)
    PROVE  Adds(e)
<1>1. /\ queues[q] \in QueueRows
      /\ [queues[q] EXCEPT !.is_active = FALSE] \in QueueRows
      /\ [queues[q] EXCEPT !.is_active = TRUE] \in QueueRows
  BY ChangedQueueRows, QueueServiceAssumption DEF QueueRowsOK
<1>2. [queues[q] EXCEPT !.is_active = FALSE].is_active = FALSE
  BY <1>1, QueueServiceAssumption
<1>3. ASSUME NEW s \in Settings, CreateQueue(e, q, s)
      PROVE  Adds(e)
  <2>1. NewQueue(s) \in QueueRows
    BY ChangedQueueRows, <1>1 DEF NewQueue
  <2>2. QED
    BY <1>3, <2>1, AskAdds, ChangeType DEF CreateQueue, EditOp, Placed
<1>4. ASSUME NEW s \in Settings, UpdateQueueSettings(e, q, s)
      PROVE  Adds(e)
  <2> DEFINE r == [queues[q] EXCEPT !.dead_letter_queue_id = s]
  <2>1. r \in QueueRows /\ r.is_active = queues[q].is_active
    BY ChangedQueueRows, <1>1, QueueServiceAssumption
  <2>2. /\ q \in stored /\ held' = held
        /\ Ask(e, Change(e, "update_queue_settings", "write", q, r))
    BY <1>4 DEF UpdateQueueSettings
  <2> HIDE DEF r
  <2>3. ~r.is_active \/ queues[q].is_active
    BY <2>1
  <2>4. Placed(Change(e, "update_queue_settings", "write", q, r))
    BY <2>1, <2>2, ChangeType DEF Placed, EditOp
  <2>5. QED
    BY <2>1, <2>2, <2>3, <2>4, AskAdds DEF EditOp
<1>5. ASSUME NEW r \in QueueRows, UpdateQueue(e, q, r)
      PROVE  Adds(e)
  <2>1. held' \subseteq held /\ (~r.is_active \/ q \notin held')
    BY <1>5 DEF UpdateQueue
  <2>2. Placed(Change(e, "update_queue", "write", q, r))
    BY <1>5, ChangeType DEF UpdateQueue, Placed, EditOp
  <2>3. QED
    BY <1>5, <2>1, <2>2, AskAdds DEF UpdateQueue, EditOp
<1>6. CASE PauseQueue(e, q)
  <2> DEFINE r == [queues[q] EXCEPT !.is_active = FALSE]
  <2>1. r \in QueueRows /\ ~r.is_active
    BY <1>1, <1>2
  <2>2. /\ q \in stored /\ held' = held
        /\ Ask(e, Change(e, "pause_queue", "write", q, r))
    BY <1>6 DEF PauseQueue
  <2> HIDE DEF r
  <2>3. Placed(Change(e, "pause_queue", "write", q, r))
    BY <2>1, <2>2, ChangeType DEF Placed, EditOp
  <2>4. QED
    BY <2>1, <2>2, <2>3, AskAdds DEF EditOp
<1>7. CASE ResumeQueue(e, q)
  BY <1>1, <1>7, AskAdds, ChangeType DEF ResumeQueue, EditOp, Placed
<1>8. CASE DeleteQueue(e, q)
  BY <1>1, <1>8, AskAdds, ChangeType DEF DeleteQueue, EditOp, Placed
<1>9. QED
  BY <1>3, <1>4, <1>5, <1>6, <1>7, <1>8 DEF QueueRequest

-----------------------------------------------------------------------------
\* The rows that reach the table are rows JobService reckons with.
LEMMA QueueRowsStay ==
    ASSUME QueueRowsOK, [QueueNext]_queueVars
    PROVE  QueueRowsOK'
<1>1. ASSUME NEW e \in Editors, NEW q \in Queues, QueueRequest(e, q)
      PROVE  QueueRowsOK'
  <2>1. Adds(e)
    BY <1>1, QueueRequestAdds
  <2>2. QED
    BY <2>1 DEF Adds, Placed, QueueRowsOK, vars
<1>2. ASSUME NEW x \in edits, WriteQueue(x)
      PROVE  QueueRowsOK'
  BY <1>2 DEF WriteQueue, Finish, QueueRowsOK, Edit
<1>3. ASSUME NEW x \in edits, CountActiveJobs(x)
      PROVE  QueueRowsOK'
  <2>1. UNCHANGED queues
    BY <1>3 DEF CountActiveJobs, vars
  <2>2. x \in Edit /\ x.row \in QueueRows
    BY DEF QueueRowsOK
  <2>3. /\ [x EXCEPT !.pc = "delete"] \in Edit
        /\ [x EXCEPT !.pc = "delete"].row = x.row
        /\ [x EXCEPT !.pc = "delete"].op = x.op
    BY <2>2 DEF Edit
  <2>4. edits' \subseteq edits \cup {[x EXCEPT !.pc = "delete"]}
    BY <1>3 DEF CountActiveJobs, Finish
  <2>5. QED
    BY <2>1, <2>2, <2>3, <2>4 DEF QueueRowsOK
<1>4. ASSUME NEW x \in edits, DeleteRow(x)
      PROVE  QueueRowsOK'
  BY <1>4, NoRowIsARow DEF DeleteRow, Finish, QueueRowsOK
<1>5. ASSUME NEW x \in edits, AbortEdit(x)
      PROVE  QueueRowsOK'
  BY <1>5 DEF AbortEdit, Finish, QueueRowsOK, vars
<1>6. CASE JobServiceStep
  BY <1>6 DEF JobServiceStep, QueueRowsOK
<1>7. CASE UNCHANGED queueVars
  BY <1>7 DEF queueVars, vars, QueueRowsOK
<1>8. QED
  BY <1>1, <1>2, <1>3, <1>4, <1>5, <1>6, <1>7 DEF QueueNext, QueueStep

\* Every step of the two services is a step of JobService, or none.
LEMMA StepImplementsJobService ==
    ASSUME QueueRowsOK, [QueueNext]_queueVars
    PROVE  [Next]_vars
<1>1. ASSUME NEW e \in Editors, NEW q \in Queues, QueueRequest(e, q)
      PROVE  UNCHANGED vars
  <2>1. Adds(e)
    BY <1>1, QueueRequestAdds
  <2>2. QED
    BY <2>1 DEF Adds
<1>2. ASSUME NEW x \in edits, WriteQueue(x)
      PROVE  UNCHANGED vars \/ \E q \in Queues : QueueServiceWrites(q)
  BY <1>2 DEF WriteQueue, QueueServiceWrites, QueueRowsOK, Edit, vars
<1>3. ASSUME NEW x \in edits, CountActiveJobs(x) \/ AbortEdit(x)
      PROVE  UNCHANGED vars
  BY <1>3 DEF CountActiveJobs, AbortEdit
<1>4. ASSUME NEW x \in edits, DeleteRow(x)
      PROVE  \E q \in Queues : QueueServiceWrites(q)
  BY <1>4, NoRowIsARow DEF DeleteRow, QueueServiceWrites, QueueRowsOK, Edit
<1>5. CASE JobServiceStep
  <2>1. ASSUME NEW k \in calls, QueueGone(k)
        PROVE  Abort(k)
    BY <2>1, QueueServiceAssumption DEF QueueGone, Abort
  <2>2. QED
    BY <1>5, <2>1 DEF JobServiceStep, Next
<1>6. CASE UNCHANGED queueVars
  BY <1>6 DEF queueVars
<1>7. QED
  BY <1>1, <1>2, <1>3, <1>4, <1>5, <1>6 DEF QueueNext, QueueStep, Next

LEMMA InitialRows == QueueInit => QueueRowsOK /\ Init
  BY NoRowIsARow DEF QueueInit, QueueRowsOK, Init

LEMMA QueueRowsInvariant == QueueSpec => []QueueRowsOK
<1>1. QueueRowsOK /\ [QueueNext]_queueVars => QueueRowsOK'
  BY QueueRowsStay
<1>2. QED
  BY <1>1, InitialRows, PTL DEF QueueSpec

\* What JobService assumes of the queue rows is what queue_service.rs does:
\* all that is proved of JobService holds beside QueueService.
THEOREM QueueServiceRefinesJobService == QueueSpec => JobServiceSpec
<1>1. QueueInit => Init
  BY InitialRows
<1>2. QueueRowsOK /\ [QueueNext]_queueVars => [Next]_vars
  BY StepImplementsJobService
<1>3. QED
  BY <1>1, <1>2, QueueRowsInvariant, PTL DEF QueueSpec, JobServiceSpec, Spec

-----------------------------------------------------------------------------
\* What JobService proves of its types holds here.
LEMMA JobTypes == QueueSpec => []TypeOK
  BY QueueServiceRefinesJobService, TypeCorrect, PTL DEF JobServiceSpec

\* The jobs about to be inserted are jobs.
LEMMA InsertingJobs ==
    ASSUME TypeOK, NEW q \in Queues
    PROVE  Inserting(q) \subseteq Jobs
  BY DEF TypeOK, Call, Inserting

\* Type correctness of the two services together, with what makes the ids of
\* new queues new.
LEMMA QueueTypesStay ==
    ASSUME QueueTypeOK, NewQueuesInv, QueueRowsOK', TypeOK,
           [QueueNext]_queueVars
    PROVE  QueueTypeOK' /\ NewQueuesInv'
<1>0. QueueRowsOK /\ \A q \in Queues : Inserting(q) \subseteq Jobs
  BY InsertingJobs DEF QueueTypeOK
<1>1. ASSUME NEW e \in Editors, NEW q \in Queues, QueueRequest(e, q)
      PROVE  QueueTypeOK' /\ NewQueuesInv'
  <2>1. Adds(e)
    BY <1>0, <1>1, QueueRequestAdds
  <2>2. QueueTypeOK'
    BY <2>1 DEF Adds, Placed, QueueTypeOK, vars
  <2>3. NewQueuesInv'
    BY <2>1 DEF Adds, Placed, NewQueuesInv
  <2>4. QED
    BY <2>2, <2>3
<1>2. ASSUME NEW x \in edits, WriteQueue(x)
      PROVE  QueueTypeOK' /\ NewQueuesInv'
  <2>1. x \in Edit /\ x.queue \in Queues
    BY <1>0 DEF QueueRowsOK, Edit
  <2>2. edits' = edits \ {x} /\ UNCHANGED <<dropped>>
    BY <1>2 DEF WriteQueue, Finish
  <2>3. held' \subseteq Queues /\ late' \in [Queues -> SUBSET Jobs]
    BY <1>0, <1>2, <2>1 DEF WriteQueue, Close, QueueTypeOK
  <2>4. /\ stored' \subseteq Queues
        /\ stored' \subseteq stored \cup {x.queue}
        /\ \A q \in Queues \ stored' : queues'[q] = NoRow
    BY <1>2, <2>1 DEF WriteQueue, QueueTypeOK, QueueRowsOK
  <2>5. x.queue \in stored' => x.queue \notin dropped
    BY <1>2 DEF WriteQueue, QueueTypeOK, NewQueuesInv
  <2>6. QueueTypeOK'
    BY <2>1, <2>2, <2>3, <2>4, <2>5 DEF QueueTypeOK
  <2>7. NewQueuesInv'
    BY <1>2, <2>2 DEF WriteQueue, NewQueuesInv
  <2>8. QED
    BY <2>6, <2>7
<1>3. ASSUME NEW x \in edits, CountActiveJobs(x)
      PROVE  QueueTypeOK' /\ NewQueuesInv'
  <2> DEFINE y == [x EXCEPT !.pc = "delete"]
  <2>1. x \in Edit
    BY <1>0 DEF QueueRowsOK
  <2>2. y \in Edit /\ y.op = x.op /\ y.queue = x.queue /\ y.id = x.id
    BY <2>1 DEF Edit
  <2>3. edits' = edits \ {x} \/ edits' = (edits \ {x}) \cup {y}
    BY <1>3 DEF CountActiveJobs, Finish
  <2>4. UNCHANGED <<vars, stored, dropped, held, late>>
    BY <1>3 DEF CountActiveJobs
  <2> HIDE DEF y
  <2>5. QueueTypeOK'
    BY <2>2, <2>3, <2>4 DEF QueueTypeOK, vars
  <2>6. NewQueuesInv'
    BY <2>2, <2>3, <2>4 DEF NewQueuesInv
  <2>7. QED
    BY <2>5, <2>6
<1>4. ASSUME NEW x \in edits, DeleteRow(x)
      PROVE  QueueTypeOK' /\ NewQueuesInv'
  <2>1. x.queue \in Queues
    BY <1>0 DEF QueueRowsOK, Edit
  <2>2. held' \subseteq Queues /\ late' \in [Queues -> SUBSET Jobs]
    BY <1>0, <1>4, <2>1 DEF DeleteRow, Close, QueueTypeOK
  <2>3. QueueTypeOK'
    BY <1>0, <1>4, <2>1, <2>2 DEF DeleteRow, Finish, QueueTypeOK, QueueRowsOK
  <2>4. ASSUME NEW z \in edits, z # x, z.op = "create_queue"
        PROVE  z.queue # x.queue
    BY <2>4 DEF NewQueuesInv
  <2>5. NewQueuesInv'
    BY <1>4, <2>4 DEF DeleteRow, Finish, NewQueuesInv
  <2>6. QED
    BY <2>3, <2>5
<1>5. ASSUME NEW x \in edits, AbortEdit(x)
      PROVE  QueueTypeOK' /\ NewQueuesInv'
  BY <1>5 DEF AbortEdit, Finish, QueueTypeOK, NewQueuesInv, vars
<1>6. CASE JobServiceStep
  BY <1>6 DEF JobServiceStep, QueueTypeOK, NewQueuesInv
<1>7. CASE UNCHANGED queueVars
  BY <1>7 DEF queueVars, vars, QueueTypeOK, NewQueuesInv
<1>8. QED
  BY <1>1, <1>2, <1>3, <1>4, <1>5, <1>6, <1>7 DEF QueueNext, QueueStep

LEMMA QueueTypes == QueueSpec => [](QueueTypeOK /\ NewQueuesInv)
<1>1. QueueInit => QueueTypeOK /\ NewQueuesInv
  BY InitialRows DEF QueueInit, QueueTypeOK, NewQueuesInv
<1>2. /\ QueueTypeOK /\ NewQueuesInv /\ QueueRowsOK' /\ TypeOK
      /\ [QueueNext]_queueVars
      => QueueTypeOK' /\ NewQueuesInv'
  BY QueueTypesStay
<1>3. QED
  BY <1>1, <1>2, JobTypes, QueueRowsInvariant, PTL DEF QueueSpec

\* The tables and the changes in flight keep their types, and a queue that is
\* not in the table shows no row.
THEOREM QueueTypeCorrect == QueueSpec => []QueueTypeOK
  BY QueueTypes, PTL

-----------------------------------------------------------------------------
\* Nobody but create_job, which tests the flag, is about to insert a job.
LEMMA NoInsertIntoClosed ==
    ASSUME TypeOK, JobServiceStep, NEW q \in Queues, ~queues[q].is_active
    PROVE  Inserting(q)' \subseteq Inserting(q)
<1>1. ASSUME NEW k \in calls', k \notin calls, k.pc = "insert", k.row.queue_id = q
      PROVE  FALSE
  <2>1. ASSUME NEW c \in Calls, NEW j \in Jobs, Request(c, j)
        PROVE  FALSE
    <3>1. ASSUME NEW r, CreateJob(c, j, r)
          PROVE  FALSE
      BY <1>1, <3>1 DEF CreateJob, NewCall
    <3>2. ASSUME NEW op, NEW r, Prepare(c, op, j, r)
          PROVE  FALSE
      BY <1>1, <3>2 DEF Prepare, NewCall
    <3>3. ASSUME ScheduleJobForRetry(c, j)
          PROVE  FALSE
      BY <1>1, <3>3 DEF ScheduleJobForRetry, NewCall
    <3>4. QED
      BY <2>1, <3>1, <3>2, <3>3
         DEF Request, UpdateJobStatus, CallerUpdates, UpdateJob, CancelJob, RetryJob
  <2>2. ASSUME NEW k0 \in calls, NEW pc \in PC, pc # "insert", NEW k2,
               Continue(k0, k2), k2.pc = pc
        PROVE  FALSE
    BY <1>1, <2>2 DEF Continue
  <2>3. ASSUME NEW k0 \in calls, Step(k0)
        PROVE  FALSE
    <3>1. k0 \in Call
      BY DEF TypeOK
    <3>2. \A pc \in PC : [k0 EXCEPT !.pc = pc].pc = pc
      BY <3>1 DEF Call
    <3>3. CASE Return(k0)
      BY <1>1, <3>3 DEF Return
    <3>4. CASE WriteJob(k0)
      BY <1>1, <3>2, <3>4, <2>2, <3>3 DEF WriteJob, PC
    <3>5. CASE ReadDependents(k0)
      <4> DEFINE rest == {[job |-> d, row |-> jobs[d]] :
                             d \in {d \in Dependents[k0.job] : Exists(d)}}
                 k2 == [k0 EXCEPT !.pc = "cascade", !.rest = rest]
      <4>1. k2.pc = "cascade"
        BY <3>1 DEF Call
      <4>2. Return(k0) \/ Continue(k0, k2)
        BY <3>5 DEF ReadDependents
      <4> HIDE DEF k2
      <4>3. QED
        BY <4>1, <4>2, <3>3, <2>2 DEF PC
    <3>6. ASSUME NEW d \in k0.rest, CancelDependent(k0, d)
          PROVE  FALSE
      <4> DEFINE k2 == [k0 EXCEPT !.rest = k0.rest \ {d}]
      <4>1. k2.pc = "cascade"
        BY <3>1, <3>6 DEF Call, CancelDependent
      <4>2. Return(k0) \/ Continue(k0, k2)
        BY <3>6 DEF CancelDependent
      <4> HIDE DEF k2
      <4>3. QED
        BY <4>1, <4>2, <3>3, <2>2 DEF PC
    <3>7. CASE ReadRetryQueue(k0)
      <4> DEFINE k2 == [k0 EXCEPT !.pc = "write", !.row = MarkAsScheduled(k0.row)]
                 k3 == [k0 EXCEPT !.pc = "reread"]
      <4>1. k2.pc = "write" /\ k3.pc = "reread"
        BY <3>1 DEF Call
      <4>2. Continue(k0, k2) \/ Continue(k0, k3)
        BY <3>7 DEF ReadRetryQueue
      <4> HIDE DEF k2, k3
      <4>3. QED
        BY <4>1, <4>2, <2>2 DEF PC
    <3>8. CASE MoveToDeadLetterQueue(k0)
      <4> DEFINE k2 == [k0 EXCEPT !.pc = "dlq", !.row = jobs[k0.job],
                                  !.from = jobs[k0.job].status]
      <4>1. k2.pc = "dlq"
        BY <3>1 DEF Call
      <4>2. Continue(k0, k2)
        BY <3>8 DEF MoveToDeadLetterQueue
      <4> HIDE DEF k2
      <4>3. QED
        BY <4>1, <4>2, <2>2 DEF PC
    <3>9. CASE ReadDeadLetterQueue(k0)
      <4>1. PICK r : Continue(k0, [k0 EXCEPT !.pc = "write", !.row = r])
        BY <3>9 DEF ReadDeadLetterQueue
      <4>2. [k0 EXCEPT !.pc = "write", !.row = r].pc = "write"
        BY <3>1 DEF Call
      <4>3. QED
        BY <4>1, <4>2, <2>2 DEF PC
    <3>10. QED
      BY <2>3, <3>3, <3>4, <3>5, <3>6, <3>7, <3>8, <3>9 DEF Step, InsertJob
  <2>4. ASSUME NEW k0 \in calls, Return(k0)
        PROVE  FALSE
    BY <1>1, <2>4 DEF Return
  <2>5. QED
    BY <2>1, <2>3, <2>4 DEF JobServiceStep, QueueGone, Abort
<1>2. QED
  BY <1>1 DEF Inserting

\* A queue that is held stays closed, whatever changes of it are in flight.
LEMMA HeldStays ==
    ASSUME HeldInv, TypeOK, QueueTypeOK, NewQueuesInv, [QueueNext]_queueVars
    PROVE  HeldInv'
<1>0. QueueRowsOK
  BY DEF QueueTypeOK
<1>1. ASSUME NEW e \in Editors, NEW q \in Queues, QueueRequest(e, q)
      PROVE  HeldInv'
  <2>1. PICK x \in Edit :
           /\ edits' = edits \cup {x}
           /\ held' \subseteq held
           /\ UNCHANGED <<vars, stored, dropped, late>>
           /\ \A p \in Queues : Harmless(x, p)
    BY <1>0, <1>1, QueueRequestAdds DEF Adds
  <2>2. \A p \in Queues : Inserting(p)' = Inserting(p)
    BY <2>1 DEF Inserting, vars
  <2>3. held \subseteq Queues
    BY DEF QueueTypeOK
  <2>4. QED
    BY <2>1, <2>2, <2>3 DEF HeldInv, Harmless, vars
<1>2. ASSUME NEW x \in edits, WriteQueue(x)
      PROVE  HeldInv'
  <2>1. x.queue \in Queues /\ edits' = edits \ {x}
    BY <1>0, <1>2 DEF QueueRowsOK, Edit, WriteQueue, Finish
  <2>2. \A p \in Queues : Inserting(p)' = Inserting(p)
    BY <1>2 DEF Inserting, WriteQueue
  <2>3. held \subseteq Queues /\ late \in [Queues -> SUBSET Jobs]
    BY DEF QueueTypeOK
  <2>4. CASE x.op = "create_queue"
    BY <1>2, <2>1, <2>2, <2>3, <2>4
       DEF WriteQueue, HeldInv, NewQueuesInv, QueueTypeOK, QueueRowsOK
  <2>5. CASE x.op # "create_queue" /\ x.queue \notin stored
    BY <1>2, <2>1, <2>2, <2>3, <2>5 DEF WriteQueue, HeldInv
  <2>6. CASE x.op # "create_queue" /\ x.queue \in stored
    <3>1. /\ queues' = [queues EXCEPT ![x.queue] = x.row]
          /\ stored' = stored /\ dropped' = dropped
      BY <1>2, <2>6 DEF WriteQueue
    <3>2. x.queue \in held => ~x.row.is_active
      BY <1>2, <2>6 DEF HeldInv, WriteQueue
    <3>3. ASSUME NEW q \in held
          PROVE  /\ ~queues'[q].is_active
                 /\ Inserting(q)' \subseteq late[q]
                 /\ q \in stored' \cup dropped'
                 /\ q \in stored' => \A y \in edits' :
                       y.queue = q /\ y.pc = "write" => ~y.row.is_active
      BY <2>1, <2>2, <2>3, <3>1, <3>2 DEF HeldInv, QueueTypeOK, QueueRowsOK
    <3>4. CASE held' = held /\ late' = late
      BY <3>3, <3>4 DEF HeldInv
    <3>5. CASE /\ x.op = "pause_queue"
               /\ \A y \in edits \ {x} : y.queue # x.queue
               /\ Close(x.queue)
      <4>1. \A y \in edits' : y.queue # x.queue
        BY <2>1, <3>5
      <4>2. ~x.row.is_active
        BY <1>0, <3>5 DEF QueueRowsOK
      <4>3. /\ ~queues'[x.queue].is_active
            /\ Inserting(x.queue)' \subseteq late'[x.queue]
            /\ x.queue \in stored'
        BY <2>1, <2>2, <2>3, <2>6, <3>1, <3>5, <4>2
           DEF Close, QueueTypeOK, QueueRowsOK
      <4>4. \A q \in held' : q = x.queue \/ (q \in held /\ late'[q] = late[q])
        BY <2>1, <2>3, <3>5 DEF Close
      <4>5. QED
        BY <3>3, <4>1, <4>3, <4>4 DEF HeldInv
    <3>6. QED
      BY <1>2, <3>4, <3>5 DEF WriteQueue
  <2>7. QED
    BY <2>4, <2>5, <2>6
<1>3. ASSUME NEW x \in edits, CountActiveJobs(x)
      PROVE  HeldInv'
  <2> DEFINE y == [x EXCEPT !.pc = "delete"]
  <2>1. x \in Edit
    BY <1>0 DEF QueueRowsOK
  <2>2. y.pc = "delete"
    BY <2>1 DEF Edit
  <2>3. edits' \subseteq edits \cup {y}
    BY <1>3 DEF CountActiveJobs, Finish
  <2>4. UNCHANGED <<vars, stored, dropped, held, late>>
    BY <1>3 DEF CountActiveJobs
  <2> HIDE DEF y
  <2>5. \A p \in Queues : Inserting(p)' = Inserting(p)
    BY <2>4 DEF Inserting, vars
  <2>6. held \subseteq Queues
    BY DEF QueueTypeOK
  <2>7. QED
    BY <2>2, <2>3, <2>4, <2>5, <2>6 DEF HeldInv, vars
<1>4. ASSUME NEW x \in edits, DeleteRow(x)
      PROVE  HeldInv'
  <2>1. x.queue \in Queues /\ edits' = edits \ {x}
    BY <1>0, <1>4 DEF QueueRowsOK, Edit, DeleteRow, Finish
  <2>2. \A p \in Queues : Inserting(p)' = Inserting(p)
    BY <1>4 DEF Inserting, DeleteRow
  <2>3. held \subseteq Queues /\ late \in [Queues -> SUBSET Jobs]
    BY DEF QueueTypeOK
  <2>4. /\ queues' = [queues EXCEPT ![x.queue] = NoRow]
        /\ queues \in [Queues -> QueueRows]
        /\ stored' = stored \ {x.queue}
        /\ dropped' = dropped \cup {x.queue}
        /\ \/ held' = held /\ late' = late
           \/ /\ held' = held \cup {x.queue}
              /\ late' = [late EXCEPT ![x.queue] = Inserting(x.queue)]
    BY <1>0, <1>4 DEF DeleteRow, Close, QueueRowsOK
  <2>5. ~NoRow.is_active
    BY DEF NoRow
  <2>6. QED
    BY <2>1, <2>2, <2>3, <2>4, <2>5 DEF HeldInv
<1>5. ASSUME NEW x \in edits, AbortEdit(x)
      PROVE  HeldInv'
  <2>1. \A p \in Queues : Inserting(p)' = Inserting(p)
    BY <1>5 DEF Inserting, AbortEdit, vars
  <2>2. QED
    BY <1>5, <2>1 DEF AbortEdit, Finish, HeldInv, vars, QueueTypeOK
<1>6. CASE JobServiceStep
  <2>1. \A q \in held : Inserting(q)' \subseteq Inserting(q)
    BY <1>6, NoInsertIntoClosed DEF HeldInv, QueueTypeOK
  <2>2. QED
    BY <1>6, <2>1 DEF JobServiceStep, HeldInv
<1>7. CASE UNCHANGED queueVars
  <2>1. \A p \in Queues : Inserting(p)' = Inserting(p)
    BY <1>7 DEF Inserting, queueVars, vars
  <2>2. QED
    BY <1>7, <2>1 DEF queueVars, vars, HeldInv, QueueTypeOK
<1>8. QED
  BY <1>1, <1>2, <1>3, <1>4, <1>5, <1>6, <1>7 DEF QueueNext, QueueStep

\* A paused queue stays closed until somebody asks to open it, and a deleted
\* one for good: no change of it that comes later opens it, and create_job
\* inserts only what it had admitted before.
THEOREM PausedQueuesStayClosed == QueueSpec => []PauseHolds
<1>1. QueueInit => HeldInv
  BY DEF QueueInit, HeldInv
<1>2. /\ HeldInv /\ TypeOK /\ QueueTypeOK /\ NewQueuesInv /\ [QueueNext]_queueVars
      => HeldInv'
  BY HeldStays
<1>3. HeldInv => PauseHolds
  BY DEF HeldInv, PauseHolds
<1>4. QED
  BY <1>1, <1>2, <1>3, JobTypes, QueueTypes, PTL DEF QueueSpec

=============================================================================
