---------------------------- MODULE QueueService ----------------------------
(***************************************************************************)
(* QueueService (src/services/queue_service.rs) over the job_queues table, *)
(* together with the JobService that reads the table.  It replaces the     *)
(* environment action QueueServiceWrites of JobService.                    *)
(*                                                                         *)
(* A handler reads a queue's row and writes the whole row back, or deletes *)
(* it, some awaits later: in between it is a record of "edits".  Nothing   *)
(* but the handler's own read tells it what the table holds.               *)
(***************************************************************************)
EXTENDS JobService

CONSTANT Editors   \* ids of the changes of queues that may be in flight

Settings == {r.dead_letter_queue_id : r \in QueueRows}

\* What the other service sees of a queue that is not in the table.
NoRow == [is_active |-> FALSE, dead_letter_queue_id |-> NoQueue]

\* A failing call may be one that finds its queue gone, hence Faults.
ASSUME QueueServiceAssumption ==
    /\ Faults
    /\ QueueRows = [is_active : BOOLEAN, dead_letter_queue_id : Settings]
    /\ NoQueue \in Settings

VARIABLES
    stored,   \* the queues that are in the table
    dropped,  \* the queues that were deleted: their uuids do not come back
    edits,    \* the changes of queues in flight
    held,     \* history: the queues paused, or deleted, and not opened since
    late      \* history: late[q] are the jobs about to be inserted when q closed

queueVars == <<vars, stored, dropped, edits, held, late>>

EditOp == {"create_queue", "update_queue", "pause_queue", "resume_queue",
           "update_queue_settings", "delete_queue"}

Edit == [id    : Editors,
         op    : EditOp,
         pc    : {"write", "count", "delete"},
         queue : Queues,
         row   : QueueRow]

Change(e, op, pc, q, r) ==
    [id |-> e, op |-> op, pc |-> pc, queue |-> q, row |-> r]

\* JobQueue::new.
NewQueue(s) == [is_active |-> TRUE, dead_letter_queue_id |-> s]

-----------------------------------------------------------------------------
(***************************************************************************)
(* The first read of a handler, and what it decides on the copy.           *)
(***************************************************************************)
Ask(e, x) ==
    /\ \A x2 \in edits : x2.id # e
    /\ edits' = edits \cup {x}
    /\ UNCHANGED <<vars, stored, dropped, late>>

\* A new queue is active.  Its uuid is no other queue's.
CreateQueue(e, q, s) ==
    /\ q \notin stored \cup dropped
    /\ \A x \in edits : x.queue # q
    /\ Ask(e, Change(e, "create_queue", "write", q, NewQueue(s)))
    /\ UNCHANGED held

\* update_queue reads no row: it writes the one its caller hands over, of
\* whatever age.  A row that is active opens the queue.
UpdateQueue(e, q, r) ==
    /\ q \in stored
    /\ Ask(e, Change(e, "update_queue", "write", q, r))
    /\ held' = IF r.is_active THEN held \ {q} ELSE held

PauseQueue(e, q) ==
    /\ q \in stored
    /\ Ask(e, Change(e, "pause_queue", "write", q,
                    [queues[q] EXCEPT !.is_active = FALSE]))
    /\ UNCHANGED held

\* From here on the queue is open again to whom it may concern.
ResumeQueue(e, q) ==
    /\ q \in stored
    /\ Ask(e, Change(e, "resume_queue", "write", q,
                    [queues[q] EXCEPT !.is_active = TRUE]))
    /\ held' = held \ {q}

\* Mutant of UpdateQueueSettings: the row is built anew, as for a new queue.
SettingsRebuildRow(e, q, s) ==
    /\ q \in stored
    /\ Ask(e, Change(e, "update_queue_settings", "write", q, NewQueue(s)))
    /\ UNCHANGED held

\* validate_queue_settings looks at numbers only: any dead letter queue
\* passes, also one that does not exist.
UpdateQueueSettings(e, q, s) ==
    /\ q \in stored
    /\ Ask(e, Change(e, "update_queue_settings", "write", q,
                    [queues[q] EXCEPT !.dead_letter_queue_id = s]))
    /\ UNCHANGED held

DeleteQueue(e, q) ==
    /\ q \in stored
    /\ Ask(e, Change(e, "delete_queue", "count", q, queues[q]))
    /\ UNCHANGED held

-----------------------------------------------------------------------------
(***************************************************************************)
(* The later calls of the handlers.                                        *)
(***************************************************************************)
Finish(x) == edits' = edits \ {x}

\* The jobs that create_job is about to insert into q.
Inserting(q) ==
    {k.job : k \in {k \in calls : k.pc = "insert" /\ k.row.queue_id = q}}

\* Closing q: from here on it is held, but for what is already on its way.
Close(q) ==
    /\ held' = held \cup {q}
    /\ late' = [late EXCEPT ![q] = Inserting(q)]

\* Mutant of WriteQueue: an update that finds no row inserts it.
WriteQueueUpserts(x) ==
    /\ x.pc = "write"
    /\ Finish(x)
    /\ queues' = [queues EXCEPT ![x.queue] = x.row]
    /\ stored' = stored \cup {x.queue}
    /\ UNCHANGED <<jobs, calls, starts, dropped, held, late>>

\* The update of a row, or its insertion.  An update that finds no row fails.
WriteQueue(x) ==
    /\ x.pc = "write"
    /\ Finish(x)
    /\ IF x.op = "create_queue" \/ x.queue \in stored
       THEN /\ queues' = [queues EXCEPT ![x.queue] = x.row]
            /\ stored' = stored \cup {x.queue}
       ELSE UNCHANGED <<queues, stored>>
    /\ IF /\ x.op = "pause_queue"
          /\ x.queue \in stored
          /\ \A x2 \in edits \ {x} : x2.queue # x.queue
       THEN Close(x.queue)
       ELSE UNCHANGED <<held, late>>
    /\ UNCHANGED <<jobs, calls, starts, dropped>>

\* get_active_jobs_count_by_queue: the jobs that are not over.
Active(r) == r.status \in {"Pending", "Scheduled", "Processing"}

ActiveIn(q) == {j \in Jobs : Active(jobs[j]) /\ jobs[j].queue_id = q}

\* A queue with active jobs is not deleted.
CountActiveJobs(x) ==
    /\ x.pc = "count"
    /\ IF ActiveIn(x.queue) # {}
       THEN Finish(x)
       ELSE edits' = (edits \ {x}) \cup {[x EXCEPT !.pc = "delete"]}
    /\ UNCHANGED <<vars, stored, dropped, held, late>>

\* Mutant of DeleteRow: the queue takes its jobs with it.
DeleteRowAndJobs(x) ==
    /\ x.pc = "delete"
    /\ Finish(x)
    /\ queues' = [queues EXCEPT ![x.queue] = NoRow]
    /\ jobs' = [j \in Jobs |-> IF jobs[j].queue_id = x.queue THEN Absent ELSE jobs[j]]
    /\ stored' = stored \ {x.queue}
    /\ dropped' = dropped \cup {x.queue}
    /\ Close(x.queue)
    /\ UNCHANGED <<calls, starts>>

DeleteRow(x) ==
    /\ x.pc = "delete"
    /\ Finish(x)
    /\ queues' = [queues EXCEPT ![x.queue] = NoRow]
    /\ stored' = stored \ {x.queue}
    /\ dropped' = dropped \cup {x.queue}
    /\ IF x.queue \in stored THEN Close(x.queue) ELSE UNCHANGED <<held, late>>
    /\ UNCHANGED <<jobs, calls, starts>>

\* The access check refuses the change, or a database call of it fails.
AbortEdit(x) ==
    /\ Finish(x)
    /\ UNCHANGED <<vars, stored, dropped, held, late>>

-----------------------------------------------------------------------------
(***************************************************************************)
(* The calls of JobService.  The two that read a queue again need it to be *)
(* there, and fail when it is not.                                         *)
(***************************************************************************)
ReadsQueue(k) == k.pc \in {"queue", "dlq"}

QueueGone(k) ==
    /\ ReadsQueue(k)
    /\ k.row.queue_id \notin stored
    /\ Return(k)
    /\ UNCHANGED <<jobs, queues, starts>>

JobServiceStep ==
    /\ \/ \E c \in Calls, j \in Jobs : Request(c, j)
       \/ \E k \in calls :
             \/ (ReadsQueue(k) => k.row.queue_id \in stored) /\ Step(k)
             \/ QueueGone(k)
             \/ Abort(k)
    /\ UNCHANGED <<queues, stored, dropped, edits, held, late>>

QueueRequest(e, q) ==
    \/ \E s \in Settings : CreateQueue(e, q, s) \/ UpdateQueueSettings(e, q, s)
    \/ \E r \in QueueRows : UpdateQueue(e, q, r)
    \/ PauseQueue(e, q)
    \/ ResumeQueue(e, q)
    \/ DeleteQueue(e, q)

QueueStep(x) ==
    \/ WriteQueue(x)
    \/ CountActiveJobs(x)
    \/ DeleteRow(x)
    \/ AbortEdit(x)

QueueInit ==
    /\ jobs = [j \in Jobs |-> Absent]
    /\ queues = [q \in Queues |-> NoRow]
    /\ calls = {}
    /\ starts = [j \in Jobs |-> 0]
    /\ stored = {}
    /\ dropped = {}
    /\ edits = {}
    /\ held = {}
    /\ late = [q \in Queues |-> {}]

QueueNext ==
    \/ JobServiceStep
    \/ \E e \in Editors, q \in Queues : QueueRequest(e, q)
    \/ \E x \in edits : QueueStep(x)

QueueSpec == QueueInit /\ [][QueueNext]_queueVars

-----------------------------------------------------------------------------
(***************************************************************************)
(* Properties                                                              *)
(***************************************************************************)

\* What JobService is told of the queues.
QueueRowsOK ==
    /\ queues \in [Queues -> QueueRows]
    /\ edits \subseteq Edit
    /\ \A x \in edits :
          x.row \in QueueRows /\ (x.op = "pause_queue" => ~x.row.is_active)

\* The tables and the changes in flight hold queue rows, at most one change
\* under each id; a queue that is not in the table shows no row.
QueueTypeOK ==
    /\ QueueRowsOK
    /\ stored \subseteq Queues
    /\ dropped \subseteq Queues \ stored
    /\ held \subseteq Queues
    /\ late \in [Queues -> SUBSET Jobs]
    /\ \A x1, x2 \in edits : x1.id = x2.id => x1 = x2
    /\ \A q \in Queues \ stored : queues[q] = NoRow

\* From the moment pause_queue has written a queue with no other change of it
\* in flight, or delete_queue has deleted it under whatever changes, until
\* somebody asks for resume_queue or hands update_queue an active row: the
\* queue is closed, in spite of all the other changes of it that come after,
\* and create_job inserts no job into it but those it had admitted before (the
\* test at job_service.rs:42 against queue_service.rs:107 and 344).
PauseHolds ==
    \A q \in held :
        /\ ~queues[q].is_active
        /\ Inserting(q) \subseteq late[q]

\* What JobService assumes of the queues is what QueueService does: the two
\* together implement JobService, so every property of it holds here.
JobServiceSpec == Spec

\* The id of a queue that is about to be inserted is nobody else's.
NewQueuesInv ==
    \A x \in edits : x.op = "create_queue" =>
        /\ x.queue \notin stored \cup dropped
        /\ \A x2 \in edits : x2.queue = x.queue => x2 = x

\* The inductive invariant behind PauseHolds: no change that is in flight
\* opens a queue that is held, unless the queue is gone.
HeldInv ==
    \A q \in held :
        /\ ~queues[q].is_active
        /\ Inserting(q) \subseteq late[q]
        /\ q \in stored \cup dropped
        /\ q \in stored => \A x \in edits :
              x.queue = q /\ x.pc = "write" => ~x.row.is_active
=============================================================================
