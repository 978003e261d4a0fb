--------------------------- MODULE WorkerService ---------------------------
(***************************************************************************)
(* WorkerService (src/services/worker_service.rs) over the tables of       *)
(* workers and of their assignments to queues, with dispatchers that ask   *)
(* it for a worker and give that worker a job.                             *)
(*                                                                         *)
(* Handlers that change a worker read its row, change the copy and write   *)
(* the whole row back: a record of "edits" until they return.  An          *)
(* assignment reads the rows of its worker and of its queue and is written *)
(* later: a record of "assigns".  The choice of a worker reads the rows of *)
(* the assigned workers, then counts the load of each in a query of its    *)
(* own: a record of "picks".                                               *)
(***************************************************************************)
EXTENDS Worker, FiniteSetsExt

CONSTANTS
    Workers,        \* worker ids
    Queues,         \* queue ids
    SameOrg,        \* the pairs of a worker and a queue of one organization
    CanProcess,     \* the pairs of which can_process_queue holds
    Editors,        \* ids of the changes that may be in flight together
    Pickers,        \* ids of the dispatchers
    Capacities,     \* the max_concurrent_jobs that workers ask to register with
    HandedRows,     \* the rows that callers of update_worker hand over
    Weights,        \* the weights of assignments
    WorkerTargets   \* the statuses update_worker_status is asked for

ASSUME WorkerAssumption ==
    /\ SameOrg \subseteq Workers \X Queues
    /\ CanProcess \subseteq Workers \X Queues
    /\ Capacities \subseteq Nat
    /\ HandedRows \subseteq [status              : WorkerStatus,
                              drain_mode          : BOOLEAN,
                              max_concurrent_jobs : Nat]
    /\ Weights \subseteq Int
    /\ WorkerTargets \subseteq WorkerStatus

ASSUME DispatchersAssumption == IsFiniteSet(Pickers) /\ Pickers # {}

VARIABLES
    workers,      \* workers[w]: the row of worker w, NoWorker or GoneWorker
    assignments,  \* the assignments of workers to queues
    load,         \* load[w]: the jobs that w holds, which the counts return
    edits,        \* the changes of a worker in flight
    assigns,      \* the assignments in flight, whose worker has been read
    picks,        \* the choices of a worker in flight
    widest        \* history: the greatest max_concurrent_jobs w's row has had

workerVars == <<workers, assignments, load, edits, assigns, picks, widest>>

-----------------------------------------------------------------------------
NoWorker == [status |-> "Absent"]

\* The ids of deregistered workers are not used again.
GoneWorker == [status |-> "Gone"]

Registered(w) == workers[w] \notin {NoWorker, GoneWorker}

Assignment == [worker : Workers, queue : Queues, weight : Weights]

\* What a change waits for: the insert, the update, the count of the active
\* jobs and the delete.
Edit == [id     : Editors,
         pc     : {"insert", "update", "count", "delete"},
         worker : Workers,
         row    : WorkerRow]

\* A worker that may be chosen, with the load that was counted.
Candidate == [worker : Workers, weight : Weights, max : 1..1000]

Counted == [worker : Workers, weight : Weights, load : Nat]

\* Candidates still to count, and those found under their capacity.
Pick == [id : Pickers, rest : SUBSET Candidate, found : SUBSET Counted]

EditorIdle(c) == \A k \in edits : k.id # c

PickerIdle(c) == \A k \in picks : k.id # c

BeginEdit(c, pc, w, r) ==
    /\ EditorIdle(c)
    /\ edits' = edits \cup {[id |-> c, pc |-> pc, worker |-> w, row |-> r]}
    /\ UNCHANGED <<workers, assignments, load, assigns, picks, widest>>

\* A change that has read the row of w and will write r in its place.
PrepareWorker(c, w, r) ==
    /\ Registered(w)
    /\ BeginEdit(c, "update", w, r)

ReturnEdit(k) == edits' = edits \ {k}

-----------------------------------------------------------------------------
(***************************************************************************)
(* The handlers that change a worker.                                      *)
(***************************************************************************)
\* Mutant of RegisterWorker: validate is not called.
RegisterUnvalidated(c, w, m) ==
    /\ workers[w] = NoWorker
    /\ \A k \in edits : k.worker # w
    /\ BeginEdit(c, "insert", w, NewWorker(m))

RegisterWorker(c, w, m) ==
    /\ workers[w] = NoWorker
    /\ \A k \in edits : k.worker # w
    /\ IsValidCapacity(m)
    /\ BeginEdit(c, "insert", w, NewWorker(m))

\* update_worker reads no row: it writes the one its caller hands over.
UpdateWorker(c, w, r) ==
    /\ IsValidCapacity(r.max_concurrent_jobs)
    /\ BeginEdit(c, "update", w, r)

UpdateWorkerStatus(c, w, s) ==
    PrepareWorker(c, w, [workers[w] EXCEPT !.status = s])

\* Of the workers that send heartbeats, only an Offline one becomes Online.
UpdateWorkerHeartbeat(c, w) ==
    PrepareWorker(c, w, IF workers[w].status = "Offline"
                        THEN [workers[w] EXCEPT !.status = "Online"]
                        ELSE workers[w])

EnterDrainMode(c, w) ==
    PrepareWorker(c, w, [workers[w] EXCEPT !.drain_mode = TRUE,
                                           !.status = "Draining"])

ExitDrainMode(c, w) ==
    PrepareWorker(c, w, [workers[w] EXCEPT !.drain_mode = FALSE,
                                           !.status = "Online"])

\* db.create_worker / db.update_worker: one row is inserted or replaced; the
\* update of a row that has gone meanwhile answers RowNotFound.
StoreWorker(k) ==
    /\ k.pc \in {"insert", "update"}
    /\ IF k.pc = "insert" \/ Registered(k.worker)
       THEN /\ workers' = [workers EXCEPT ![k.worker] = k.row]
            /\ widest' = [widest EXCEPT ![k.worker] =
                             IF k.row.max_concurrent_jobs > @
                             THEN k.row.max_concurrent_jobs ELSE @]
       ELSE UNCHANGED <<workers, widest>>
    /\ ReturnEdit(k)
    /\ UNCHANGED <<assignments, load, assigns, picks>>

\* can_access_worker refuses the change, or a database call of it fails: it
\* returns without a write.
RefuseEdit(k) ==
    /\ ReturnEdit(k)
    /\ UNCHANGED <<workers, assignments, load, assigns, picks, widest>>

(***************************************************************************)
(* deregister_worker: read the row, count the active jobs, delete.         *)
(***************************************************************************)
DeregisterWorker(c, w) ==
    /\ Registered(w)
    /\ BeginEdit(c, "count", w, workers[w])

CountActiveJobs(k) ==
    /\ k.pc = "count"
    /\ edits' = (edits \ {k}) \cup
                (IF load[k.worker] > 0 THEN {} ELSE {[k EXCEPT !.pc = "delete"]})
    /\ UNCHANGED <<workers, assignments, load, assigns, picks, widest>>

\* db.delete_worker takes the assignments of the worker along that are there.
DeleteWorker(k) ==
    /\ k.pc = "delete"
    /\ workers' = [workers EXCEPT ![k.worker] = GoneWorker]
    /\ assignments' = {a \in assignments : a.worker # k.worker}
    /\ ReturnEdit(k)
    /\ UNCHANGED <<load, assigns, picks, widest>>

(***************************************************************************)
(* Assignments.  The organizations of a worker and of a queue never        *)
(* change, and a pair is assigned once.                                    *)
(***************************************************************************)
\* assign_worker_to_queue has read the worker and the queue.
AssignWorkerToQueue(w, q, n) ==
    /\ Registered(w)
    /\ <<w, q>> \in SameOrg
    /\ assigns' = assigns \cup {[worker |-> w, queue |-> q, weight |-> n]}
    /\ UNCHANGED <<workers, assignments, load, edits, picks, widest>>

\* It writes the assignment, whose worker may be gone by then, or fails.
WriteAssignment(a) ==
    /\ assigns' = assigns \ {a}
    /\ \/ /\ \A b \in assignments : ~ (b.worker = a.worker /\ b.queue = a.queue)
          /\ assignments' = assignments \cup {a}
       \/ UNCHANGED assignments
    /\ UNCHANGED <<workers, load, edits, picks, widest>>

UnassignWorkerFromQueue(w, q) ==
    /\ \E a \in assignments : a.worker = w /\ a.queue = q
    /\ assignments' = {a \in assignments : ~ (a.worker = w /\ a.queue = q)}
    /\ UNCHANGED <<workers, load, edits, assigns, picks, widest>>

-----------------------------------------------------------------------------
(***************************************************************************)
(* get_next_available_worker: the rows of the workers assigned to q are    *)
(* read at once, those that are available are counted one by one.          *)
(***************************************************************************)
\* Mutant of GetAvailableWorkers: a draining worker is asked too.
GetAssignedWorkers(c, q) ==
    /\ PickerIdle(c)
    /\ LET asked == {a \in assignments : /\ a.queue = q
                                         /\ <<a.worker, q>> \in CanProcess
                                         /\ Registered(a.worker)}
       IN  picks' = picks \cup
             {[id |-> c,
               rest |-> {[worker |-> a.worker, weight |-> a.weight,
                          max |-> workers[a.worker].max_concurrent_jobs] : a \in asked},
               found |-> {}]}
    /\ UNCHANGED <<workers, assignments, load, edits, assigns, widest>>

GetAvailableWorkers(c, q) ==
    /\ PickerIdle(c)
    /\ LET asked == {a \in assignments : /\ a.queue = q
                                         /\ <<a.worker, q>> \in CanProcess
                                         /\ Registered(a.worker)
                                         /\ IsAvailable(workers[a.worker])}
       IN  picks' = picks \cup
             {[id |-> c,
               rest |-> {[worker |-> a.worker, weight |-> a.weight,
                          max |-> workers[a.worker].max_concurrent_jobs] : a \in asked},
               found |-> {}]}
    /\ UNCHANGED <<workers, assignments, load, edits, assigns, widest>>

\* Mutant of CountLoad: a worker at its capacity is under it.
CountFullLoad(k, a) ==
    /\ picks' = (picks \ {k}) \cup
         {[k EXCEPT !.rest = @ \ {a},
                    !.found = IF load[a.worker] <= a.max
                              THEN @ \cup {[worker |-> a.worker, weight |-> a.weight,
                                            load |-> load[a.worker]]}
                              ELSE @]}
    /\ UNCHANGED <<workers, assignments, load, edits, assigns, widest>>

CountLoad(k, a) ==
    /\ picks' = (picks \ {k}) \cup
         {[k EXCEPT !.rest = @ \ {a},
                    !.found = IF load[a.worker] < a.max
                              THEN @ \cup {[worker |-> a.worker, weight |-> a.weight,
                                            load |-> load[a.worker]]}
                              ELSE @]}
    /\ UNCHANGED <<workers, assignments, load, edits, assigns, widest>>

\* Without weights the first in the order of the database, else one of the
\* least load: the weights have no other part.
Selected(found) ==
    IF MapThenSumSet(LAMBDA a : a.weight, found) = 0
    THEN found
    ELSE {a \in found : \A b \in found : a.load <= b.load}

\* The dispatcher gives the worker it was told a job; told None, it returns.
GiveJob(k) ==
    /\ k.rest = {}
    /\ picks' = picks \ {k}
    /\ \/ /\ k.found = {}
          /\ UNCHANGED load
       \/ \E a \in Selected(k.found) :
             load' = [load EXCEPT ![a.worker] = @ + 1]
    /\ UNCHANGED <<workers, assignments, edits, assigns, widest>>

\* A job of w is done.
EndJob(w) ==
    /\ load[w] > 0
    /\ load' = [load EXCEPT ![w] = @ - 1]
    /\ UNCHANGED <<workers, assignments, edits, assigns, picks, widest>>

-----------------------------------------------------------------------------
WorkersInit ==
    /\ workers = [w \in Workers |-> NoWorker]
    /\ assignments = {}
    /\ load = [w \in Workers |-> 0]
    /\ edits = {}
    /\ assigns = {}
    /\ picks = {}
    /\ widest = [w \in Workers |-> 0]

EditRequest(c, w) ==
    \/ \E m \in Capacities : RegisterWorker(c, w, m)
    \/ \E r \in HandedRows : UpdateWorker(c, w, r)
    \/ \E s \in WorkerTargets : UpdateWorkerStatus(c, w, s)
    \/ UpdateWorkerHeartbeat(c, w)
    \/ EnterDrainMode(c, w)
    \/ ExitDrainMode(c, w)
    \/ DeregisterWorker(c, w)

EditStep(k) ==
    \/ StoreWorker(k)
    \/ RefuseEdit(k)
    \/ CountActiveJobs(k)
    \/ DeleteWorker(k)

PickStep(k) ==
    \/ \E a \in k.rest : CountLoad(k, a)
    \/ GiveJob(k)

WorkersNext ==
    \/ \E c \in Editors, w \in Workers : EditRequest(c, w)
    \/ \E k \in edits : EditStep(k)
    \/ \E w \in Workers, q \in Queues :
          \/ \E n \in Weights : AssignWorkerToQueue(w, q, n)
          \/ UnassignWorkerFromQueue(w, q)
    \/ \E a \in assigns : WriteAssignment(a)
    \/ \E c \in Pickers, q \in Queues : GetAvailableWorkers(c, q)
    \/ \E k \in picks : PickStep(k)
    \/ \E w \in Workers : EndJob(w)

WorkersSpec == WorkersInit /\ [][WorkersNext]_workerVars

\* Calls in flight go on, and a job that runs ends.
WorkersFairness ==
    /\ \A c \in Editors : WF_workerVars(\E k \in edits : k.id = c /\ EditStep(k))
    /\ \A c \in Pickers : WF_workerVars(\E k \in picks : k.id = c /\ PickStep(k))
    /\ \A w \in Workers : WF_workerVars(EndJob(w))

FairWorkersSpec == WorkersSpec /\ WorkersFairness

-----------------------------------------------------------------------------
(***************************************************************************)
(* Properties                                                              *)
(***************************************************************************)

\* The tables hold well-formed rows, and at most one assignment of a worker to
\* a queue.  An assignment may outlive its worker.
WorkerTypeOK ==
    /\ workers \in [Workers -> WorkerRow \cup {NoWorker, GoneWorker}]
    /\ assignments \subseteq Assignment
    /\ load \in [Workers -> Nat]
    /\ edits \subseteq Edit
    /\ assigns \subseteq Assignment
    /\ picks \subseteq Pick
    /\ widest \in [Workers -> Nat]
    /\ \A a, b \in assignments :
          a.worker = b.worker /\ a.queue = b.queue => a = b

\* However many dispatchers choose at once, from rows and loads that each read
\* at different moments, and however the capacities change meanwhile, a worker
\* holds at most one job for each other dispatcher beyond the greatest
\* capacity it ever had: each gives one job for one count below a capacity
\* (get_available_workers, worker_service.rs:281; two dispatchers do pass
\* max_concurrent_jobs).
OverloadIsBounded ==
    \A w \in Workers : load[w] <= widest[w] + (Cardinality(Pickers) - 1)

\* The inductive invariant behind it: a dispatcher that has found the worker
\* will add a job, for which there is room; it reads capacities that the worker
\* has had, and makes one choice at a time.
Holders(w) ==
    {c \in Pickers : \E k \in picks : k.id = c /\ \E a \in k.found : a.worker = w}

OverloadInv ==
    /\ \A k1, k2 \in picks : k1.id = k2.id => k1 = k2
    /\ \A k \in picks : \A a \in k.rest : a.max <= widest[a.worker]
    /\ \A w \in Workers :
          /\ Registered(w) => workers[w].max_concurrent_jobs <= widest[w]
          /\ load[w] + Cardinality(Holders(w)) <= widest[w] + (Cardinality(Pickers) - 1)

\* A worker whose status stays Draining gives back all its jobs and receives
\* no more, whatever heartbeats and other changes are in flight
\* (enter_drain_mode, worker_service.rs:125; PRD.MD:177).
DrainEmpties ==
    \A w \in Workers :
        <>[](workers[w].status = "Draining") => <>[](load[w] = 0)
=============================================================================
