------------------------- MODULE WorkerServiceProofs -------------------------
(***************************************************************************)
(* Theorems about WorkerService, for every value of the constants.         *)
(***************************************************************************)
EXTENDS WorkerService, FiniteSetTheorems, TLAPS

\* No marker of a missing row is a worker row.
LEMMA MissingIsNoRow == NoWorker \notin WorkerRow /\ GoneWorker \notin WorkerRow
  BY DEF NoWorker, GoneWorker, WorkerRow, WorkerStatus

\* A registered worker has a worker row.
LEMMA RegisteredRow ==
    ASSUME WorkerTypeOK, NEW w \in Workers
    PROVE  Registered(w) <=> workers[w] \in WorkerRow
  BY MissingIsNoRow DEF WorkerTypeOK, Registered

\* The types of the parts, row by row.
LEMMA EditType ==
    ASSUME NEW c \in Editors, NEW pc \in {"insert", "update", "count", "delete"},
           NEW w \in Workers, NEW r \in WorkerRow
    PROVE  [id |-> c, pc |-> pc, worker |-> w, row |-> r] \in Edit
  BY DEF Edit

(***************************************************************************)
(* A request adds one edit of a worker, with a row that validate admits.   *)
(***************************************************************************)
EditBegun(c, w) ==
    \E pc \in {"insert", "update", "count"}, r \in WorkerRow : BeginEdit(c, pc, w, r)

\* A changed copy of a row is a row.
LEMMA StatusEdited ==
    ASSUME NEW r \in WorkerRow, NEW s \in WorkerStatus
    PROVE  [r EXCEPT !.status = s] \in WorkerRow
  BY DEF WorkerRow

LEMMA DrainModeEdited ==
    ASSUME NEW r \in WorkerRow, NEW d \in BOOLEAN
    PROVE  [r EXCEPT !.drain_mode = d] \in WorkerRow
  BY DEF WorkerRow

LEMMA BothEdited ==
    ASSUME NEW r \in WorkerRow, NEW s \in WorkerStatus, NEW d \in BOOLEAN
    PROVE  [r EXCEPT !.drain_mode = d, !.status = s] \in WorkerRow
<1>1. [r EXCEPT !.drain_mode = d] \in WorkerRow
  BY DrainModeEdited
<1>2. [[r EXCEPT !.drain_mode = d] EXCEPT !.status = s] \in WorkerRow
  BY ONLY <1>1, s \in WorkerStatus, StatusEdited
<1>3. QED
  BY <1>2

\* Each request begins a change with a row for its worker.
LEMMA RequestBegins ==
    ASSUME WorkerTypeOK, NEW c \in Editors, NEW w \in Workers, EditRequest(c, w)
    PROVE  EditBegun(c, w)
<1> DEFINE x == workers[w]
<1>1. Registered(w) => x \in WorkerRow
  BY RegisteredRow
<1>2. ASSUME NEW r, PrepareWorker(c, w, r), Registered(w) => r \in WorkerRow
      PROVE  EditBegun(c, w)
  BY <1>2 DEF PrepareWorker, EditBegun
<1>3. ASSUME NEW m \in Capacities, RegisterWorker(c, w, m)
      PROVE  EditBegun(c, w)
  <2>1. NewWorker(m) \in WorkerRow
    BY <1>3 DEF RegisterWorker, IsValidCapacity, NewWorker, WorkerRow, WorkerStatus
  <2>2. QED
    BY <1>3, <2>1 DEF RegisterWorker, EditBegun
<1>4. ASSUME NEW r \in HandedRows, UpdateWorker(c, w, r)
      PROVE  EditBegun(c, w)
  <2>1. r \in WorkerRow
    BY <1>4, WorkerAssumption DEF UpdateWorker, IsValidCapacity, WorkerRow
  <2>2. QED
    BY <1>4, <2>1 DEF UpdateWorker, EditBegun
<1>5. ASSUME NEW s \in WorkerStatus, NEW d \in BOOLEAN,
             \/ PrepareWorker(c, w, [x EXCEPT !.status = s])
             \/ PrepareWorker(c, w, [x EXCEPT !.drain_mode = d, !.status = s])
             \/ PrepareWorker(c, w, x)
      PROVE  EditBegun(c, w)
  <2>1. ASSUME Registered(w)
        PROVE  /\ [x EXCEPT !.status = s] \in WorkerRow
               /\ [x EXCEPT !.drain_mode = d, !.status = s] \in WorkerRow
    BY <1>1, <1>5, <2>1, StatusEdited, BothEdited
  <2>2. CASE PrepareWorker(c, w, [x EXCEPT !.status = s])
    BY <1>2, <2>1, <2>2
  <2>3. CASE PrepareWorker(c, w, [x EXCEPT !.drain_mode = d, !.status = s])
    BY <1>2, <2>1, <2>3
  <2>4. CASE PrepareWorker(c, w, x)
    BY <1>1, <1>2, <2>4
  <2>5. QED
    BY <1>5, <2>2, <2>3, <2>4
<1>6. CASE UpdateWorkerHeartbeat(c, w)
  BY <1>5, <1>6 DEF UpdateWorkerHeartbeat, WorkerStatus
<1>7. CASE \E s \in WorkerTargets : UpdateWorkerStatus(c, w, s)
  BY <1>5, <1>7, WorkerAssumption DEF UpdateWorkerStatus
<1>8. CASE EnterDrainMode(c, w) \/ ExitDrainMode(c, w)
  BY <1>5, <1>8 DEF EnterDrainMode, ExitDrainMode, WorkerStatus
<1>9. CASE DeregisterWorker(c, w)
  BY <1>1, <1>9 DEF DeregisterWorker, EditBegun
<1>10. QED
  BY <1>3, <1>4, <1>6, <1>7, <1>8, <1>9 DEF EditRequest

-----------------------------------------------------------------------------
\* A candidate read from a registered worker, and what its count makes of it.
CountedType(k, a) ==
    [worker |-> a.worker, weight |-> a.weight, load |-> load[a.worker]]

LEMMA CountStep ==
    ASSUME WorkerTypeOK, NEW k \in picks, NEW a \in k.rest, CountLoad(k, a)
    PROVE  \E n \in Pick :
              /\ picks' = (picks \ {k}) \cup {n}
              /\ n.id = k.id
              /\ n.rest \subseteq k.rest
              /\ \/ n.found = k.found
                 \/ /\ n.found = k.found \cup {CountedType(k, a)}
                    /\ load[a.worker] < a.max
<1>1. k \in Pick
  BY DEF WorkerTypeOK
<1>2. a \in Candidate /\ k.rest \subseteq Candidate /\ k.found \subseteq Counted
  BY <1>1 DEF Pick
<1>3. CountedType(k, a) \in Counted
  BY <1>2 DEF CountedType, Counted, Candidate, WorkerTypeOK
<1> DEFINE n == [k EXCEPT !.rest = @ \ {a},
                          !.found = IF load[a.worker] < a.max
                                    THEN @ \cup {CountedType(k, a)}
                                    ELSE @]
<1>4. picks' = (picks \ {k}) \cup {n}
  BY DEF CountLoad, CountedType
<1>5. n.id = k.id /\ n.rest = k.rest \ {a}
      /\ n.found = (IF load[a.worker] < a.max
                    THEN k.found \cup {CountedType(k, a)} ELSE k.found)
  BY <1>1 DEF Pick
<1>6. n \in Pick
  BY <1>1, <1>2, <1>3 DEF Pick
<1>7. QED
  BY <1>4, <1>5, <1>6

\* A choice begins with the rows of registered workers.
LEMMA PickBegins ==
    ASSUME WorkerTypeOK, NEW c \in Pickers, NEW q \in Queues,
           GetAvailableWorkers(c, q)
    PROVE  \E n \in Pick :
              /\ picks' = picks \cup {n}
              /\ n.id = c /\ n.found = {}
              /\ \A a \in n.rest :
                    Registered(a.worker)
                    /\ a.max = workers[a.worker].max_concurrent_jobs
<1> DEFINE asked == {a \in assignments : /\ a.queue = q
                                         /\ <<a.worker, q>> \in CanProcess
                                         /\ Registered(a.worker)
                                         /\ IsAvailable(workers[a.worker])}
           cand(a) == [worker |-> a.worker, weight |-> a.weight,
                       max |-> workers[a.worker].max_concurrent_jobs]
           n == [id |-> c, rest |-> {cand(a) : a \in asked}, found |-> {}]
<1>1. ASSUME NEW a \in asked
      PROVE  cand(a) \in Candidate
  <2>1. a \in Assignment /\ Registered(a.worker)
    BY DEF WorkerTypeOK
  <2>2. a.worker \in Workers /\ a.weight \in Weights
    BY <2>1 DEF Assignment
  <2>3. workers[a.worker].max_concurrent_jobs \in 1..1000
    BY <2>1, <2>2, RegisteredRow DEF WorkerRow
  <2>4. QED
    BY <2>1, <2>2, <2>3 DEF Candidate
<1>2. n \in Pick
  BY <1>1 DEF Pick
<1>3. ASSUME NEW e \in n.rest
      PROVE  Registered(e.worker) /\ e.max = workers[e.worker].max_concurrent_jobs
  <2>1. PICK a \in asked : e = cand(a)
    OBVIOUS
  <2>2. e.worker = a.worker /\ e.max = workers[a.worker].max_concurrent_jobs
    BY <2>1
  <2>3. QED
    BY <2>2
<1>4. picks' = picks \cup {n}
  BY DEF GetAvailableWorkers
<1>5. QED
  BY <1>2, <1>3, <1>4

\* A job is given to a worker that was counted.
LEMMA GivenToCounted ==
    ASSUME NEW k \in picks, GiveJob(k)
    PROVE  /\ picks' = picks \ {k}
           /\ \/ load' = load
              \/ \E a \in k.found : load' = [load EXCEPT ![a.worker] = @ + 1]
<1>1. Selected(k.found) \subseteq k.found
  BY DEF Selected
<1>2. QED
  BY <1>1 DEF GiveJob

-----------------------------------------------------------------------------
(***************************************************************************)
(* Type correctness: every handler leaves well-formed tables.              *)
(***************************************************************************)
\* What a write does to the greatest capacity of a worker.
LEMMA StoreWidens ==
    ASSUME WorkerTypeOK, NEW k \in edits, StoreWorker(k)
    PROVE  /\ widest' \in [Workers -> Nat]
           /\ \A w \in Workers : widest'[w] >= widest[w]
           /\ \/ UNCHANGED <<workers, widest>>
              \/ /\ workers' = [workers EXCEPT ![k.worker] = k.row]
                 /\ widest'[k.worker] >= k.row.max_concurrent_jobs
<1>1. k.worker \in Workers /\ k.row \in WorkerRow
  BY DEF WorkerTypeOK, Edit
<1>2. k.row.max_concurrent_jobs \in Nat
  BY <1>1 DEF WorkerRow
<1>3. widest \in [Workers -> Nat]
  BY DEF WorkerTypeOK
<1>4. QED
  BY <1>1, <1>2, <1>3 DEF StoreWorker

LEMMA EditStepType ==
    ASSUME WorkerTypeOK, NEW k \in edits, EditStep(k)
    PROVE  WorkerTypeOK'
<1>1. k \in Edit /\ k.worker \in Workers /\ k.row \in WorkerRow
  BY DEF WorkerTypeOK, Edit
<1>2. CASE StoreWorker(k)
  <2>1. workers' \in [Workers -> WorkerRow \cup {NoWorker, GoneWorker}]
    BY <1>1, <1>2, StoreWidens DEF WorkerTypeOK
  <2>2. edits' \subseteq edits /\ UNCHANGED <<assignments, load, assigns, picks>>
    BY <1>2 DEF StoreWorker, ReturnEdit
  <2>3. widest' \in [Workers -> Nat]
    BY <1>2, StoreWidens
  <2>4. QED
    BY <2>1, <2>2, <2>3 DEF WorkerTypeOK
<1>3. CASE CountActiveJobs(k)
  <2> DEFINE e == [k EXCEPT !.pc = "delete"]
  <2>1. e \in Edit
    BY <1>1 DEF Edit
  <2>2. edits' \subseteq edits \cup {e}
    BY <1>3 DEF CountActiveJobs
  <2>3. UNCHANGED <<workers, assignments, load, assigns, picks, widest>>
    BY <1>3 DEF CountActiveJobs
  <2>4. edits' \subseteq Edit
    BY <2>1, <2>2 DEF WorkerTypeOK
  <2>5. QED
    BY <2>3, <2>4 DEF WorkerTypeOK
<1>4. CASE DeleteWorker(k)
  <2>1. workers' \in [Workers -> WorkerRow \cup {NoWorker, GoneWorker}]
    BY <1>4 DEF DeleteWorker, WorkerTypeOK
  <2>2. assignments' \subseteq assignments /\ edits' \subseteq edits
        /\ UNCHANGED <<load, assigns, picks, widest>>
    BY <1>4 DEF DeleteWorker, ReturnEdit
  <2>3. QED
    BY <2>1, <2>2 DEF WorkerTypeOK
<1>5. CASE RefuseEdit(k)
  BY <1>5 DEF RefuseEdit, ReturnEdit, WorkerTypeOK
<1>6. QED
  BY <1>2, <1>3, <1>4, <1>5 DEF EditStep

LEMMA PickStepType ==
    ASSUME WorkerTypeOK, NEW k \in picks, PickStep(k)
    PROVE  WorkerTypeOK'
<1>1. CASE \E a \in k.rest : CountLoad(k, a)
  <2>1. PICK a \in k.rest : CountLoad(k, a)
    BY <1>1
  <2>2. picks' \subseteq Pick
    BY <2>1, CountStep DEF WorkerTypeOK
  <2>3. UNCHANGED <<workers, assignments, load, edits, assigns, widest>>
    BY <2>1 DEF CountLoad
  <2>4. QED
    BY <2>2, <2>3 DEF WorkerTypeOK
<1>2. CASE GiveJob(k)
  <2>1. picks' \subseteq picks
    BY <1>2, GivenToCounted
  <2>2. load' \in [Workers -> Nat]
    BY <1>2, GivenToCounted DEF WorkerTypeOK
  <2>3. UNCHANGED <<workers, assignments, edits, assigns, widest>>
    BY <1>2 DEF GiveJob
  <2>4. QED
    BY <2>1, <2>2, <2>3 DEF WorkerTypeOK
<1>3. QED
  BY <1>1, <1>2 DEF PickStep

\* What happens to assignments touches nothing else.
AssignmentStep ==
    \/ \E w \in Workers, q \in Queues :
          \/ \E n \in Weights : AssignWorkerToQueue(w, q, n)
          \/ UnassignWorkerFromQueue(w, q)
    \/ \E a \in assigns : WriteAssignment(a)

LEMMA AssignmentType ==
    ASSUME WorkerTypeOK, AssignmentStep
    PROVE  WorkerTypeOK' /\ UNCHANGED <<workers, load, edits, picks, widest>>
<1>1. ASSUME NEW w \in Workers, NEW q \in Queues, NEW n \in Weights,
             AssignWorkerToQueue(w, q, n)
      PROVE  WorkerTypeOK' /\ UNCHANGED <<workers, load, edits, picks, widest>>
  <2>1. [worker |-> w, queue |-> q, weight |-> n] \in Assignment
    BY DEF Assignment
  <2>2. QED
    BY <1>1, <2>1 DEF AssignWorkerToQueue, WorkerTypeOK
<1>2. ASSUME NEW w \in Workers, NEW q \in Queues, UnassignWorkerFromQueue(w, q)
      PROVE  WorkerTypeOK' /\ UNCHANGED <<workers, load, edits, picks, widest>>
  BY <1>2 DEF UnassignWorkerFromQueue, WorkerTypeOK
<1>3. ASSUME NEW a \in assigns, WriteAssignment(a)
      PROVE  WorkerTypeOK' /\ UNCHANGED <<workers, load, edits, picks, widest>>
  <2>1. a \in Assignment
    BY DEF WorkerTypeOK
  <2>2. QED
    BY <1>3, <2>1 DEF WriteAssignment, WorkerTypeOK
<1>4. QED
  BY <1>1, <1>2, <1>3 DEF AssignmentStep

\* The tables, the changes, the assignments and the choices in flight keep
\* their types, and no worker is assigned to a queue twice.
THEOREM WorkerTypeCorrect == WorkersSpec => []WorkerTypeOK
<1>1. WorkersInit => WorkerTypeOK
  BY DEF WorkersInit, WorkerTypeOK
<1>2. WorkerTypeOK /\ [WorkersNext]_workerVars => WorkerTypeOK'
  <2> SUFFICES ASSUME WorkerTypeOK, [WorkersNext]_workerVars
               PROVE  WorkerTypeOK'
    OBVIOUS
  <2>1. ASSUME NEW c \in Editors, NEW w \in Workers, EditRequest(c, w)
        PROVE  WorkerTypeOK'
    <3>1. PICK pc \in {"insert", "update", "count"}, r \in WorkerRow :
             BeginEdit(c, pc, w, r)
      BY <2>1, RequestBegins DEF EditBegun
    <3>2. [id |-> c, pc |-> pc, worker |-> w, row |-> r] \in Edit
      BY EditType
    <3>3. edits' \subseteq Edit
          /\ UNCHANGED <<workers, assignments, load, assigns, picks, widest>>
      BY <3>1, <3>2 DEF BeginEdit, WorkerTypeOK
    <3>4. QED
      BY <3>3 DEF WorkerTypeOK
  <2>2. ASSUME NEW k \in edits, EditStep(k)
        PROVE  WorkerTypeOK'
    BY <2>2, EditStepType
  <2>3. CASE AssignmentStep
    BY <2>3, AssignmentType
  <2>4. ASSUME NEW c \in Pickers, NEW q \in Queues, GetAvailableWorkers(c, q)
        PROVE  WorkerTypeOK'
    <3>1. picks' \subseteq Pick
      BY <2>4, PickBegins DEF WorkerTypeOK
    <3>2. UNCHANGED <<workers, assignments, load, edits, assigns, widest>>
      BY <2>4 DEF GetAvailableWorkers
    <3>3. QED
      BY <3>1, <3>2 DEF WorkerTypeOK
  <2>5. ASSUME NEW k \in picks, PickStep(k)
        PROVE  WorkerTypeOK'
    BY <2>5, PickStepType
  <2>6. ASSUME NEW w \in Workers, EndJob(w)
        PROVE  WorkerTypeOK'
    <3>1. load' \in [Workers -> Nat]
      BY <2>6 DEF EndJob, WorkerTypeOK
    <3>2. QED
      BY <2>6, <3>1 DEF EndJob, WorkerTypeOK
  <2>7. CASE UNCHANGED workerVars
    BY <2>7 DEF workerVars, WorkerTypeOK
  <2>8. QED
    BY <2>1, <2>2, <2>3, <2>4, <2>5, <2>6, <2>7 DEF WorkersNext, AssignmentStep
<1>3. QED
  BY <1>1, <1>2, PTL DEF WorkersSpec

-----------------------------------------------------------------------------
(***************************************************************************)
(* The load of a worker.  A count is compared with the capacity of an      *)
(* earlier row and the job is given later still: each dispatcher that has  *)
(* found the worker is a job to come, and there is one for each at most.   *)
(***************************************************************************)
LEMMA HoldersCounted ==
    ASSUME NEW w
    PROVE  /\ IsFiniteSet(Holders(w)) /\ Cardinality(Holders(w)) \in Nat
           /\ Cardinality(Holders(w)) <= Cardinality(Pickers)
           /\ Cardinality(Pickers) \in Nat
<1>1. Holders(w) \subseteq Pickers /\ IsFiniteSet(Pickers)
  BY DispatchersAssumption DEF Holders
<1>2. QED
  BY <1>1, FS_Subset, FS_CardinalityType

LEMMA HoldersLater ==
    ASSUME NEW w
    PROVE  /\ Holders(w)' \subseteq Pickers
           /\ IsFiniteSet(Holders(w)') /\ Cardinality(Holders(w)') \in Nat
           /\ Cardinality(Holders(w)') <= Cardinality(Pickers)
<1>1. Holders(w)' \subseteq Pickers /\ IsFiniteSet(Pickers)
  BY DispatchersAssumption DEF Holders
<1>2. QED
  BY <1>1, FS_Subset, FS_CardinalityType

\* A step that touches neither loads nor choices, and narrows no worker.
LEMMA FitsWider ==
    ASSUME WorkerTypeOK, WorkerTypeOK', OverloadInv, UNCHANGED <<load, picks>>,
           \A w \in Workers :
              /\ widest'[w] >= widest[w]
              /\ Registered(w)' => workers'[w].max_concurrent_jobs <= widest'[w]
    PROVE  OverloadInv'
<1>1. \A w \in Workers : widest[w] \in Nat /\ widest'[w] \in Nat /\ load[w] \in Nat
  BY DEF WorkerTypeOK
<1>2. \A k \in picks : \A a \in k.rest : a.worker \in Workers /\ a.max \in Nat
  BY SMTT(30) DEF WorkerTypeOK, Pick, Candidate
<1>3. \A k \in picks : \A a \in k.rest : a.max <= widest'[a.worker]
  BY <1>1, <1>2 DEF OverloadInv
<1>4. ASSUME NEW w \in Workers
      PROVE  load'[w] + Cardinality(Holders(w)') <= widest'[w] + (Cardinality(Pickers) - 1)
  <2>1. Holders(w)' = Holders(w)
    BY DEF Holders
  <2>2. load[w] + Cardinality(Holders(w)) <= widest[w] + (Cardinality(Pickers) - 1)
    BY DEF OverloadInv
  <2>3. QED
    BY <1>1, <2>1, <2>2, HoldersCounted
<1>5. QED
  BY <1>3, <1>4 DEF OverloadInv

LEMMA EditStepFits ==
    ASSUME WorkerTypeOK, WorkerTypeOK', OverloadInv, NEW k \in edits, EditStep(k)
    PROVE  OverloadInv'
<1>1. \A w \in Workers :
        /\ widest[w] \in Nat
        /\ Registered(w) => workers[w].max_concurrent_jobs <= widest[w]
        /\ workers'[w] = workers[w] => (Registered(w)' <=> Registered(w))
  BY DEF WorkerTypeOK, OverloadInv, Registered
<1>2. k.worker \in Workers
  BY DEF WorkerTypeOK, Edit
<1>3. CASE StoreWorker(k)
  <2>1. UNCHANGED <<load, picks>>
    BY <1>3 DEF StoreWorker
  <2>2. \A w \in Workers : widest'[w] >= widest[w]
    BY <1>3, StoreWidens
  <2>3. CASE UNCHANGED <<workers, widest>>
    BY <1>1, <2>1, <2>2, <2>3, FitsWider
  <2>4. CASE /\ workers' = [workers EXCEPT ![k.worker] = k.row]
             /\ widest'[k.worker] >= k.row.max_concurrent_jobs
    <3>1. ASSUME NEW w \in Workers, Registered(w)'
          PROVE  workers'[w].max_concurrent_jobs <= widest'[w]
      <4>1. CASE w = k.worker
        <5>1. workers'[w] = k.row
          BY <1>2, <2>4, <4>1 DEF WorkerTypeOK
        <5>2. k \in Edit /\ widest'[w] \in Nat
          BY DEF WorkerTypeOK
        <5>2a. k.row \in WorkerRow
          BY <5>2 DEF Edit
        <5>2b. k.row.max_concurrent_jobs \in Nat
          BY <5>2a DEF WorkerRow
        <5>3. QED
          BY <2>4, <4>1, <5>1, <5>2, <5>2b
      <4>2. CASE w # k.worker
        <5>1. workers'[w] = workers[w]
          BY <2>4, <4>2 DEF WorkerTypeOK
        <5>1a. Registered(w)
          BY <3>1, <5>1 DEF Registered, NoWorker, GoneWorker
        <5>2. workers[w].max_concurrent_jobs <= widest[w]
          BY <1>1, <5>1a
        <5>2a. workers[w] \in WorkerRow
          BY <5>1a DEF WorkerTypeOK, Registered
        <5>3. workers[w].max_concurrent_jobs \in Nat
          BY <5>2a DEF WorkerRow
        <5>4. widest[w] \in Nat /\ widest'[w] \in Nat /\ widest'[w] >= widest[w]
          BY <2>2 DEF WorkerTypeOK
        <5>5. QED
          BY <5>1, <5>2, <5>3, <5>4
      <4>3. QED
        BY <4>1, <4>2
    <3>2. QED
      BY <2>1, <2>2, <3>1, FitsWider
  <2>5. QED
    BY <1>3, <2>3, <2>4, StoreWidens
<1>4. CASE DeleteWorker(k)
  <2>1. UNCHANGED <<load, picks, widest>>
    BY <1>4 DEF DeleteWorker
  <2>2. \A w \in Workers : Registered(w)' => workers'[w] = workers[w]
    BY <1>2, <1>4 DEF DeleteWorker, WorkerTypeOK, Registered
  <2>3. QED
    BY <1>1, <2>1, <2>2, FitsWider
<1>5. CASE CountActiveJobs(k) \/ RefuseEdit(k)
  <2>1. UNCHANGED <<workers, load, picks, widest>>
    BY <1>5 DEF CountActiveJobs, RefuseEdit
  <2>2. QED
    BY <1>1, <2>1, FitsWider
<1>6. QED
  BY <1>3, <1>4, <1>5 DEF EditStep

\* A count below the capacity leaves room for every dispatcher.
LEMMA CountFits ==
    ASSUME WorkerTypeOK, WorkerTypeOK', OverloadInv,
           NEW k \in picks, NEW a \in k.rest, CountLoad(k, a)
    PROVE  OverloadInv'
<1>1. PICK n \in Pick :
         /\ picks' = (picks \ {k}) \cup {n}
         /\ n.id = k.id
         /\ n.rest \subseteq k.rest
         /\ \/ n.found = k.found
            \/ /\ n.found = k.found \cup {CountedType(k, a)}
               /\ load[a.worker] < a.max
  BY CountStep
<1>2. UNCHANGED <<workers, load, widest>>
  BY DEF CountLoad
<1>3. \A k1, k2 \in picks' : k1.id = k2.id => k1 = k2
  BY <1>1 DEF OverloadInv
<1>4. \A x \in picks' : \A b \in x.rest : b.max <= widest'[b.worker]
  BY <1>1, <1>2 DEF OverloadInv
<1>5. ASSUME NEW w \in Workers
      PROVE  load'[w] + Cardinality(Holders(w)') <= widest'[w] + (Cardinality(Pickers) - 1)
  <2>1. /\ load[w] \in Nat /\ widest[w] \in Nat
        /\ load[w] + Cardinality(Holders(w)) <= widest[w] + (Cardinality(Pickers) - 1)
    BY DEF WorkerTypeOK, OverloadInv
  <2>2. CASE a.worker = w /\ load[a.worker] < a.max
    <3>0. a \in Candidate
      BY DEF WorkerTypeOK, Pick
    <3>1. a.max <= widest[w] /\ a.max \in Nat
      BY <2>2, <3>0 DEF OverloadInv, Candidate
    <3>2. load[w] < a.max
      BY <2>2
    <3>3. load[w] + 1 <= widest[w]
      BY <2>1, <3>1, <3>2
    <3>4. QED
      BY <1>2, <2>1, <3>3, HoldersLater, HoldersCounted
  <2>3. CASE ~ (a.worker = w /\ load[a.worker] < a.max)
    <3>1. CountedType(k, a).worker = a.worker
      BY DEF CountedType
    <3>2. (\E b \in n.found : b.worker = w) => (\E b \in k.found : b.worker = w)
      BY <1>1, <2>3, <3>1
    <3>3. Holders(w)' \subseteq Holders(w)
      BY <1>1, <3>2 DEF Holders
    <3>4. Cardinality(Holders(w)') <= Cardinality(Holders(w))
      BY <3>3, HoldersCounted, FS_Subset
    <3>5. QED
      BY <1>2, <2>1, <3>4, HoldersCounted, HoldersLater
  <2>4. QED
    BY <2>2, <2>3
<1>6. \A w \in Workers : Registered(w)' => workers'[w].max_concurrent_jobs <= widest'[w]
  BY <1>2 DEF OverloadInv, Registered
<1>7. QED
  BY <1>3, <1>4, <1>5, <1>6 DEF OverloadInv

\* The job that is given is the one that was to come.
LEMMA GiftFits ==
    ASSUME WorkerTypeOK, WorkerTypeOK', OverloadInv, NEW k \in picks, GiveJob(k)
    PROVE  OverloadInv'
<1>1. picks' = picks \ {k} /\ UNCHANGED <<workers, widest>>
  BY GivenToCounted DEF GiveJob
<1>2. ASSUME NEW w \in Workers
      PROVE  load'[w] + Cardinality(Holders(w)') <= widest'[w] + (Cardinality(Pickers) - 1)
  <2>1. /\ load[w] \in Nat /\ widest[w] \in Nat
        /\ load[w] + Cardinality(Holders(w)) <= widest[w] + (Cardinality(Pickers) - 1)
    BY DEF WorkerTypeOK, OverloadInv
  <2>2. Holders(w)' \subseteq Holders(w)
    BY <1>1 DEF Holders
  <2>3. Cardinality(Holders(w)') <= Cardinality(Holders(w))
    BY <2>2, HoldersCounted, FS_Subset
  <2>4. CASE load'[w] = load[w]
    BY <1>1, <2>1, <2>3, <2>4, HoldersCounted, HoldersLater
  <2>5. CASE load'[w] # load[w]
    <3>1. PICK a \in k.found : load' = [load EXCEPT ![a.worker] = @ + 1]
      BY <2>5, GivenToCounted
    <3>2. a.worker = w /\ load'[w] = load[w] + 1
      BY <2>1, <2>5, <3>1 DEF WorkerTypeOK
    <3>3. k.id \in Holders(w)
      BY <3>2 DEF Holders, WorkerTypeOK, Pick
    <3>4. k.id \notin Holders(w)'
      BY <1>1 DEF Holders, OverloadInv
    <3>5. Holders(w)' \subseteq Holders(w) \ {k.id}
      BY <2>2, <3>4
    <3>6. /\ IsFiniteSet(Holders(w) \ {k.id})
          /\ Cardinality(Holders(w) \ {k.id}) = Cardinality(Holders(w)) - 1
      BY <3>3, HoldersCounted, FS_RemoveElement
    <3>7. Cardinality(Holders(w)') <= Cardinality(Holders(w)) - 1
      BY <3>5, <3>6, FS_Subset
    <3>8. QED
      BY <1>1, <2>1, <3>2, <3>7, HoldersCounted, HoldersLater
  <2>6. QED
    BY <2>4, <2>5
<1>3. \A w \in Workers : Registered(w)' => workers'[w].max_concurrent_jobs <= widest'[w]
  BY <1>1 DEF OverloadInv, Registered
<1>4. QED
  BY <1>1, <1>2, <1>3 DEF OverloadInv

\* Whatever dispatchers choose at once and whatever capacities change, the load
\* of a worker exceeds its greatest capacity by one job for each other
\* dispatcher at most.
THEOREM OverloadBounded == WorkersSpec => []OverloadIsBounded
<1>1. WorkersInit => OverloadInv
  <2> SUFFICES ASSUME WorkersInit
               PROVE  OverloadInv
    OBVIOUS
  <2>1. picks = {} /\ \A w : Holders(w) = {}
    BY DEF WorkersInit, Holders
  <2>2. Cardinality(Pickers) \in Nat /\ Cardinality(Pickers) # 0
    BY DispatchersAssumption, FS_CardinalityType, FS_EmptySet
  <2>3. \A w \in Workers : /\ ~Registered(w) /\ load[w] = 0 /\ widest[w] = 0
                          /\ Cardinality(Holders(w)) = 0
    BY <2>1, FS_EmptySet DEF WorkersInit, Registered
  <2>4. QED
    BY <2>1, <2>2, <2>3 DEF OverloadInv
<1>2. WorkerTypeOK /\ WorkerTypeOK' /\ OverloadInv /\ [WorkersNext]_workerVars => OverloadInv'
  <2> SUFFICES ASSUME WorkerTypeOK, WorkerTypeOK', OverloadInv, [WorkersNext]_workerVars
               PROVE  OverloadInv'
    OBVIOUS
  <2>1. ASSUME UNCHANGED <<workers, load, picks, widest>>
        PROVE  OverloadInv'
    <3>1. \A w \in Workers : widest[w] \in Nat
      BY DEF WorkerTypeOK
    <3>2. \A w \in Workers : Registered(w)' => workers'[w].max_concurrent_jobs <= widest'[w]
      BY <2>1 DEF OverloadInv, Registered
    <3>3. QED
      BY <2>1, <3>1, <3>2, FitsWider
  <2>2. ASSUME NEW c \in Editors, NEW w \in Workers, EditRequest(c, w)
        PROVE  OverloadInv'
    BY <2>1, <2>2, RequestBegins DEF EditBegun, BeginEdit
  <2>3. ASSUME NEW k \in edits, EditStep(k)
        PROVE  OverloadInv'
    BY <2>3, EditStepFits
  <2>4. CASE AssignmentStep
    BY <2>1, <2>4, AssignmentType
  <2>5. ASSUME NEW c \in Pickers, NEW q \in Queues, GetAvailableWorkers(c, q)
        PROVE  OverloadInv'
    <3>1. PICK n \in Pick :
             /\ picks' = picks \cup {n}
             /\ n.id = c /\ n.found = {}
             /\ \A a \in n.rest :
                   Registered(a.worker)
                   /\ a.max = workers[a.worker].max_concurrent_jobs
      BY <2>5, PickBegins
    <3>2. UNCHANGED <<workers, load, widest>> /\ \A k \in picks : k.id # c
      BY <2>5 DEF GetAvailableWorkers, PickerIdle
    <3>3. \A a \in n.rest : a.worker \in Workers /\ a.max <= widest[a.worker]
      BY <3>1 DEF Pick, Candidate, OverloadInv
    <3>4. \A w : Holders(w)' = Holders(w)
      BY <3>1 DEF Holders
    <3>5. \A k1, k2 \in picks' : k1.id = k2.id => k1 = k2
      BY <3>1, <3>2 DEF OverloadInv
    <3>6. \A k \in picks' : \A a \in k.rest : a.max <= widest'[a.worker]
      BY <3>1, <3>2, <3>3 DEF OverloadInv
    <3>7. QED
      BY <3>2, <3>4, <3>5, <3>6 DEF OverloadInv, Registered
  <2>6. ASSUME NEW k \in picks, PickStep(k)
        PROVE  OverloadInv'
    BY <2>6, CountFits, GiftFits DEF PickStep
  <2>7. ASSUME NEW v \in Workers, EndJob(v)
        PROVE  OverloadInv'
    <3>1. UNCHANGED <<workers, picks, widest>> /\ \A w : Holders(w)' = Holders(w)
      BY <2>7 DEF EndJob, Holders
    <3>2. \A w \in Workers : /\ load[w] \in Nat /\ load'[w] \in Nat /\ load'[w] <= load[w]
                            /\ widest[w] \in Nat
      BY <2>7 DEF EndJob, WorkerTypeOK
    <3>3. ASSUME NEW w \in Workers
          PROVE  load'[w] + Cardinality(Holders(w)')
                    <= widest'[w] + (Cardinality(Pickers) - 1)
      <4>1. load[w] + Cardinality(Holders(w)) <= widest[w] + (Cardinality(Pickers) - 1)
        BY DEF OverloadInv
      <4>2. QED
        BY <3>1, <3>2, <4>1, HoldersCounted
    <3>4. QED
      BY <3>1, <3>3 DEF OverloadInv, Registered
  <2>8. CASE UNCHANGED workerVars
    BY <2>1, <2>8 DEF workerVars
  <2>9. QED
    BY <2>2, <2>3, <2>4, <2>5, <2>6, <2>7, <2>8 DEF WorkersNext, AssignmentStep
<1>3. WorkerTypeOK /\ OverloadInv => OverloadIsBounded
  <2> SUFFICES ASSUME WorkerTypeOK, OverloadInv, NEW w \in Workers
               PROVE  load[w] <= widest[w] + (Cardinality(Pickers) - 1)
    BY DEF OverloadIsBounded
  <2>1. load[w] + Cardinality(Holders(w)) <= widest[w] + (Cardinality(Pickers) - 1)
        /\ load[w] \in Nat /\ widest[w] \in Nat
    BY DEF OverloadInv, WorkerTypeOK
  <2>2. QED
    BY <2>1, HoldersCounted
<1>4. QED
  BY <1>1, <1>2, <1>3, WorkerTypeCorrect, PTL DEF WorkersSpec
=============================================================================
