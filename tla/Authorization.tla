---------------------------- MODULE Authorization ----------------------------
(***************************************************************************)
(* AuthorizationService (src/services/authorization_service.rs): whose a   *)
(* resource is, and which resources are whose.  A resource belongs to the  *)
(* organization of its project: a job by way of its queue.                 *)
(*                                                                         *)
(* The rows are read one by one.  Queues and workers come and go, jobs     *)
(* come and move and users change organization in between.  An id that was *)
(* deleted does not come back.  No project and no user is ever deleted.    *)
(***************************************************************************)
EXTENDS FiniteSets, Naturals

CONSTANTS
    Callers,                 \* ids of the users who ask
    Organizations,           \* organization ids
    Projects, ProjectOrg,    \* project ids; ProjectOrg[p]: whose p is
    WorkerIds, WorkerProject,  \* worker ids; WorkerProject[w]: where w works
    QueueIds, QueueProject,  \* queue ids; QueueProject[q]: where q belongs
    JobIds,                  \* job ids
    MaxPuts,                 \* bound: jobs being written at a time
    None                     \* no queue

ASSUME AuthorizationAssumption ==
    /\ ProjectOrg \in [Projects -> Organizations]
    /\ WorkerProject \in [WorkerIds -> Projects]
    /\ QueueProject \in [QueueIds -> Projects]
    /\ QueueIds \cap WorkerIds = {}
    /\ JobIds \cap (QueueIds \cup WorkerIds \cup Projects) = {}
    /\ Projects \cap (QueueIds \cup WorkerIds) = {}
    /\ None \notin QueueIds \cup WorkerIds

VARIABLES
    home,       \* home[u]: the organization in the row of user u
    there,      \* the queues and the workers that have a row
    gone,       \* those whose row was deleted
    jobQueue,   \* jobQueue[j]: the queue of job j, or None
    puts,       \* the jobs being written, whose queue has been looked up
    walks,      \* the check_*_access or can_access_* call in flight, if any
    listing,    \* the get_user_accessible_resources call in flight, if any
    reached,    \* history: what belonged to its organization at some moment of it
    stayed,     \* history: the jobs that were not moved and have been its
                \* organization's since it began
    late        \* history: the jobs written since it began to a queue then gone

tables == <<home, there, gone, jobQueue, puts>>

accessVars == <<tables, walks, listing, reached, stayed, late>>

Rows == QueueIds \cup WorkerIds

Resources == JobIds \cup Rows \cup Projects

ProjectOf(x) == IF x \in QueueIds THEN QueueProject[x] ELSE WorkerProject[x]

Compared(p, org) == IF ProjectOrg[p] = org THEN "granted" ELSE "denied"

Answer == {"granted", "denied", "missing"}

\* Whether x is org's, were all rows read at this moment.
Verdict(org, x) ==
    LET row == IF x \in JobIds THEN jobQueue[x] ELSE x IN
    IF x \in Projects THEN Compared(x, org)
    ELSE IF row \in there THEN Compared(ProjectOf(row), org)
    ELSE "missing"

BelongsTo(org) == {x \in JobIds \cup Rows : Verdict(org, x) = "granted"}

\* Readers do not see one another: one at a time is enough.
NobodyReads == walks = {} /\ listing = {}

-----------------------------------------------------------------------------
(***************************************************************************)
(* check_resource_access ("check"), this service's can_access_* ("can") and *)
(* those of the job, the queue and the worker service ("service"): job,    *)
(* queue or worker, project, and for can_access_* the user, who says with  *)
(* which organization to compare.  History: "seen" are the answers that    *)
(* one read of everything would have given at some moment of the call,     *)
(* "moved" whether its job or its user was moved.                          *)
(***************************************************************************)
Walk == [by     : {"check", "can", "service"},
         caller : Callers,
         org    : Organizations,
         asked  : Resources,
         pc     : {"job", "row", "project", "user", "answered"},
         at     : Resources,
         answer : Answer,
         seen   : SUBSET Answer,
         moved  : BOOLEAN]

\* The organization that the call compares with, or would now.
OrgOf(k) == IF k.by = "check" THEN k.org ELSE home[k.caller]

FirstRow(x) ==
    IF x \in JobIds THEN "job" ELSE IF x \in Rows THEN "row" ELSE "project"

BeginWalk(by, u, o, x) ==
    /\ NobodyReads
    /\ walks' = {[by |-> by, caller |-> u, org |-> o, asked |-> x,
                  pc |-> FirstRow(x), at |-> x, answer |-> "missing",
                  seen |-> {Verdict(o, x)}, moved |-> FALSE]}
    /\ UNCHANGED <<tables, listing, reached, stayed, late>>

\* It is told the organization.
CheckResourceAccess(u, o, x) == BeginWalk("check", u, o, x)

\* There is none for a project.
CanAccess(u, x) == x \notin Projects /\ BeginWalk("can", u, home[u], x)

\* The methods of the same names in the other services.
CanAccessJob(u, x) == x \in JobIds /\ BeginWalk("service", u, home[u], x)

CanAccessQueue(u, x) == x \in QueueIds /\ BeginWalk("service", u, home[u], x)

CanAccessWorker(u, x) == x \in WorkerIds /\ BeginWalk("service", u, home[u], x)

WalkOn(k2) ==
    /\ walks' = {k2}
    /\ UNCHANGED <<tables, listing, reached, stayed, late>>

\* To the other services what is missing is nobody's.
Told(by, a) == IF by = "service" /\ a = "missing" THEN "denied" ELSE a

Answers(k, a) == WalkOn([k EXCEPT !.pc = "answered", !.answer = Told(k.by, a)])

ReadJobRow(k) ==
    /\ k.pc = "job"
    /\ IF jobQueue[k.at] = None
       THEN Answers(k, "missing")
       ELSE WalkOn([k EXCEPT !.pc = "row", !.at = jobQueue[k.at]])

\* Mutant of ReadRow: nobody asks whether there is one.
ReadRowBlindly(k) ==
    /\ k.pc = "row"
    /\ WalkOn([k EXCEPT !.pc = "project", !.at = ProjectOf(k.at)])

\* The row of a queue or of a worker.
ReadRow(k) ==
    /\ k.pc = "row"
    /\ IF k.at \notin there
       THEN Answers(k, "missing")
       ELSE WalkOn([k EXCEPT !.pc = "project", !.at = ProjectOf(k.at)])

ReadProject(k) ==
    /\ k.pc = "project"
    /\ IF k.by = "check"
       THEN Answers(k, Compared(k.at, k.org))
       ELSE WalkOn([k EXCEPT !.pc = "user"])

ReadUserRow(k) ==
    /\ k.pc = "user"
    /\ Answers(k, Compared(k.at, home[k.caller]))

\* The call returns, or a read of it fails.
EndWalk(k) ==
    /\ walks' = {}
    /\ UNCHANGED <<tables, listing, reached, stayed, late>>

-----------------------------------------------------------------------------
(***************************************************************************)
(* get_user_accessible_resources: the user, the projects of the user's     *)
(* organization, then the queues of each, the workers of each, the jobs of *)
(* each queue.                                                             *)
(***************************************************************************)
ListingRow ==
    [org : Organizations, stage : {"projects", "queues", "workers", "jobs", "done"},
     projects : SUBSET Projects, rest : SUBSET (Projects \cup QueueIds),
     queues : SUBSET QueueIds, workers : SUBSET WorkerIds, jobs : SUBSET JobIds]

BeginListing(u) ==
    /\ NobodyReads
    /\ listing' = {[org |-> home[u], stage |-> "projects", projects |-> {},
                    rest |-> {}, queues |-> {}, workers |-> {}, jobs |-> {}]}
    /\ reached' = BelongsTo(home[u])
    /\ stayed' = {j \in JobIds : Verdict(home[u], j) = "granted"}
    /\ UNCHANGED <<tables, walks, late>>

ListingGoesOn(l2) ==
    /\ listing' = {l2}
    /\ UNCHANGED <<tables, walks, reached, stayed, late>>

ListProjects(l) ==
    /\ l.stage = "projects"
    /\ LET projects == {p \in Projects : ProjectOrg[p] = l.org} IN
       ListingGoesOn([l EXCEPT !.stage = "queues", !.projects = projects,
                               !.rest = projects])

\* The loops that come after the one that is done.
Turned(l, l2) ==
    CASE l.stage = "queues"  -> [l2 EXCEPT !.stage = "workers", !.rest = l.projects]
      [] l.stage = "workers" -> [l2 EXCEPT !.stage = "jobs", !.rest = l.queues]
      [] l.stage = "jobs"    -> [l2 EXCEPT !.stage = "done", !.rest = {}]

\* The next project, or queue, x of the loop of this stage is done.
Listed(l, l2, x) ==
    ListingGoesOn(IF l.rest = {x} THEN Turned(l, l2)
                  ELSE [l2 EXCEPT !.rest = l.rest \ {x}])

OfProject(p, rows) == {x \in rows \cap there : ProjectOf(x) = p}

ListQueues(l, p) ==
    /\ l.stage = "queues"
    /\ Listed(l, [l EXCEPT !.queues = @ \cup OfProject(p, QueueIds)], p)

ListWorkers(l, p) ==
    /\ l.stage = "workers"
    /\ Listed(l, [l EXCEPT !.workers = @ \cup OfProject(p, WorkerIds)], p)

\* Mutant of ListJobs: the jobs of the first queue are all the jobs.
ListJobsOnce(l, q) ==
    /\ l.stage = "jobs"
    /\ Listed([l EXCEPT !.rest = {q}],
              [l EXCEPT !.jobs = {j \in JobIds : jobQueue[j] = q}], q)

ListJobs(l, q) ==
    /\ l.stage = "jobs"
    /\ Listed(l, [l EXCEPT !.jobs = @ \cup {j \in JobIds : jobQueue[j] = q}], q)

\* The call returns, also when a loop has nothing to go through, or when a
\* read of it fails.
EndListing ==
    /\ listing' = {}
    /\ reached' = {}
    /\ stayed' = {}
    /\ late' = {}
    /\ UNCHANGED <<tables, walks>>

-----------------------------------------------------------------------------
\* What others change meanwhile: jobs are moved, or u changes organization.
Meanwhile(moved, u) ==
    /\ walks' = {[k EXCEPT !.seen = @ \cup {Verdict(OrgOf(k), k.asked)'},
                           !.moved = @ \/ k.asked \in moved
                                       \/ (k.by # "check" /\ k.caller = u)] : k \in walks}
    /\ reached' = reached \cup UNION {BelongsTo(l.org)' : l \in listing}
    /\ stayed' = {j \in stayed \ moved :
                     \A l \in listing : Verdict(l.org, j)' = "granted"}
    /\ UNCHANGED listing

\* A queue or a worker is created, under a new id.
CreateRow(x) ==
    /\ x \notin there \cup gone
    /\ there' = there \cup {x}
    /\ UNCHANGED <<home, gone, jobQueue, puts, late>>
    /\ Meanwhile({}, None)

DeleteRow(x) ==
    /\ x \in there
    /\ there' = there \ {x}
    /\ gone' = gone \cup {x}
    /\ UNCHANGED <<home, jobQueue, puts, late>>
    /\ Meanwhile({}, None)

\* create_job, or a move to a dead letter queue, has looked the queue up.
LookUpQueue(j, q) ==
    /\ Cardinality(puts) < MaxPuts
    /\ q \in there
    /\ puts' = puts \cup {[job |-> j, queue |-> q]}
    /\ UNCHANGED <<home, there, gone, jobQueue, walks, listing, reached, stayed, late>>

\* It writes the job, whether the queue is still there or not, or fails.
PutJob(x) ==
    /\ puts' = puts \ {x}
    /\ UNCHANGED <<home, there, gone>>
    /\ \/ /\ jobQueue' = [jobQueue EXCEPT ![x.job] = x.queue]
          /\ late' = IF listing # {} /\ x.queue \in gone THEN late \cup {x.job} ELSE late
          /\ Meanwhile({x.job}, None)
       \/ UNCHANGED <<jobQueue, walks, listing, reached, stayed, late>>

MoveUser(u, o) ==
    /\ home' = [home EXCEPT ![u] = o]
    /\ UNCHANGED <<there, gone, jobQueue, puts, late>>
    /\ Meanwhile({}, u)

-----------------------------------------------------------------------------
AccessInit ==
    /\ home \in [Callers -> Organizations]
    /\ there = {}
    /\ gone = {}
    /\ jobQueue = [j \in JobIds |-> None]
    /\ puts = {}
    /\ walks = {}
    /\ listing = {}
    /\ reached = {}
    /\ stayed = {}
    /\ late = {}

ReaderNext ==
    \/ \E u \in Callers, x \in Resources :
          \/ \E o \in Organizations : CheckResourceAccess(u, o, x)
          \/ CanAccess(u, x)
          \/ CanAccessJob(u, x)
          \/ CanAccessQueue(u, x)
          \/ CanAccessWorker(u, x)
    \/ \E k \in walks : \/ ReadJobRow(k)
                        \/ ReadRow(k)
                        \/ ReadProject(k)
                        \/ ReadUserRow(k)
                        \/ EndWalk(k)
    \/ \E u \in Callers : BeginListing(u)
    \/ \E l \in listing :
          \/ ListProjects(l)
          \/ \E x \in l.rest : ListQueues(l, x) \/ ListWorkers(l, x) \/ ListJobs(l, x)
          \/ EndListing

WriterNext ==
    \/ \E x \in Rows : CreateRow(x) \/ DeleteRow(x)
    \/ \E j \in JobIds, q \in QueueIds : LookUpQueue(j, q)
    \/ \E x \in puts : PutJob(x)
    \/ \E u \in Callers, o \in Organizations : MoveUser(u, o)

AccessNext == ReaderNext \/ WriterNext

AccessSpec == AccessInit /\ [][AccessNext]_accessVars

-----------------------------------------------------------------------------
(***************************************************************************)
(* Properties                                                              *)
(***************************************************************************)

\* The type invariant: no job is in a queue, or on its way to one, that never
\* had a row.
AccessTypeOK ==
    /\ home \in [Callers -> Organizations]
    /\ there \subseteq Rows
    /\ gone \subseteq Rows \ there
    /\ jobQueue \in [JobIds -> (QueueIds \cap (there \cup gone)) \cup {None}]
    /\ puts \subseteq [job : JobIds, queue : QueueIds \cap (there \cup gone)]
    /\ walks \subseteq Walk
    /\ listing \subseteq ListingRow

\* What a walk has found so far is what one read would have shown at some
\* moment of it.
OnTheWay(k) ==
    /\ Verdict(OrgOf(k), k.asked) \in k.seen
    /\ k.pc = "job" => k.at = k.asked /\ k.asked \in JobIds
    /\ k.pc = "row" =>
          /\ k.at \in Rows
          /\ k.asked \notin JobIds => k.at = k.asked
          /\ k.asked \in JobIds =>
                /\ k.at \in there \cup gone
                /\ ~k.moved => jobQueue[k.asked] = k.at
                /\ k.by = "check" /\ k.at \in there =>
                      Compared(ProjectOf(k.at), k.org) \in k.seen
    /\ k.pc \in {"project", "user"} =>
          /\ k.at \in Projects
          /\ k.by = "check" \/ ~k.moved => Compared(k.at, OrgOf(k)) \in k.seen
    /\ k.pc = "user" => k.by # "check"

\* check_resource_access and can_access_* read row after row while others
\* write: as long as its job and its user are not moved, each answers what one
\* read of all the rows would have answered at some moment of the call; and
\* check_resource_access, which compares with a given organization, grants or
\* denies nothing else even if the job is moved (authorization_service.rs:90
\* and 288, job_service.rs:311; a row that is missing is an answer, too).
WalksAreRight ==
    \A k \in walks : k.pc = "answered" =>
        \/ \E v \in k.seen : k.answer = Told(k.by, v)
        \/ k.moved /\ (k.by = "check" => k.answer = "missing")

\* What belongs to the organization at this moment has been noted, and the
\* jobs of the listed queues, but for those that came too late.
Noted(l) ==
    /\ l.stage # "projects" => l.projects = {p \in Projects : ProjectOrg[p] = l.org}
    /\ l.stage = "projects" => l.queues = {} /\ l.jobs = {} /\ l.workers = {}
    /\ BelongsTo(l.org) \subseteq reached
    /\ \A q \in l.queues : q \in there \cup gone /\ ProjectOrg[QueueProject[q]] = l.org
    /\ \A j \in JobIds : jobQueue[j] \in l.queues => j \in reached \cup late
    /\ l.stage \in {"queues", "workers"} => l.rest \subseteq l.projects
    /\ l.stage = "jobs" => l.rest \subseteq l.queues

\* A job that stays is ahead of its listing, step by step: its project's turn
\* is to come or its queue is listed; then the queue's turn is to come or the
\* job is listed.
AheadOf(l, j) ==
    /\ j \in JobIds /\ Verdict(l.org, j) = "granted"
    /\ l.stage = "queues" =>
          QueueProject[jobQueue[j]] \in l.rest \/ jobQueue[j] \in l.queues
    /\ l.stage \in {"queues", "workers"} => l.rest # {}
    /\ l.stage \in {"workers", "jobs"} => jobQueue[j] \in l.queues
    /\ l.stage = "jobs" => jobQueue[j] \in l.rest \/ j \in l.jobs
    /\ l.stage = "done" => j \in l.jobs

ListingInv ==
    /\ \A l \in listing : Noted(l)
    /\ \A l \in listing, j \in stayed : AheadOf(l, j)

\* get_user_accessible_resources reads row by row while queues and workers
\* come and go and jobs move: what it lists did belong to the organization at
\* some moment of the call, but for jobs that were written to a listed queue
\* after it had been deleted (job_service.rs:42 and 67); and no job that just
\* stayed where it was is missing at the end.
ListingIsSound ==
    \A l \in listing :
        /\ l.queues \cup l.workers \subseteq reached
        /\ l.jobs \subseteq reached \cup late
        /\ l.stage # "projects" /\ l.rest = {} => stayed \subseteq l.jobs
=============================================================================
