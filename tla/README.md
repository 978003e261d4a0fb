# Verification of TaskForge

TLA+ models of the TaskForge job queue (`src/taskforge/src/`, Rust), checked
with TLC and proved about with TLAPS.  Paths below are relative to
`src/taskforge/src/` unless they start with `src/`.

## 1. The system

TaskForge stores jobs in PostgreSQL and hands them to workers.  API servers and
workers are stateless processes around *services*; every service method is an
`async fn` that awaits database calls one by one.  The pattern is always the
same: read a row, decide on the copy, write the whole row back
(`db.update_job(job)`), with no transaction, no lock and no version check.  The
database is the only shared state, and its row updates are the only atomic
steps.

The repository holds the services and the row types.  It does not hold the
HTTP routes, the code of the worker loop (only its listing in
`src/JOB_EXECUTION_LIFECYCLE.md`), or the body of most `Database` methods (several
modules that `lib.rs` and the services name are absent, so it does not build as
it is: see the end of section 3).  What is missing is treated as environment: any
service method may be called at any time, by any number of callers, and a
`Database` method does what its name and its use say, to one row at a time.

| Component | State | Operations that change it | What is hard |
|---|---|---|---|
| Job row, `models/job.rs` | status, attempts, schedule | `new`, `mark_as_*` on a copy | the arithmetic of the retry delay |
| JobService, `services/job_service.rs` | `jobs` | create, update_job_status, update_job, cancel (with a cascade), retry, schedule_job_for_retry, dead letter move | stale copies, cascades, partial failure, final statuses |
| QueueService, `services/queue_service.rs` | `job_queues` | create, update, delete, pause, resume, update_queue_settings | stale copies against a pause; delete and pause race create_job |
| ExecutionService, `services/execution_service.rs` | `job_executions` | create, status updates, heartbeat | no guard on a status; heartbeat against completion; the timeline |
| WorkerService, `services/worker_service.rs` | `workers`, assignments | register, heartbeat, drain on and off, deregister, assign, unassign | heartbeat undoes drain; deregister races the choice of a worker |
| Worker loop, `src/JOB_EXECUTION_LIFECYCLE.md` | one task per worker | take, create the execution, start it, run the handler, report twice | stops between two reports; two workers on one job |
| Job dependencies, `models/job_dependency.rs` | dependency rows | `mark_as_*` | three formulations of one condition; parents that are retried |
| ApiKeyService, `services/api_key_service.rs` | `api_keys` | create, update, rotate, revoke, delete | update, rotate and revoke write stale rows over each other; each service tests keys its own way |
| AuthenticationService, `services/authentication_service.rs` | tokens, which it does not keep | login, refresh | tokens outlive the role they were made for |
| AuthorizationService, `services/authorization_service.rs` | none | none | decides by the token; walks rows that may go missing |
| Organizations, projects, `models/organization.rs`, `models/project.rs` | tier, counts | none but the tier | limits at their boundary; test first, insert later |
| MonitoringService | none | none | counts one after the other while jobs move; three versions of the same statistics |
| Configuration, start-up, database pool | none over time | none | not modelled |

How they interact.  JobService reads queue rows (`create_job`, retry, dead letter
move) that QueueService writes; QueueService counts jobs before a delete.
ExecutionService takes the number of an execution from a job row.  The worker
loop drives both and is itself chosen by WorkerService.  Many handlers ask
AuthorizationService for access first, which reads users, keys, projects, queues,
workers and jobs.  MonitoringService reads every table.  There are no events, no
channels and no callbacks: all communication is by rows.

Correctness, per component:

- **Jobs**: a job is run only after it was started; no attempt is charged that
  was not made, and none beyond `max_attempts` (a stale write may lose the count of
  a start, so the real starts may be more); a final status stays; a
  cancellation reaches the dependents; every job comes to rest.
- **Queues**: a paused or deleted queue takes no job but those already admitted.
- **Executions**: an execution belongs to an attempt that was made; a job
  succeeds only by a recorded execution; the timeline tells of real runs.
- **Workers**: dispatchers that race overload a worker by a bounded number of
  jobs; a draining worker runs out of jobs.
- **Keys**: a revoked key is refused until it is given a new time of expiry; after
  a rotation only the new secret opens the key; a secret opens one key.
- **Tokens**: a grant is never older than a token may live; while the user's row is
  the one a token was made from, token and row grant the same but for `worker:read`.
- **Access**: an answer made of rows that were read one by one is one that a single
  read could have given; a list of resources misses none that stayed.
- **Dependencies**: a child does not run ahead of its parent.
- **Organizations**: clients that race exceed a limit by a bounded amount; a quota
  is never negative and agrees with the test of the limit.
- **Reports**: a health report loses no job that only went forward; statistics
  tell of the executions there were.

## 2. Modules

| Module | What it is |
|---|---|
| `Job`, `RetryDelay`, `JobExecution`, `Worker`, `ApiKey`, `User`, `JobDependency`, `Organization`, `Project` | the rows and the pure methods of the files in `models/` |
| `JobService` | the jobs table and every handler of `job_service.rs` that writes |
| `JobLifecycle` | the abstract promise about a job, which `JobService` implements when calls do not overlap |
| `QueueService` | extends `JobService` with the queues table and every handler of `queue_service.rs` that writes; implements `JobService` with its environment |
| `ExecutionService` | extends `JobService` with the executions table, every handler of `execution_service.rs` that writes, and the timeline |
| `JobProcessor` | extends `ExecutionService` with worker loops and clients: the composed system |
| `WorkerService` | workers, their assignments and the choice of a worker (`worker_service.rs`) |
| `ApiKeyService` | the keys table, its handlers and what three services say of a key |
| `Authentication`, `Authorization` | tokens and users; permissions and the resources of an organization |
| `Metrics` | the statistics that three services make of executions |
| `JobStatistics` | extends `JobProcessor` and `Metrics`: the statistics of the executions that the workers make |
| `Monitoring` | the health report over `JobLifecycle` |
| `Workflow` | `Monitoring`, `JobDependency` and `RetryDelay` over one set of jobs |
| `Tenant` | clients that test an organization's and its projects' limits and then insert |
| `MCJobService`, `MCJobProcessor`, `MCQueueService`, `MCWorkerService`, `MCApiKeyService`, `MCAuthorization`, `MCWorkflow`, `MCTenant` | values for the constants, for TLC |
| `JobServiceProofs` | type correctness; rows are backed by starts; the retry budget; for calls that do not overlap: final statuses, exact attempts, the refinement of `JobLifecycle` |
| `JobProcessorProofs` | the two services and the numbers of executions; the composed system uses the services as their specification allows; recorded successes; the timeline |
| `QueueServiceProofs` | the refinement of `JobService`; paused queues stay closed |
| `WorkerServiceProofs` | type correctness; by how much a worker is overloaded |
| `ApiKeyServiceProofs` | type correctness; secrets, revocations, rotations; the agreement of the tests of a key |
| `AuthorizationProofs` | tokens and users; the age of grants; tokens against rows; the access checks; the list of resources |
| `WorkflowProofs` | dependencies; health reports; retry delays |
| `TenantProofs` | by how much a limit is exceeded; the agreement of the tests of a limit |

An operator whose comment begins with "Mutant of" is a faulty variant of the
operator after it; it is used nowhere in the specifications and serves to see
that a property fails when the code is wrong in that way.

### JobService

One action is one awaited database call together with the code up to the next
one.  A *request* (`CreateJob`, `UpdateJobStatus`, `UpdateJob`, `CancelJob`,
`RetryJob`, `ScheduleJobForRetry`) makes the first read of a handler and its
tests; the call then waits, as a record in the set `calls`, with the row it will
write; a *step* (`InsertJob`, `WriteJob`, `ReadDependents`, `CancelDependent`,
`ReadRetryQueue`, `MoveToDeadLetterQueue`, `ReadDeadLetterQueue`) makes its next
database call.  Between two steps of a call any other call may step: that is the
concurrency of several servers and workers.  A request that the code refuses
changes nothing and is therefore a step not taken.  `Abort` ends a call at any
point, as a database error or the death of the process does; what it has written
stays.

State and code: `jobs[j]` is the row of table `jobs`; `calls` are the suspended
futures with their local variables (`row` is the local `job`, `from` its status
when read, `rest` the dependents the loop of
`handle_job_cancellation_dependencies` has still to write); `queues` are the
queue rows that `create_job` and the dead letter move read; `starts` is a history
variable, the number of writes that put a job in Processing.

Abstractions:

- payload, output, messages, priority and timestamps other than
  `scheduled_for` are left out: no guard of a handler reads them.  The default
  of `max_attempts` in `create_job` (lines 55-58) can never apply, because
  `validate` (line 35) has refused 0 before.
- `scheduled_for` is whether it is set; a set time may be found due at any
  moment.
- `DeadLetter` is named by the transition table and not by the enum; it is kept
  as a seventh status that only `update_job_status` reaches.
- `calculate_retry_delay` is not in the repository: it may answer a delay or,
  when `MayGiveUp`, `None`.
- The branch of `cancel_job` that cancels the running execution (145-150) is
  never taken, because the copy is already Cancelled when it is tested; it has
  no action.
- `update_job` writes what its caller hands it.  The callers are outside the
  repository; the model lets them read a row, apply one `mark_as_*` method whose
  evident precondition holds on the copy (`can_be_executed` for
  `mark_as_processing`, Processing for success and failure), and hand it back.
  They do not change `max_attempts`.
- `Dependents` is fixed; dependency rows are not changed by these services.
- QueueService is here the environment action `QueueServiceWrites`, which the
  module `QueueService` replaces by the handlers.

### QueueService

A handler reads a queue's row and is a record of `edits` until it writes the row
back (`WriteQueue`) or deletes it (`CountActiveJobs`, then `DeleteRow`);
`AbortEdit` is an access check that refuses, or a failing database call.
`update_queue` is the exception: it reads no row and writes the one its caller hands
over, whatever its age, which may be any row.  `stored` and `dropped` tell the queues in
the table from those that were deleted, since an id is never given out twice; an
update finds no row of a deleted queue and fails.  `update_queue_settings` writes
back the row it read with new settings, and so may write back that a queue is
active.  Two history variables say what the property means: `held` are the
queues whose pause was written with no other change of that queue in flight, or
that were deleted, until a `resume_queue` or an active row handed to `update_queue`
opens them; `late` the jobs that were between the test of `create_job` and its
insert at that moment.
Names, priorities and the settings other than the dead letter queue are left out.

### ExecutionService

A handler reads an execution and writes it back; in between it is a record of
`reports`, with the row it will write.  The job's row, which is read in between,
is always there, since jobs are never deleted; then `can_access_job` lets the call
go on or refuses it, as `AccessAnswers` admits.  As the handlers are written it
always refuses (`AccessAnswers = {FALSE}`), because they hand over the id of the
job and the id of an organization where it takes the id of a user and the id of a
job; the runs admit both answers, in every call anew.  `create_execution` is an
exception in one point: what it reads of the job is the number of the execution.
`PrepareExecution` and `WriteExecution` are the two halves; `AbortReport` is a
check that refuses, or a failing database call.  Output, error text and
heartbeat times are left out: a heartbeat is a rewrite of the row as it was read.
`GetExecutionTimeline` is the set of events of a job's executions; their order by
time is left out.

### JobProcessor

`task[w]` is the program counter of `process_job` in worker `w`: each stage is
the call that was made last, and the next is made when it has returned
(`Free(w)`).  `TakeJob` reads a job that can be executed and writes it back by
`mark_as_processing` and `update_job`; nothing stops two workers from taking the
same one.  A call that a service refuses ends the task (`EndTask`), and so does a
failing one, or one that an access check refuses (`CallFails`); `Stop` ends the worker
for good, between two calls or in one.  `lost` is history: the jobs that a task left
that way.  Clients create jobs and call what `ClientOps` and `ClientTargets` admit;
heartbeats and operators report executions under ids of their own.

### Metrics and JobStatistics

`Metrics` are `get_execution_stats`, `get_worker_execution_stats`,
`get_job_performance_metrics` and the `ExecutionStats` of the model, over any
sequence of execution rows: a percentile is the element at its index in the sorted
times, found by counting those below it.  `JobStatistics` asks them about the
executions that the workers of `JobProcessor` make, in whatever state these are, with
given running times (`Duration`).  `get_job_stats` reads the job, then its
executions, and is right only if what it reads second still fits: that is the action
property `SuccessesStay`.

### WorkerService

A handler that changes a worker is a record of `edits` between its read and its
write, and `deregister_worker` also between its count and its delete; `RefuseEdit`
is an access check that refuses, or a failing database call.  `update_worker` reads
no row and writes the one its caller hands over (`HandedRows`).
`assign_worker_to_queue` reads the worker and the queue and writes the assignment
later: a record of `assigns`.  Its worker may have been deleted in between, and then
the assignment outlives it.
`get_next_available_worker` is a record of `picks`: the rows of the assigned
workers are read at once, then each load is counted in a query of its own
(`CountLoad`), then one of them is selected and the dispatcher gives it a job
(`GiveJob`, external, as is the end of a job).  `load[w]` is what the two counts
of active jobs return.  `widest[w]` is history, the greatest capacity that the row of
`w` has had.  `is_available` is called and not defined in the sources;
it is taken from `src/DATA_MODEL.md:436`.  Left out: names, capabilities and
heartbeat times, and the organization checks, which compare columns that no
handler changes (`SameOrg` is what they decide for an assignment).

### ApiKeyService

A handler that changes a key is a record of `changes` from its read to its write,
with the row it will write; `delete_api_key` needs nothing but the id.  A row is
the secret (for its hash), permissions, time of expiry and `is_active`.  `owner`
records for which key each secret was drawn.  `Settle` is history: if a revocation
or a rotation is written with no other change of the key in flight, it is to hold
from then on (`revoked`, `newest`); if not, nothing is said.  `UpdateExpiry` takes
a key out of `revoked` and `RotateApiKey` out of `newest` when they *read* the
row, as their write may come at any time after.  A clock `now` runs to `MaxTime`.
`Validates`, `Authenticates`, `AuthorizesKey` and `CheckApiKeyPermission` are the
tests of the three services.

### Authentication and Authorization

A token is its claims: nobody looks a token up, so all that is ever known of it is
in it, and signing is ideal.  Users change role, organization and activity at any
time (`ChangeUser`; the code that does is outside the repository).  `authenticate_user`
and `refresh_token` read the user's row, which is then a record of `issues` while the
password is compared and other users are served; `IssueTokens` makes the tokens of
the copy.  `refresh_token` accepts the old token in a step of its own before, and
keeps its organization.  `authenticate_and_authorize` is two steps.  What the
properties speak of is history: `held[u][o][p]` records when the user `u` was last
active in organization `o` with permission `p`, and a token in `tokens` remembers the
`row` it was made from and the moment it was `read`.  `user_belongs_to_organization`,
which the authorization calls, is defined nowhere; it is read as: read the user's row
and compare.

`check_resource_access`, the `can_access_*` methods of AuthorizationService and the
methods of the same names in the other services are records of `walks` that read one
row a step: the job, its queue or the worker, the project, and for `can_access_*` the
user.  A missing row is an error of AuthorizationService and a `false` of the others
(`Told`).  `seen` are the answers that one read of all rows would have given at the
moments of the walk, `moved` whether its own job or user was moved meanwhile.
`get_user_accessible_resources` is a record of `listing`: the user, then the
projects, then one project or queue a step.  Meanwhile queues and workers are made
and deleted, users change organization, and jobs are written to queues that were
looked up before (`puts`: `create_job` and the dead letter move).  `reached`,
`stayed` and `late` record what the list may and must hold.  No code deletes a
project or a user.  Tokens and resources do not read each other: `MCAuthorization`
moves one part while the other is as it was at first (`TokensFirst`,
`ResourcesFirst`), which keeps the instance small.

### Monitoring and Workflow

`Monitoring` looks at jobs that live as `JobLifecycle` says.  The health report
makes its counts one at a time, in the order of the awaits.  While reports are made
only the `Watched` jobs may be there: with all of them `Watched`, nothing is bounded.
`Workflow` gives the jobs dependencies; `ends[j]` is history, how the executions of
`j` have ended.  Who asks `can_execute_child` and `is_met` is not in the repository:
`MayStart` and `Resolver` are that environment, a worker and a resolver that do as the
methods say, at a moment of their own.  `RetryDelay` is `get_retry_delay` with the set
of all the jitters it may add; the multiplier is a fraction, and `Powers` is its
`powf`, as a recursive function.

### Tenant

`src/ORGANIZATION_PROJECT_MANAGEMENT.md:353-371` lists how a project is made: count,
test, insert.  A client is between test and insert while it is in `adding` (of the
organization) or `asking[p]` (of a project).  One behaviour follows one kind of
resource, since the limits do not depend on each other.  Jobs and calls of the API
come in lots of ten thousand, so that their limits are within reach.  `granted` is
the highest limit that any test compared with.

## 3. Runs

| Run | Question | Bounds | Result |
|---|---|---|---|
| `job_concurrent` | do overlapping calls, faults, dead letter moves and queue changes ever show a finished job that never started, or an attempt never made? | 1 job, 2 calls, all seven status requests, 2 queues with changing rows, 2 attempts, 2 starts | no |
| `job_serial` | is the service the abstract lifecycle when calls do not overlap, are attempts counted exactly, and do final statuses stay? | a job and its dependent, 1 call, faults, 2 attempts, 3 starts, dead letter queue on and off | yes, but for the cascade, which undoes Succeeded |
| `job_cascade` | does a cancellation reach every dependent, in spite of other calls? | a job and two dependents, 2 calls, no faults, no starts | yes |
| `queue_service` | does a pause hold, and do the two services implement JobService? | 1 queue (its own dead letter queue, or none), 1 job, 1 call, 2 changes, faults | yes |
| `proc_chaos` | with two workers on a job, clients that retry and cancel, failing calls, refusing checks and workers that stop: are executions numbered by real attempts, is every success recorded and never taken back, do the timeline and the statistics tell of real runs, is `attempt_count` kept within `max_attempts`? | 1 job, 2 workers, 1 client, 3 executions, 2 attempts, 3 starts | yes |
| `proc_finish` | does every job come to rest: finished for good, or left Processing by a report that a check refused? | 1 job, 2 workers, a client that creates and cancels, heartbeats, an operator, no faults, checks that answer either way, 2 executions, 2 starts | yes |
| `worker_pool` | by how much may dispatchers that race overload a worker whose capacity changes, and does it run out of jobs when it stays Draining? | 1 worker that registers with 1 place (with 0 it is refused) and is handed rows with 2 (or 0), 1 queue, 2 changes in flight, 2 dispatchers | by one job; yes |
| `api_keys` | does a revocation hold, does only the newest secret open a key, do three services agree? | 2 keys, 3 secrets, 2 changes, 3 moments, 3 permissions of different form | yes |
| `access` | were the permissions of a token true, how old may a grant be, does it agree with the user's row, do the access checks answer rightly, is the list of resources sound? | 1 user, 2 organizations, 1 token of each kind, 3 moments, 1 call in flight; 2 projects, 3 queues, 1 job, 1 worker, 1 job being written | yes |
| `workflow` | does a child wait, is a resolution right for good, do the tests agree, are health reports consistent, when is there a retry delay and does it grow? | a chain of three jobs, all eight rules between the first two and three between the last two, 2 attempts each, five retry policies with delays around ten seconds, two of them with fractional multipliers above and below 4/3; health reports while only the first two are there | yes |
| `tenant` | by how much may a limit be exceeded, and do the tests agree at and over it? | 2 clients, 2 projects, every tier and kind of resource; at most 12 of a kind in one project | by less than one a client; yes |
| `retry_jitter` | does a job that may be retried have a delay of a second at least, under the default settings? | as `workflow`, the default policy | **no**: a remainder by zero |

The bounds are enough because a stale write needs one reader and one writer (two
calls, two changes), a cascade one parent, and two dependents for its loop to be
in the middle; one more start than `max_attempts` is allowed, so that a budget that
does not hold is seen to fail.  Two workers on one job are what it takes for the
two reports of a run to be out of step with another run.  A worker is a row of its
own, and what holds of one worker with two changes in flight, two capacities and two
dispatchers that ask for it holds of each.  Three secrets are the first, the rotated one
and one of another key or of a second rotation.  One permission has the usual form,
one only the row accepts, one neither validation does.  A chain of three jobs is
what it takes for the parent of a dependency to be cancelled with a parent of its
own.  Each safety invariant of these runs but `DependencyTestsAgree` and
`StatisticsTellOfRuns` is also a theorem (section 4), for which the numbers are any.
Symmetry is used for ids that stand for nothing else, in runs without liveness only.

`MaxStarts` bounds the starts of a job, which no code bounds; `Executions`,
`Secrets` and `MaxTokens` are what may be used up, `MaxTime` where the clock
stops, `MaxCount` how far a project grows.  A run that has used them up may stop, hence
`CHECK_DEADLOCK FALSE`; so may the real system, when there is nothing to do.

Conditions the properties need, each of which was seen to matter:

- `RetryBudget` needs requests that respect it: `update_job_status` brings a
  failed job back to Pending without the test of `retry_job`, so no client of
  `proc_chaos` asks for that.  It is about the count in the row: a stale write may put
  an older count back, so that a job is started more often than `max_attempts`
  allows, as `MaxStarts` lets it in that run.
- `JobsComeToRest` needs clients that do not ask for Scheduled:
  `update_job_status` can make a job Scheduled without a time, and
  `can_be_executed` then never holds of it.  It needs workers that do not stop:
  nothing takes a job from a worker that has stopped (no code reads
  `heartbeat_at`).  The same is true of a job whose worker had a report refused: it
  stays Processing, which the property allows for such jobs only.
- `SucceededJobWasRun`, `TimelineTellsOfRuns`, `StatisticsTellOfRuns` and
  `SuccessesStay` need that no heartbeat and no operator writes an execution, and
  that no client calls a job Succeeded itself.
- `OverloadIsBounded` allows one job for each further dispatcher, as several may count
  the same place, beyond the greatest capacity that the worker's row has had: a
  capacity that is lowered takes no job back.
- `DrainEmpties` is about a worker that stays Draining.  A change that read the
  row before `enter_drain_mode` wrote it may end the draining by its own write, and so
  may the row that a caller hands to `update_worker`.
- `PauseHolds`, `RevokedKeysStayRevoked` and `OnlyTheNewestSecret` need that no
  other change of the same row is in flight when the pause, the revocation or the
  rotation is written.  One that is in flight writes its own, older row afterwards
  and undoes it.  Changes that begin later do no harm, however many overlap; the row
  that a caller hands to `update_queue` counts as a resume if it is active.
- `TokensWereTrue` and `GrantsAreRecent` speak of the organization the user belonged
  to when his row was read.  After a refresh the token need not name it.
- `TokensFollowRows` is about users whose row is the one the token was made from, and
  excepts `worker:read`, which the table of the tokens gives to members and the table
  of the roles does not.  With any other row the two may differ: an inactive user is
  refused by his token and not by `check_user_permission`.
- `WalksAreRight` excepts calls whose own job or user is moved meanwhile: they may
  compare rows of different moments.  `check_resource_access`, which is told the
  organization, can then only miss a row.
- `ListingIsSound` excepts the jobs written to a listed queue after it was deleted.
- `NoJobIsMissed` needs that jobs only went forward during the report.
- `ResolvedWasMet` lets a parent that had succeeded be Cancelled if a job it
  depends on was: the cascade spares no status.
- `RetriesBackOff` says that there is a delay exactly if the backoff is of ten seconds
  or more (see `retry_jitter`), and that delays grow if the multiplier is 4/3 or more.
  The jitter is from -10% to +20% of the delay, and not the ±10% of the comment at
  `job.rs:185`, so that with a smaller multiplier the delay after the next failure may
  be the shorter one.  `get_retry_delay` takes any multiplier: with 0 the delay is 0
  from the second attempt on.  `src/TESTING_STRATEGY.md:364` expects one below 1.0 to
  be refused when the settings are.
- `AttemptsAreStarts` and `ImplementsLifecycle` need calls that do not overlap and
  no request for Pending, Processing or DeadLetter by `update_job_status`, which
  skips the attempt count or the test of `retry_job`.

Fairness.  `FairSpec` and `ProcessorFairness`: a call that has a next step takes
it, and a worker that has not stopped makes its next call, since the async
runtime polls every spawned future and without faults every database call
answers.  Of a call that an access check may refuse this says that it ends, by its
write or by a refusal; nothing makes the check answer one way or the other.
No fairness is assumed of clients, heartbeats, operators or `Stop`.
`WorkersFairness`: calls and choices in flight go on, and a job that runs ends.
The other runs check safety only and assume no fairness.

### What the models show and no run asks

`retry_jitter` is a run because the program's own comments promise a delay.  The
following behaviours are in the models as they are in the code; no property that
holds can be stated about them, and the properties above are worded around them.

- `update_job_status` tests a copy and writes it later (`job_service.rs:112`): of
  two overlapping calls the later write wins, so a final status may be undone.
  Hence `Finality` is about calls that do not overlap.
- The cascade of a cancellation sets every dependent to Cancelled, Succeeded ones
  too (`:171`).
- A job without attempts left is refused by the handler that would move it to the
  dead letter queue (`:378`), so that the branch at `:400` is for other jobs.
- `cancel_job` means to cancel the running execution (comment at `:144`), but has
  overwritten the status when it asks for it (`:141`, `:145`).
- A heartbeat writes back the execution it read, and so a completed one may be
  Running again (`execution_service.rs:193-211`).
- Every handler of ExecutionService calls `can_access_job(job.id,
  job.organization_id)` (`execution_service.rs:46`, `:103`, `:133`, `:157`, `:181`,
  `:204`), whose parameters are the user and the job (`authorization_service.rs:288`).
  WorkerService (`worker_service.rs:74`, `:90`, `:109`, `:130`, `:147`, `:164`) and
  QueueService (`queue_service.rs:80`, `:92`, `:111`, `:126`, `:353`) mix up the ids
  in the same way, and so does ApiKeyService (`api_key_service.rs:99`, `:131`, `:144`,
  `:313`) with a check that AuthorizationService does not have.  Such a check finds no
  row and refuses; the models let it answer either way.
- `delete_queue` counts and then deletes: a job written in between, also by a
  `create_job` that had looked the queue up before, is left without a queue
  (`queue_service.rs:87-96`, `job_service.rs:42`, `:67`).
- `update_queue` and `update_worker` read no row and write the one their caller has
  (`queue_service.rs:76`, `worker_service.rs:70`), so they undo whatever was
  written since that copy was made.
- A worker may be given a job between the count of `deregister_worker` and its
  delete (`worker_service.rs:168-174`), and an assignment of it may be written after
  the delete (`:244-255`), which a foreign key shown in
  `src/ARCHITECTURE_DESIGN.md:174` would refuse; a heartbeat that overlaps
  `enter_drain_mode` takes the draining back; two dispatchers may exceed a capacity.
- A refreshed token names the organization of the old one and has the permissions of
  the user's present role (`authentication_service.rs:293`, `:307`), which may be his
  role in another organization: he is then refused until he moves back.
- `check_user_permission` lets inactive users pass (`authorization_service.rs:19-40`).
- An access check of JobService, QueueService or WorkerService answers `false` for a
  missing row where the one of AuthorizationService answers an error.
- The success rate of a job without a timed success is 0 to
  `get_job_performance_metrics`; that of a worker without completed jobs is 100 in a
  queue's health, even if all its jobs failed (`monitoring_service.rs:330`), and 0 in
  its own, unless it has none (`:386`).
- `update_job_status` to Processing counts no attempt, so a job can fail with a count
  of 0, of which `get_retry_delay` would subtract one as a `u32` (`job.rs:181`; no
  service calls it).
- `is_online` of `models/worker.rs` looks at `drain_mode`, `is_available` (only in
  `src/DATA_MODEL.md:436`) at the status alone.  `update_worker_status` may make a
  worker Online while its flag is up: it is then chosen, and yet not online.
- `get_queue_health` answers Healthy or Paused whatever the score and with no online
  worker (`queue_service.rs:179-180`), although `:436-438` give the ranges of Warning
  and Critical.
- `update_api_key` validates no row (`api_key_service.rs:123`), and
  `validate_api_key` does not ask whether a key is active (`:161`).
- Enterprise allows 10 000 calls of the API a month, a hundredth of Pro
  (`organization.rs:80`).
- A project compares its own counts with the organization's limits
  (`project.rs:150`), so each may fill the whole limit.
- The token of an API key names the key as its subject and
  `authenticate_and_authorize` looks for a user of that id: it grants nothing.

Code that does not compile and how it was read: `schedule_job_for_retry` calls
`calculate_retry_delay` (`job_service.rs:390`), while `job.rs:171` has
`get_retry_delay`: `JobService` lets the answer be anything, `RetryDelay` is the
method there is.  At `organization.rs:219` the answer lacks the head of its
struct: its fields were taken for those of `UsagePercentage`, each a percentage kept
as a fraction, the part over the whole.
`get_queue_assignment_status` matches a status `Processing` that `WorkerStatus`
does not have: it is left out.

## 4. Theorems

All for every set of jobs, queues, calls, executions, workers, clients, users, keys
and secrets and every bound, from the named assumptions of the modules; where a
theorem counts the members of a set, that set is assumed to be finite.  Every
safety invariant of the runs but two is a theorem, and so are the action property
`Finality` and the refinements `ImplementsLifecycle` and `JobServiceSpec`.  The
conditions some theorems have are those of section 3, as named predicates on the
constants: `OneCall`, `SerialRequests`, `BudgetRequests`, `OwnReports`.

**Jobs** (`JobServiceProofs`)

- `TypeCorrect`: `Spec => []TypeOK`.
- `CompletedJobsWereStarted`, `AttemptsWereMade`: from the inductive invariant
  `StartsInv`.  The two properties speak of the table only and are not
  inductive, since a call may write a row read long ago.  `StartsInv` says of
  *every* row, in the table or held by a call, that it is backed by the starts
  its job has had so far; as starts only grow, a stale row stays backed, and
  writing it does no harm.  A row prepared by `mark_as_processing` is the
  exception: it announces the start that its own write will count.
- `AttemptsWithinBudget`, of the count in the rows: under `BudgetRequests` (no request
  for Pending by `update_job_status`, no giving up), `BudgetInv` says that every row, held or
  stored, is within its budget, strictly so while it can be started again.  It is
  a property of rows one by one, so that no interleaving can break it.
- `FinalStatusesStay`: under `OneCall`, `SerialInv` says that what the call in
  flight has read is still true.
- `EveryAttemptIsAStart`, `ServiceImplementsLifecycle`: under `SerialRequests`.
  `LegalInv` says that the row a call is about to write differs from the row in the
  table by one move of the lifecycle (`LegalMove`), and that what a cascade has
  still to write has the counts of the table.  A read is then a stutter of
  `JobLifecycle`, a write one of its steps, and a write of a cascade the
  cancellation of a dependent; an abort in between is a stutter at any point.

**Executions, workers and clients** (`JobProcessorProofs`)

- `ExecutionTypeCorrect`, `ExecutionsAreNumbered`: of both services under every
  interleaving.  `ExecutionsInv` says of every execution row, stored or held by
  a report, that its number is not beyond the starts of its job; `StartsInv`
  provides this when `create_execution` takes the number from a job row.
- `ProcessorUsesServices`: `ProcessorSpec => ServicesSpec`, so that what is proved
  of the services holds of the composed system; `ProcessorNumbersExecutions` is
  such a consequence.  `ProcessorTypeCorrect` rests on `TaskTyped` and on
  `ProcessorInv`: a worker has one call in flight at most.
- `SuccessIsRecorded`, under `OwnReports`.  A worker asks for Succeeded only after
  it has written the execution, but the request, the row it prepares and the row
  of another worker in the table are three different things.  `ReportsFit` ties the
  execution of a worker, stored or about to be written, to the stage of its task;
  `OwnExecutions` says that no two workers have the same one; `SuccessInv` extends
  the property to every row held by a call.
- `TimelineIsTrue`, under `OwnReports`.  That no more starts are told than were made
  is a count over two tables.  `StartsSuffice` counts together the executions of a
  job, written or about to be, and the workers that have started the job and not
  yet created theirs (`UsedStarts`); each has a start of its own.  `TakingInv` says
  that a worker that takes a job waits for the one write that counts the start.

**Queues** (`QueueServiceProofs`)

- `QueueServiceRefinesJobService`: the handlers of both services, under every
  interleaving, implement `JobService` with the environment it assumes.  A step of
  a queue handler is a `QueueServiceWrites` or a stutter, for which the rows held by
  changes must be rows that environment may write (`QueueRowsOK`).  So the theorems
  about `JobService` hold with the real queue handlers.
- `QueueTypeCorrect`; `PausedQueuesStayClosed`.  The property is not inductive: a
  change in flight could carry an active row.  `HeldInv` says that for a held queue
  no change in flight does, unless the queue is gone; changes that begin later read
  a closed row.  `NewQueuesInv` says that an insert in flight is the only change of
  its queue, so that no closed queue comes back by it.

**Workers** (`WorkerServiceProofs`)

- `WorkerTypeCorrect`; `OverloadBounded`, for any finite number of dispatchers.  A
  count is compared with the capacity of an earlier row and the job is given later, so
  `OverloadInv` counts with the load the dispatchers that have found the worker under
  its capacity and have not yet given it the job (`Holders`).  One that joins them
  counted a load below a capacity the worker has had (`widest`), while all the others
  together are one less than the dispatchers.

**Keys** (`ApiKeyServiceProofs`)

- `KeyTypeCorrect`, `SecretsAreOwn`, `RevocationsHold`, `RotationsHold`: from one
  inductive invariant.  `KeysInv`: every row, stored or in flight, carries a secret
  drawn for its key.  `RevokedInv` and `NewestInv`: what was settled of a key is
  true of its stored row *and* of every row in flight, so that it does not matter
  which is written last.  `PendingInv`: an insert in flight is the only change of
  its key, and a revocation in flight carries a time that has passed.
- `KeyMethodsAgree`: the tests of the three services differ on inactive rows and on
  one permission; `PlainInv` says that no handler makes such a row.

**Tokens and access** (`AuthorizationProofs`), from one inductive invariant
`AccessInv`:

- `TokensTellTheTruth`, `GrantsAreNeverOld`: `HeldNow` keeps the history up to date
  with the rows, and `TokensInv` says of every row read for a token that what it
  grants was held when it was read or later (`WasHeld`), and of every token, also of
  one whose request goes on, that it lives as long as it should and says what was
  read (`MadeRightly`).  A request may be granted by a token that has expired since
  it was validated, hence the moment `at` in it.
- `TokensGrantLikeRows`: from the same invariant, since a token holds the permissions
  of the row it was made from.
- `WalksAnswerRightly`: `OnTheWay` says of a walk, at each of its awaits, that the
  verdict of this moment is noted in `seen`, and that what is still to be read will
  give a verdict that is noted, unless the job or the user was moved.  It is kept by
  every step of the walk and by every change of the tables in between.
- `ListingsAreSound`: `ListingInv` says of a listing that is under way what it has
  noted (`Noted`), late jobs apart, and of every job that stayed that its listing is
  still to come (`AheadOf`): its project's turn, then its queue's, then its own.

**Dependencies, reports, delays** (`WorkflowProofs`), from one inductive
invariant `WorkflowInv`, for any finite set of jobs and any dependencies:

- `ChildrenWait`, from `WaitingInv`: it remembers that the parent failed once, after
  the parent itself has moved on.  `ResolvedStaysMet` is inductive next to `EndsInv`
  (what has ended is remembered, and was started).
- `ReportsMissNoJob`, from `CountsInv`: while jobs only go forward, the jobs counted
  so far and those that a later count would still find (`Uncounted`) are no fewer
  than the total.
- `RetriesWaitLonger`: for all settings and attempts.  The range of the jitter is 0
  exactly under ten seconds; powers of a multiplier of 4/3 or more grow by a third a
  step, and the jitters around two delays of which one is at least a third longer, of
  ten seconds and more each, do not meet.

**Organizations** (`TenantProofs`)

- `RacersExceedByLessThanOneEach`: inductive next to `UnitsInv` (counts come in
  units).  A client that passes the test adds itself to those between test and
  insert, and the highest limit tested has then a unit to spare for it.
- `QuotaMethodsAgree`: arithmetic about every count, at and beyond every limit.

The provers have no induction over the natural numbers, since the library's theorem
takes the induction hypothesis as an operator.  Where it is needed, for what the
recursive function `Powers` computes, it is done over *sets* of numbers: the set of
counterexamples has a least element (`LeastNat`, from the well-foundedness of `<` on
`Nat`), and the definition of the function at that element contradicts it.

Only model-checked: the liveness properties `CancelReachesDependents`,
`JobsComeToRest` and `DrainEmpties`, which rest on fairness and so on `ENABLED`;
`StatisticsTellOfRuns`, whose percentiles and sums are recursive; `SuccessesStay`;
`DependencyTestsAgree`, a comparison of finite tables that TLC settles; and
`RetryHasDelay`, which is false.

## 5. Not modelled

- Configuration, start-up, the connection pool and migrations: no state that a step
  could put wrong.
- Read-only queries: filters, pages, most statistics and reports, the permissions
  matrix and the security report of keys.  They show what the tables hold at some
  moment.  Of the reports that combine several reads or decide by several tests, the
  health of the system, the timeline, the accessible resources and the statistics of
  executions, of a job among them, are modelled; the health of a queue and its
  backlog, which are arithmetic on counts of one moment, are not.
- The Prometheus registry and the alerts, which are counters and text; billing dates
  and fees; settings of projects.
- Capabilities of workers beyond what `CanProcess` decides (`requires_gpu` is set
  and never read); the setters of `models/worker.rs` no service calls.
- Hashing and signing, which are taken to be ideal.
- Foreign keys: `src/ARCHITECTURE_DESIGN.md:147` shows one from jobs to queues, the
  migrations are not in the repository.  A delete is therefore neither refused by the
  database nor does it cascade, except for the assignments of a deleted worker, which the code relies on.
