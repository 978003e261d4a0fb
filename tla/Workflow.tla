------------------------------ MODULE Workflow ------------------------------
(***************************************************************************)
(* Jobs that depend on each other, run by workers that ask the methods of  *)
(* job_dependency.rs first, while MonitoringService looks on.              *)
(*                                                                         *)
(* The repository holds the dependency rows and the two tests they answer; *)
(* who asks them is outside of it: a worker that starts a child only when  *)
(* can_execute_child says so of the parent's status, and a resolver that   *)
(* marks a row when is_met does, or never will.                            *)
(***************************************************************************)
EXTENDS Monitoring, JobDependency, RetryDelay

CONSTANTS
    Pairs,         \* the [parent, child] pairs that have a dependency
    Rules,         \* Rules[p]: the <<type, condition>> that pair p may have
    Budgets,       \* the max_attempts jobs are created with
    RetryPolicies  \* the retry settings of queues

ASSUME WorkflowAssumption ==
    /\ IsFiniteSet(Jobs)
    /\ Pairs \subseteq [parent : Jobs, child : Jobs]
    /\ \A p \in Pairs : IsValidPair(p)
    /\ Dependents = [j \in Jobs |-> {p.child : p \in {q \in Pairs : q.parent = j}}]
    /\ Rules \in [Pairs -> SUBSET (DependencyType \X Condition)]
    /\ Budgets \subseteq 1..10
    /\ Watched \subseteq Jobs
    /\ RetryPolicies \subseteq RetrySettings

VARIABLES
    deps,  \* deps[p]: the dependency row of pair p
    ends   \* history: ends[j] is how attempts of job j have ended

workflowVars == <<status, attempts, budget, counts, calm, deps, ends>>

-----------------------------------------------------------------------------
MayStart(j) ==
    \A p \in Pairs : p.child = j => CanExecuteChild(deps[p], status[p.parent])

JobStep ==
    /\ \E j \in Jobs :
          \/ Create(j) /\ budget'[j] \in Budgets
          \/ MayStart(j) /\ Start(j)
          \/ Defer(j)
          \/ Finish(j)
          \/ Retry(j)
          \/ Cancel(j)
          \/ \E p \in Jobs : CancelWith(j, p)
    /\ Observed
    /\ ends' = [j \in Jobs |-> ends[j] \cup ({status'[j]} \cap Ended)]
    /\ UNCHANGED deps

\* The resolver looks at the parent's status now.
Resolver(p) ==
    /\ deps[p].status = "Pending"
    /\ \/ /\ IsMet(deps[p], status[p.parent])
          /\ deps' = [deps EXCEPT ![p] = MarkAsResolved(@)]
       \/ /\ status[p.parent] \in Ended
          /\ ~IsMet(deps[p], status[p.parent])
          /\ deps' = [deps EXCEPT ![p] = MarkAsFailedDependency(@)]
       \/ /\ status[p.parent] = "Cancelled"
          /\ deps' = [deps EXCEPT ![p] = MarkAsCancelledDependency(@)]
    /\ UNCHANGED <<vars, monitorVars, ends>>

WorkflowInit ==
    /\ Init
    /\ MonitorInit
    /\ ends = [j \in Jobs |-> {}]
    /\ \E rule \in [Pairs -> DependencyType \X Condition] :
          /\ \A p \in Pairs : rule[p] \in Rules[p]
          /\ deps = [p \in Pairs |-> NewDependency(rule[p][1], rule[p][2])]

WorkflowNext ==
    \/ JobStep
    \/ MonitorNext /\ UNCHANGED <<deps, ends>>
    \/ \E p \in Pairs : Resolver(p)

WorkflowSpec == WorkflowInit /\ [][WorkflowNext]_workflowVars

-----------------------------------------------------------------------------
(***************************************************************************)
(* Properties                                                              *)
(***************************************************************************)

\* The type invariant.
WorkflowTypeOK ==
    /\ status \in [Jobs -> Live \cup Ended \cup {"Absent", "Cancelled"}]
    /\ attempts \in [Jobs -> Nat]
    /\ budget \in [Jobs -> Nat]
    /\ ends \in [Jobs -> SUBSET Ended]
    /\ calm \in BOOLEAN
    /\ deps \in [Pairs -> DependencyRow]

Waits(p) == deps[p].dependency_type \in {"Sequential", "FanIn"}

\* What has ended was started, and how it ended is not forgotten.
EndsInv ==
    \A j \in Jobs :
        /\ status[j] \in Begun \/ ends[j] # {} => attempts[j] >= 1
        /\ status[j] \in Ended => status[j] \in ends[j]

\* The parent of a child that waited for it and runs has succeeded, or failed
\* once, or it was cancelled since.
WaitingInv ==
    \A p \in Pairs :
        Waits(p) /\ status[p.child] = "Processing" =>
            status[p.parent] \in {"Succeeded", "Cancelled"} \/ "Failed" \in ends[p.parent]

\* A child that waits for its parent's end runs beside it only if the parent
\* was retried: Failed is an end to can_execute_child, and yet the retry of
\* job_service.rs:182 may bring the parent back (job_dependency.rs:73).
ChildWaitsForParent ==
    \A p \in Pairs :
        Waits(p) /\ status[p.child] = "Processing" /\ status[p.parent] \in Live
            => attempts[p.parent] >= 1 /\ "Failed" \in ends[p.parent]

\* Job j has succeeded, and if it is not Succeeded any more it was cancelled
\* with a job it depends on.
HasSucceeded(j) ==
    /\ "Succeeded" \in ends[j]
    /\ \/ status[j] = "Succeeded"
       \/ /\ status[j] = "Cancelled"
          /\ \E g \in Jobs : j \in Dependents[g] /\ status[g] = "Cancelled"

\* A resolved dependency was rightly resolved and stays so: a parent that had
\* to succeed has done so, and is only ever cancelled with a parent of its own,
\* one that had to fail has failed once, and one that had to begin has begun,
\* whatever retries and cancellations follow (is_met, job_dependency.rs:119,
\* against a status that moves on).
ResolvedWasMet ==
    \A p \in Pairs :
        deps[p].status = "Resolved" =>
            /\ attempts[p.parent] >= 1
            /\ deps[p].dependency_type = "Conditional" =>
                  IF deps[p].condition = "succeeded"
                  THEN HasSucceeded(p.parent)
                  ELSE "Failed" \in ends[p.parent]

\* The methods of a dependency give one answer: is_met says of the parent's
\* status what get_required_status lists, and a child that may be executed
\* has its dependency met, unless a conditional one names no condition they
\* know, which can_execute_child takes for "succeeded" and is_met for never.
DependencyTestsAgree ==
    \A p \in Pairs :
        LET d == deps[p]
            s == status[p.parent]
            Unknown == d.dependency_type = "Conditional"
                         /\ d.condition \notin {"succeeded", "failed"}
        IN  /\ IsMet(d, s) <=> s \in GetRequiredStatus(d)
            /\ CanExecuteChild(d, s) => IsMet(d, s) \/ Unknown

MayBeRetried(j) == status[j] = "Failed" /\ attempts[j] < budget[j]

\* A failed job that may be retried has a delay exactly if its backoff is of
\* ten seconds or more: under ten, the jitter is a remainder by zero.  And it
\* waits longer after its next failure than after this one, whatever the two
\* jitters, if the multiplier is 4/3 or more and the maximum is not reached.  A
\* multiplier below that does not do: the jitter, which is from -10% to +20% and
\* not the +-10% of job.rs:185, may outdo the backoff (get_retry_delay,
\* job.rs:171).
RetriesBackOff ==
    \A j \in Jobs, s \in RetryPolicies :
        LET n == attempts[j]
            now == RetryDelays(s, n)
            next == RetryDelays(s, n + 1)
        IN  MayBeRetried(j) =>
               /\ now = {} <=> CappedDelay(s, n) < 10
               /\ 3 * s.num >= 4 * s.den /\ CappedDelay(s, n + 1) < s.max =>
                     \A d \in now, e \in next : d < e

\* "Add jitter (+-10%)", "Ensure at least 1 second delay": a failed job that
\* may be retried has a delay of a second at least (job.rs:185 and 193).
RetryHasDelay ==
    \A j \in Jobs, s \in RetryPolicies :
        MayBeRetried(j) => \E d \in RetryDelays(s, attempts[j]) : d >= 1
=============================================================================
