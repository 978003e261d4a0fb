---------------------------- MODULE Organization ----------------------------
(***************************************************************************)
(* The limits of an organization's tier (src/models/organization.rs) and   *)
(* the tests of what it uses against them.  Storage and data transfer are  *)
(* left out: no test reads them.                                           *)
(***************************************************************************)
EXTENDS Integers

Tier == {"Starter", "Pro", "Enterprise", "Custom"}

Resource == {"projects", "workers", "queues", "jobs", "api_calls"}

Limits(p, w, q, j, a) ==
    [projects |-> p, workers |-> w, queues |-> q, jobs |-> j, api_calls |-> a]

\* get_usage_limits.  Enterprise has the fewest calls of the API.
UsageLimits(t) ==
    CASE t = "Starter"    -> Limits(1, 5, 10, 10000, 100000)
      [] t = "Pro"        -> Limits(5, 20, 50, 100000, 1000000)
      [] t = "Enterprise" -> Limits(100, 100, 200, 1000000, 10000)
      [] t = "Custom"     -> Limits(1000, 1000, 1000, 10000, 100000)

\* Mutant of CanAdd: one more than the limit.
CanAddOneMore(t, r, count) == count <= UsageLimits(t)[r]

\* can_create_project, can_add_worker and can_add_queue.
CanAdd(t, r, count) == count < UsageLimits(t)[r]

IsUsageWithinLimits(t, usage) ==
    \A r \in Resource : usage[r] <= UsageLimits(t)[r]

\* Mutant of GetRemainingQuota: a subtraction that does not saturate.
PlainRemainder(t, usage) == [r \in Resource |-> UsageLimits(t)[r] - usage[r]]

\* saturating_sub: what is over the limit leaves nothing, not less.
GetRemainingQuota(t, usage) ==
    [r \in Resource |-> IF usage[r] >= UsageLimits(t)[r]
                        THEN 0
                        ELSE UsageLimits(t)[r] - usage[r]]

\* get_usage_percentage: of the two counts that a month has.  A percentage is a
\* fraction, as the f64 that the code makes of two whole numbers.
UsagePercentage(t, usage) ==
    [r \in {"jobs", "api_calls"} |->
        [part |-> 100 * usage[r], whole |-> UsageLimits(t)[r]]]
=============================================================================
