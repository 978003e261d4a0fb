------------------------------- MODULE Tenant -------------------------------
(***************************************************************************)
(* An organization that grows as far as its tier lets it.                  *)
(*                                                                         *)
(* The tests are those of organization.rs and project.rs.  Their callers   *)
(* are outside of the Rust sources; ORGANIZATION_PROJECT_MANAGEMENT.md     *)
(* gives them as ProjectService: count, test, and insert in a later        *)
(* statement.  So several clients may be between the test and the insert.  *)
(*                                                                         *)
(* The limits do not depend on each other: a behaviour follows one kind of *)
(* resource, and what the organization has of it.                          *)
(***************************************************************************)
EXTENDS Project, FiniteSets

CONSTANTS
    Clients,    \* the clients that may ask at the same time
    Projects,   \* the projects that have queues and workers
    Tiers,      \* the tiers the organization may be in
    MaxCount    \* bound: no project asks for more than this many

ASSUME TenantAssumption ==
    /\ Tiers \subseteq Tier
    /\ Tiers # {}
    /\ IsFiniteSet(Clients)
    /\ Clients # {}
    /\ IsFiniteSet(Projects)
    /\ MaxCount \in Nat

\* The resource of a project, which is asked for by the project's
\* is_within_organization_limits instead of the organization's can_add_*.
OfProject == [project_queues |-> "queues", project_workers |-> "workers"]

ProjectKind == DOMAIN OfProject

Kind == Resource \cup ProjectKind

\* Jobs and calls come in lots of ten thousand.
Unit(k) == IF k \in {"jobs", "api_calls"} THEN 10000 ELSE 1

VARIABLES
    kind,      \* what this organization asks for
    tier,
    used,      \* how much it has of it
    adding,    \* the clients that were admitted and have not inserted yet
    projects,  \* projects[p]: the row of project p
    asking,    \* asking[p]: the clients that were admitted by project p
    granted    \* history: the highest limit that a test has compared with

tenantVars == <<kind, tier, used, adding, projects, asking, granted>>

-----------------------------------------------------------------------------
Limited == IF kind \in ProjectKind THEN OfProject[kind] ELSE kind

Limit == UsageLimits(tier)[Limited]

Highest(a, b) == IF a >= b THEN a ELSE b

\* The rows of all projects, each numbered within its own.
CountOfProjects(r) == Cardinality(UNION {{p} \X (1..projects[p][r]) : p \in Projects})

Usage == [r \in Resource |->
             IF r # Limited THEN 0
             ELSE IF kind \in ProjectKind THEN CountOfProjects(r) ELSE used]

\* The count and the test, by the method that there is for the resource.
Ask(c) ==
    /\ kind \in Resource
    /\ c \notin adding
    /\ IF kind \in {"jobs", "api_calls"}
       THEN GetRemainingQuota(tier, Usage)[kind] > 0
       ELSE CanAdd(tier, kind, used)
    /\ adding' = adding \cup {c}
    /\ granted' = Highest(granted, Limit)
    /\ UNCHANGED <<kind, tier, used, projects, asking>>

Insert(c) ==
    /\ c \in adding
    /\ adding' = adding \ {c}
    /\ used' = used + Unit(kind)
    /\ UNCHANGED <<kind, tier, projects, asking, granted>>

\* Mutant of AskProject: a client asks two projects at a time.
AskTwoProjects(c, p) ==
    /\ kind \in ProjectKind
    /\ c \notin asking[p]
    /\ projects[p][Limited] < MaxCount
    /\ CanBeUsed(projects[p])
    /\ IsWithinOrganizationLimits(projects[p], tier)
    /\ asking' = [asking EXCEPT ![p] = @ \cup {c}]
    /\ granted' = Highest(granted, Limit)
    /\ UNCHANGED <<kind, tier, used, adding, projects>>

AskProject(c, p) ==
    /\ kind \in ProjectKind
    /\ \A q \in Projects : c \notin asking[q]
    /\ projects[p][Limited] < MaxCount
    /\ CanBeUsed(projects[p])
    /\ IsWithinOrganizationLimits(projects[p], tier)
    /\ asking' = [asking EXCEPT ![p] = @ \cup {c}]
    /\ granted' = Highest(granted, Limit)
    /\ UNCHANGED <<kind, tier, used, adding, projects>>

InsertInProject(c, p) ==
    /\ c \in asking[p]
    /\ asking' = [asking EXCEPT ![p] = @ \ {c}]
    /\ projects' = [projects EXCEPT ![p][Limited] = @ + 1]
    /\ UNCHANGED <<kind, tier, used, adding, granted>>

SwitchProject(p) ==
    /\ kind \in ProjectKind
    /\ \E row \in {Activate(projects[p]), Deactivate(projects[p])} :
          projects' = [projects EXCEPT ![p] = row]
    /\ UNCHANGED <<kind, tier, used, adding, asking, granted>>

\* The client stops, or its insert fails.
GiveUp(c) ==
    /\ adding' = adding \ {c}
    /\ asking' = [p \in Projects |-> asking[p] \ {c}]
    /\ UNCHANGED <<kind, tier, used, projects, granted>>

\* can_change_tier says yes to every change.
ChangeTier(t) ==
    /\ tier' = t
    /\ UNCHANGED <<kind, used, adding, projects, asking, granted>>

TenantInit ==
    /\ kind \in Kind
    /\ tier \in Tiers
    /\ used = 0
    /\ adding = {}
    /\ projects = [p \in Projects |-> NewProject]
    /\ asking = [p \in Projects |-> {}]
    /\ granted = 0

TenantNext ==
    \/ \E c \in Clients : Ask(c) \/ Insert(c) \/ GiveUp(c)
    \/ \E c \in Clients, p \in Projects : AskProject(c, p) \/ InsertInProject(c, p)
    \/ \E p \in Projects : SwitchProject(p)
    \/ \E t \in Tiers : ChangeTier(t)

TenantSpec == TenantInit /\ [][TenantNext]_tenantVars

-----------------------------------------------------------------------------
(***************************************************************************)
(* Properties                                                              *)
(***************************************************************************)

\* The type invariant.
TenantTypeOK ==
    /\ kind \in Kind
    /\ tier \in Tiers
    /\ used \in Nat
    /\ adding \subseteq Clients
    /\ projects \in [Projects -> ProjectRow]
    /\ asking \in [Projects -> SUBSET Clients]
    /\ granted \in Nat

\* An organization comes in units, and asks for one kind of resource.
UnitsInv ==
    /\ used % Unit(kind) = 0
    /\ kind \in ProjectKind => used = 0 /\ adding = {}
    /\ kind \notin ProjectKind => \A p \in Projects : asking[p] = {}

\* However many clients test before the others insert, and whatever the tier
\* becomes meanwhile, the highest limit that was tested against is exceeded
\* by less than one unit a client, by nothing when one client asks at a time:
\* by the organization, or by each of its projects, which count for
\* themselves alone (can_create_project and the insert after it,
\* ORGANIZATION_PROJECT_MANAGEMENT.md:359-371, organization.rs:97-110,
\* is_within_organization_limits, project.rs:150).
Within(count, clients) ==
    count > 0 \/ clients # {} =>
        count + Unit(kind) * Cardinality(clients)
            <= granted + Unit(kind) * (Cardinality(Clients) - 1)

OvershootIsBounded ==
    /\ Within(used, adding)
    /\ kind \in ProjectKind =>
          \A p \in Projects : Within(projects[p][Limited], asking[p])

\* The tests agree at the limit and beyond it, where a lowered tier or
\* clients that raced leave the organization: what may be added has quota
\* left, no quota is left when nothing may be, no quota wraps around below
\* zero, and the percentage tells both (organization.rs:97-132, 219-228).
QuotaTestsAgree ==
    LET quota == GetRemainingQuota(tier, Usage)[Limited]
    IN  /\ quota \in 0..Limit
        /\ CanAdd(tier, Limited, Usage[Limited]) <=> quota > 0
        /\ quota > 0 => IsUsageWithinLimits(tier, Usage)
        /\ IsUsageWithinLimits(tier, Usage) => Usage[Limited] + quota = Limit
        /\ Limited \in {"jobs", "api_calls"} =>
              LET percent == UsagePercentage(tier, Usage)[Limited]
              IN  /\ percent.part >= 100 * percent.whole <=> quota = 0
                  /\ percent.part > 100 * percent.whole
                        <=> ~ IsUsageWithinLimits(tier, Usage)
=============================================================================
