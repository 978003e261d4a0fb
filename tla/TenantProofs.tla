---------------------------- MODULE TenantProofs ----------------------------
(***************************************************************************)
(* Theorems about the limits of an organization, for every value of the    *)
(* constants: any number of clients and of projects.                       *)
(***************************************************************************)
EXTENDS Tenant, FiniteSetTheorems, TLAPS

-----------------------------------------------------------------------------
(***************************************************************************)
(* Clients, kinds and limits.                                              *)
(***************************************************************************)

\* The clients that were admitted are no more than all clients.
LEMMA ClientSets ==
    /\ Cardinality(Clients) \in Nat \ {0}
    /\ \A S \in SUBSET Clients :
          IsFiniteSet(S) /\ Cardinality(S) \in Nat /\ Cardinality(S) <= Cardinality(Clients)
<1>1. IsFiniteSet(Clients) /\ Clients # {}
  BY TenantAssumption
<1>2. Cardinality(Clients) \in Nat /\ Cardinality(Clients) # 0
  BY <1>1, FS_CardinalityType, FS_EmptySet
<1>3. \A S \in SUBSET Clients :
         IsFiniteSet(S) /\ Cardinality(S) \in Nat /\ Cardinality(S) <= Cardinality(Clients)
  BY <1>1, FS_Subset, FS_CardinalityType
<1>4. QED
  BY <1>2, <1>3

\* One client less.
LEMMA OneLess ==
    ASSUME NEW S \in SUBSET Clients, NEW c \in S
    PROVE  Cardinality(S \ {c}) = Cardinality(S) - 1
  BY ClientSets, FS_RemoveElement

\* Kinds are told apart by what they limit and by their unit.
LEMMA Kinds ==
    /\ ProjectKind = {"project_queues", "project_workers"}
    /\ \A k \in ProjectKind : OfProject[k] \in {"queues", "workers"} /\ Unit(k) = 1
    /\ \A k \in Resource : k \notin ProjectKind
    /\ \A k : Unit(k) = IF k \in {"jobs", "api_calls"} THEN 10000 ELSE 1
<1>1. ProjectKind = {"project_queues", "project_workers"}
  BY DEF ProjectKind, OfProject
<1>2. \A k \in ProjectKind : OfProject[k] \in {"queues", "workers"}
  BY <1>1 DEF OfProject
<1>3. QED
  BY <1>1, <1>2 DEF Unit, Resource

\* The limits of a tier are numbers, of whole units, and none of them is 0
\* (organization.rs:53).
LEMMA LimitsAreUnits ==
    ASSUME NEW t \in Tier, NEW r \in Resource
    PROVE  /\ UsageLimits(t)[r] \in Nat \ {0}
           /\ r \in {"jobs", "api_calls"} => UsageLimits(t)[r] % 10000 = 0
<1>1. \A p, w, q, j, a :
         /\ Limits(p, w, q, j, a)["projects"] = p
         /\ Limits(p, w, q, j, a)["workers"] = w
         /\ Limits(p, w, q, j, a)["queues"] = q
         /\ Limits(p, w, q, j, a)["jobs"] = j
         /\ Limits(p, w, q, j, a)["api_calls"] = a
  BY DEF Limits
<1>2. CASE t = "Starter"
  BY <1>1, <1>2 DEF UsageLimits, Resource
<1>3. CASE t = "Pro"
  BY <1>1, <1>3 DEF UsageLimits, Resource
<1>4. CASE t = "Enterprise"
  BY <1>1, <1>4 DEF UsageLimits, Resource
<1>5. CASE t = "Custom"
  BY <1>1, <1>5 DEF UsageLimits, Resource
<1>6. QED
  BY <1>2, <1>3, <1>4, <1>5 DEF Tier

\* What is limited is a resource, and its limit is a number of whole units.
LEMMA LimitType ==
    ASSUME TenantTypeOK
    PROVE  /\ Limited \in Resource
           /\ Limit \in Nat \ {0}
           /\ Limit % Unit(kind) = 0
           /\ kind \in ProjectKind => Limited \in {"queues", "workers"}
           /\ kind \notin ProjectKind => Limited = kind
<1>1. /\ Limited \in Resource
      /\ kind \in ProjectKind => Limited \in {"queues", "workers"}
      /\ kind \notin ProjectKind => Limited = kind
  BY Kinds DEF TenantTypeOK, Kind, Limited, Resource
<1>2. tier \in Tier
  BY TenantAssumption DEF TenantTypeOK
<1>3. Limit \in Nat \ {0} /\ (Limited \in {"jobs", "api_calls"} => Limit % 10000 = 0)
  BY <1>1, <1>2, LimitsAreUnits DEF Limit
<1>4. Limit % Unit(kind) = 0
  <2>1. CASE kind \in {"jobs", "api_calls"}
    BY <1>1, <1>3, <2>1, Kinds DEF Resource
  <2>2. CASE kind \notin {"jobs", "api_calls"}
    BY <1>3, <2>2, Kinds
  <2>3. QED
    BY <2>1, <2>2
<1>5. QED
  BY <1>1, <1>3, <1>4

-----------------------------------------------------------------------------
(***************************************************************************)
(* The bound on a count: n units are there, the clients of S are admitted, *)
(* a unit is u, and the highest limit that was tested against is g.        *)
(***************************************************************************)

Fits(n, S, u, g) ==
    n > 0 \/ S # {} =>
        n + u * Cardinality(S) <= g + u * (Cardinality(Clients) - 1)

\* Within is this bound for the units and the limit of the organization, in a
\* state and in the next one.
LEMMA WithinFits ==
    /\ Within(used, adding) <=> Fits(used, adding, Unit(kind), granted)
    /\ Within(used, adding)' <=> Fits(used', adding', Unit(kind)', granted')
    /\ \A p \in Projects :
          /\ Within(projects[p][Limited], asking[p])
                <=> Fits(projects[p][Limited], asking[p], Unit(kind), granted)
          /\ Within(projects[p][Limited], asking[p])'
                <=> Fits(projects'[p][Limited'], asking'[p], Unit(kind)', granted')
  BY DEF Within, Fits

\* Below a limit of whole units there is room for one unit more, so that all
\* clients together exceed it by one unit less than they are.
LEMMA FitsWhenAdmitted ==
    ASSUME NEW u \in {1, 10000}, NEW n \in Nat, NEW l \in Nat, NEW g \in Nat,
           n < l, l <= g, n % u = 0, l % u = 0, NEW S \in SUBSET Clients
    PROVE  Fits(n, S, u, g)
<1> DEFINE m == Cardinality(S)
           k == Cardinality(Clients)
<1>1. m \in Nat /\ k \in Nat /\ m <= k
  BY ClientSets
<1> HIDE DEF m, k
<1>2. CASE u = 1
  <2>1. n + 1 * m <= g + 1 * (k - 1)
    BY <1>1, <1>2
  <2>2. QED
    BY <1>2, <2>1 DEF Fits, m, k
<1>3. CASE u = 10000
  <2>1. n + 10000 <= l
    BY <1>3
  <2>2. n + 10000 * m <= g + 10000 * (k - 1)
    BY <1>1, <2>1
  <2>3. QED
    BY <1>3, <2>2 DEF Fits, m, k
<1>4. QED
  BY <1>2, <1>3

\* The bound holds on when a client inserts what it was admitted for.
LEMMA FitsAfterInsert ==
    ASSUME NEW u \in {1, 10000}, NEW n \in Nat, NEW g \in Nat,
           NEW S \in SUBSET Clients, NEW c \in S, Fits(n, S, u, g)
    PROVE  Fits(n + u, S \ {c}, u, g)
<1> DEFINE m == Cardinality(S)
           k == Cardinality(Clients)
           r == Cardinality(S \ {c})
<1>1. m \in Nat /\ k \in Nat /\ r = m - 1
  BY ClientSets, OneLess
<1>2. n + u * m <= g + u * (k - 1)
  BY DEF Fits
<1> HIDE DEF m, k, r
<1>3. CASE u = 1
  <2>1. n + 1 * m <= g + 1 * (k - 1)
    BY <1>2, <1>3
  <2>2. (n + 1) + 1 * r <= g + 1 * (k - 1)
    BY <1>1, <2>1
  <2>3. QED
    BY <1>3, <2>2 DEF Fits, k, r
<1>4. CASE u = 10000
  <2>1. n + 10000 * m <= g + 10000 * (k - 1)
    BY <1>2, <1>4
  <2>2. (n + 10000) + 10000 * r <= g + 10000 * (k - 1)
    BY <1>1, <2>1
  <2>3. QED
    BY <1>4, <2>2 DEF Fits, k, r
<1>5. QED
  BY <1>3, <1>4

\* The bound holds on when clients give up, and when the highest limit that was
\* tested against grows.
LEMMA FitsWithFewer ==
    ASSUME NEW u \in {1, 10000}, NEW n \in Nat, NEW g \in Nat, NEW h \in Nat,
           g <= h, NEW S \in SUBSET Clients, NEW T \in SUBSET S, Fits(n, S, u, g)
    PROVE  Fits(n, T, u, h)
<1> DEFINE m == Cardinality(S)
           k == Cardinality(Clients)
           r == Cardinality(T)
<1>1. m \in Nat /\ r \in Nat /\ r <= m /\ k \in Nat
  BY ClientSets, FS_Subset
<1>2. SUFFICES ASSUME n > 0 \/ T # {} PROVE n + u * r <= h + u * (k - 1)
  BY DEF Fits
<1>3. n + u * m <= g + u * (k - 1)
  BY <1>2 DEF Fits
<1> HIDE DEF m, k, r
<1>4. CASE u = 1
  <2>1. n + 1 * m <= g + 1 * (k - 1)
    BY <1>3, <1>4
  <2>2. n + 1 * r <= h + 1 * (k - 1)
    BY <1>1, <2>1
  <2>3. QED
    BY <1>4, <2>2
<1>5. CASE u = 10000
  <2>1. n + 10000 * m <= g + 10000 * (k - 1)
    BY <1>3, <1>5
  <2>2. n + 10000 * r <= h + 10000 * (k - 1)
    BY <1>1, <2>1
  <2>3. QED
    BY <1>5, <2>2
<1>6. QED
  BY <1>4, <1>5

\* A test raises the highest limit to its own, and never lowers it.
LEMMA HighestIsHigher ==
    ASSUME NEW a \in Nat, NEW b \in Nat
    PROVE  Highest(a, b) \in Nat /\ a <= Highest(a, b) /\ b <= Highest(a, b)
  BY DEF Highest

-----------------------------------------------------------------------------
(***************************************************************************)
(* The invariant, and the steps of the organization.                       *)
(***************************************************************************)

TenantInv == TenantTypeOK /\ UnitsInv /\ OvershootIsBounded

\* What the invariant says of the two counts.
LEMMA InvFits ==
    ASSUME TenantInv
    PROVE  /\ Unit(kind) \in {1, 10000}
           /\ used \in Nat /\ granted \in Nat /\ adding \in SUBSET Clients
           /\ used % Unit(kind) = 0
           /\ kind \in ProjectKind => used = 0 /\ adding = {} /\ Unit(kind) = 1
           /\ Fits(used, adding, Unit(kind), granted)
           /\ \A p \in Projects :
                 /\ asking[p] \in SUBSET Clients
                 /\ projects[p] \in ProjectRow
                 /\ kind \in ProjectKind =>
                       /\ projects[p][Limited] \in Nat
                       /\ Fits(projects[p][Limited], asking[p], 1, granted)
<1>1. /\ Unit(kind) \in {1, 10000}
      /\ used \in Nat /\ granted \in Nat /\ adding \in SUBSET Clients
      /\ used % Unit(kind) = 0
      /\ kind \in ProjectKind => used = 0 /\ adding = {} /\ Unit(kind) = 1
      /\ \A p \in Projects : asking[p] \in SUBSET Clients /\ projects[p] \in ProjectRow
  BY Kinds DEF TenantInv, TenantTypeOK, UnitsInv
<1>2. Fits(used, adding, Unit(kind), granted)
  BY WithinFits DEF TenantInv, OvershootIsBounded
<1>3. ASSUME NEW p \in Projects, kind \in ProjectKind
      PROVE  /\ projects[p][Limited] \in Nat
             /\ Fits(projects[p][Limited], asking[p], 1, granted)
  <2>1. projects[p][Limited] \in Nat
    BY <1>1, <1>3, LimitType DEF TenantInv, ProjectRow
  <2>2. Within(projects[p][Limited], asking[p])
    BY <1>3 DEF TenantInv, OvershootIsBounded
  <2>3. QED
    BY <1>1, <1>3, <2>1, <2>2, WithinFits
<1>4. QED
  BY <1>1, <1>2, <1>3

\* It is enough to bound the counts of the next state.
LEMMA FitsIsInv ==
    ASSUME TenantTypeOK', UnitsInv', kind' = kind,
           Fits(used', adding', Unit(kind), granted'),
           \A p \in Projects : kind \in ProjectKind =>
              Fits(projects'[p][Limited], asking'[p], 1, granted')
    PROVE  TenantInv'
<1>1. Unit(kind)' = Unit(kind) /\ Limited' = Limited
  BY DEF Limited, Unit
<1>2. Within(used, adding)'
  BY <1>1, WithinFits
<1>3. ASSUME NEW p \in Projects, kind \in ProjectKind
      PROVE  Within(projects[p][Limited], asking[p])'
  <2>1. Fits(projects'[p][Limited'], asking'[p], Unit(kind)', granted')
    BY <1>1, <1>3, Kinds
  <2>2. QED
    BY <2>1, WithinFits
<1>4. QED
  BY <1>2, <1>3 DEF TenantInv, OvershootIsBounded

\* The count that a test compares is the organization's.
LEMMA UsageIsUsed ==
    ASSUME TenantTypeOK, kind \in Resource
    PROVE  Usage[kind] = used /\ Limited = kind
  BY Kinds, LimitType DEF Usage

\* The rows of all projects are finitely many.
LEMMA ProjectsAreCounted ==
    ASSUME TenantTypeOK, NEW r \in {"queues", "workers"}
    PROVE  CountOfProjects(r) \in Nat
<1> DEFINE f == [p \in Projects |-> {p} \X (1..projects[p][r])]
           T == {{p} \X (1..projects[p][r]) : p \in Projects}
<1>1. ASSUME NEW p \in Projects
      PROVE  IsFiniteSet({p} \X (1..projects[p][r]))
  <2>1. projects[p][r] \in Nat
    <3>1. projects[p] \in ProjectRow
      BY DEF TenantTypeOK
    <3>2. CASE r = "queues"
      BY <3>1, <3>2 DEF ProjectRow
    <3>3. CASE r = "workers"
      BY <3>1, <3>3 DEF ProjectRow
    <3>4. QED
      BY <3>2, <3>3
  <2>2. PICK n \in Int : n = projects[p][r]
    BY <2>1
  <2>3. IsFiniteSet(1..n)
    BY FS_Interval, 1 \in Int
  <2>4. IsFiniteSet({p})
    BY FS_Singleton
  <2>5. QED
    BY <2>2, <2>3, <2>4, FS_Product
<1>2. f \in Surjection(Projects, T)
  BY DEF Surjection
<1>3. IsFiniteSet(T)
  BY <1>2, TenantAssumption, FS_Surjection
<1>4. \A S \in T : IsFiniteSet(S)
  BY <1>1
<1>5. IsFiniteSet(UNION T)
  BY <1>3, <1>4, FS_UNION
<1>6. QED
  BY <1>5, FS_CardinalityType DEF CountOfProjects

\* Of what is limited there is a number, and of the rest nothing.
LEMMA UsageType ==
    ASSUME TenantTypeOK
    PROVE  /\ Usage[Limited] \in Nat
           /\ \A r \in Resource : Usage[r] = IF r = Limited THEN Usage[Limited] ELSE 0
<1>1. Limited \in Resource /\ used \in Nat
      /\ (kind \in ProjectKind => Limited \in {"queues", "workers"})
  BY LimitType DEF TenantTypeOK
<1>2. Usage[Limited] \in Nat
  BY <1>1, ProjectsAreCounted DEF Usage
<1>3. \A r \in Resource : Usage[r] = IF r = Limited THEN Usage[Limited] ELSE 0
  BY <1>1 DEF Usage
<1>4. QED
  BY <1>2, <1>3

\* Who is admitted by the organization was admitted below its limit.
LEMMA AskKeepsInv ==
    ASSUME TenantInv, NEW c \in Clients, Ask(c)
    PROVE  TenantInv'
<1>1. /\ TenantTypeOK /\ UnitsInv /\ OvershootIsBounded
      /\ kind \in Resource /\ kind \notin ProjectKind
      /\ adding' = adding \cup {c} /\ granted' = Highest(granted, Limit)
      /\ UNCHANGED <<kind, tier, used, projects, asking>>
  BY Kinds DEF Ask, TenantInv
<1>2. Limited = kind /\ Usage[kind] = used /\ used \in Nat /\ Limit \in Nat
  BY <1>1, UsageIsUsed, LimitType DEF TenantTypeOK
<1>3. used < Limit
  <2>1. CASE kind \in {"jobs", "api_calls"}
    <3>1. GetRemainingQuota(tier, Usage)[kind] > 0
      BY <2>1 DEF Ask
    <3>2. QED
      BY <1>1, <1>2, <3>1 DEF GetRemainingQuota, Limit
  <2>2. CASE kind \notin {"jobs", "api_calls"}
    BY <1>2, <2>2 DEF Ask, CanAdd, Limit
  <2>3. QED
    BY <2>1, <2>2
<1>4. adding' \in SUBSET Clients /\ used % Unit(kind) = 0
  BY <1>1 DEF TenantTypeOK, UnitsInv
<1>5. granted \in Nat /\ granted' \in Nat /\ granted <= granted' /\ Limit <= granted'
  BY <1>1, <1>2, HighestIsHigher DEF TenantTypeOK
<1>6. Fits(used, adding', Unit(kind), granted')
  BY <1>1, <1>2, <1>3, <1>4, <1>5, Kinds, LimitType, FitsWhenAdmitted
<1>7. TenantTypeOK' /\ UnitsInv'
  BY <1>1, <1>4, <1>5 DEF TenantTypeOK, UnitsInv
<1>8. QED
  BY <1>1, <1>6, <1>7, FitsIsInv

\* An insert is one that was admitted.
LEMMA InsertKeepsInv ==
    ASSUME TenantInv, NEW c \in Clients, Insert(c)
    PROVE  TenantInv'
<1>1. /\ c \in adding /\ adding' = adding \ {c} /\ used' = used + Unit(kind)
      /\ UNCHANGED <<kind, tier, projects, asking, granted>>
  BY DEF Insert
<1>2. kind \notin ProjectKind /\ Unit(kind) \in {1, 10000}
  BY <1>1, InvFits
<1>3. used' \in Nat /\ used' % Unit(kind) = 0
  BY <1>1, InvFits
<1>4. Fits(used + Unit(kind), adding \ {c}, Unit(kind), granted)
  BY <1>1, InvFits, FitsAfterInsert
<1>5. TenantTypeOK'
  BY <1>1, <1>3 DEF TenantInv, TenantTypeOK
<1>6. UnitsInv'
  BY <1>1, <1>2, <1>3 DEF TenantInv, UnitsInv
<1>7. QED
  BY <1>1, <1>2, <1>4, <1>5, <1>6, FitsIsInv

\* Who gives up leaves fewer that are admitted.
LEMMA GiveUpKeepsInv ==
    ASSUME TenantInv, NEW c \in Clients, GiveUp(c)
    PROVE  TenantInv'
<1>1. /\ adding' = adding \ {c}
      /\ asking' = [p \in Projects |-> asking[p] \ {c}]
      /\ UNCHANGED <<kind, tier, used, projects, granted>>
  BY DEF GiveUp
<1>2. TenantTypeOK'
  <2>1. asking' \in [Projects -> SUBSET Clients]
    BY <1>1, InvFits
  <2>2. QED
    BY <1>1, <2>1 DEF TenantInv, TenantTypeOK
<1>3. UnitsInv'
  BY <1>1 DEF TenantInv, UnitsInv
<1>4. Fits(used', adding', Unit(kind), granted')
  BY <1>1, InvFits, FitsWithFewer
<1>5. ASSUME NEW p \in Projects, kind \in ProjectKind
      PROVE  Fits(projects'[p][Limited], asking'[p], 1, granted')
  <2>1. /\ projects[p][Limited] \in Nat /\ asking[p] \in SUBSET Clients
        /\ granted \in Nat /\ Fits(projects[p][Limited], asking[p], 1, granted)
    BY <1>5, InvFits
  <2>2. Fits(projects[p][Limited], asking[p] \ {c}, 1, granted)
    BY <2>1, FitsWithFewer
  <2>3. QED
    BY <1>1, <2>2
<1>6. QED
  BY <1>1, <1>2, <1>3, <1>4, <1>5, FitsIsInv

-----------------------------------------------------------------------------
(***************************************************************************)
(* The steps of the projects.                                              *)
(***************************************************************************)

\* Who is admitted by a project was admitted below the limit of its tier; the
\* others are admitted against a highest limit that does not fall.
LEMMA AskProjectKeepsInv ==
    ASSUME TenantInv, NEW c \in Clients, NEW q \in Projects, AskProject(c, q)
    PROVE  TenantInv'
<1>1. /\ kind \in ProjectKind
      /\ IsWithinOrganizationLimits(projects[q], tier)
      /\ asking' = [asking EXCEPT ![q] = @ \cup {c}]
      /\ granted' = Highest(granted, Limit)
      /\ UNCHANGED <<kind, tier, used, adding, projects>>
  BY DEF AskProject
<1>2. Limited \in {"queues", "workers"} /\ Limit \in Nat
  BY <1>1, LimitType DEF TenantInv
<1>3. projects[q][Limited] < Limit
  BY <1>1, <1>2 DEF IsWithinOrganizationLimits, Limit
<1>4. /\ granted \in Nat /\ granted' \in Nat
      /\ granted <= granted' /\ Limit <= granted'
  BY <1>1, <1>2, InvFits, HighestIsHigher
<1>5. asking \in [Projects -> SUBSET Clients]
  BY DEF TenantInv, TenantTypeOK
<1>6. TenantTypeOK' /\ UnitsInv'
  <2>1. asking' \in [Projects -> SUBSET Clients]
    BY <1>1, <1>5
  <2>2. QED
    BY <1>1, <1>4, <2>1 DEF TenantInv, TenantTypeOK, UnitsInv
<1>7. Fits(used', adding', Unit(kind), granted')
  BY <1>1, <1>4, InvFits, FitsWithFewer
<1>8. ASSUME NEW p \in Projects
      PROVE  Fits(projects'[p][Limited], asking'[p], 1, granted')
  <2>1. /\ projects[p][Limited] \in Nat /\ asking[p] \in SUBSET Clients
        /\ Fits(projects[p][Limited], asking[p], 1, granted)
    BY <1>1, InvFits
  <2>2. CASE p = q
    <3>1. asking'[p] \in SUBSET Clients
      BY <1>1, <1>5, <2>2
    <3>2. QED
      BY <1>1, <1>2, <1>3, <1>4, <2>1, <2>2, <3>1, FitsWhenAdmitted
  <2>3. CASE p # q
    <3>1. Fits(projects[p][Limited], asking[p], 1, granted')
      BY <1>4, <2>1, FitsWithFewer
    <3>2. QED
      BY <1>1, <1>5, <2>3, <3>1
  <2>4. QED
    BY <2>2, <2>3
<1>9. QED
  BY <1>1, <1>6, <1>7, <1>8, FitsIsInv

\* An insert in a project is one that was admitted by it.
LEMMA InsertInProjectKeepsInv ==
    ASSUME TenantInv, NEW c \in Clients, NEW q \in Projects, InsertInProject(c, q)
    PROVE  TenantInv'
<1>1. /\ c \in asking[q]
      /\ asking' = [asking EXCEPT ![q] = @ \ {c}]
      /\ projects' = [projects EXCEPT ![q][Limited] = @ + 1]
      /\ UNCHANGED <<kind, tier, used, adding, granted>>
  BY DEF InsertInProject
<1>2. /\ kind \in ProjectKind
      /\ asking \in [Projects -> SUBSET Clients]
      /\ projects \in [Projects -> ProjectRow]
      /\ Limited \in {"queues", "workers"}
  BY <1>1, LimitType DEF TenantInv, TenantTypeOK, UnitsInv
<1>3. PICK row \in ProjectRow :
         /\ projects' = [projects EXCEPT ![q] = row]
         /\ row[Limited] = projects[q][Limited] + 1
  <2>1. projects' = [projects EXCEPT
                        ![q] = [projects[q] EXCEPT ![Limited] = projects[q][Limited] + 1]]
    BY <1>1
  <2>2. projects[q] \in ProjectRow
    BY <1>2
  <2>3. CASE Limited = "queues"
    <3>1. [projects[q] EXCEPT !["queues"] = projects[q]["queues"] + 1] \in ProjectRow
      BY <2>2 DEF ProjectRow
    <3>2. [projects[q] EXCEPT !["queues"] = projects[q]["queues"] + 1]["queues"]
             = projects[q]["queues"] + 1
      BY <2>2 DEF ProjectRow
    <3>3. QED
      BY <2>1, <2>3, <3>1, <3>2
  <2>4. CASE Limited = "workers"
    <3>1. [projects[q] EXCEPT !["workers"] = projects[q]["workers"] + 1] \in ProjectRow
      BY <2>2 DEF ProjectRow
    <3>2. [projects[q] EXCEPT !["workers"] = projects[q]["workers"] + 1]["workers"]
             = projects[q]["workers"] + 1
      BY <2>2 DEF ProjectRow
    <3>3. QED
      BY <2>1, <2>4, <3>1, <3>2
  <2>5. QED
    BY <1>2, <2>3, <2>4
<1>4. TenantTypeOK' /\ UnitsInv'
  <2>1. asking' \in [Projects -> SUBSET Clients]
    BY <1>1, <1>2
  <2>2. projects' \in [Projects -> ProjectRow]
    BY <1>2, <1>3
  <2>3. QED
    BY <1>1, <1>2, <2>1, <2>2 DEF TenantInv, TenantTypeOK, UnitsInv
<1>5. Fits(used', adding', Unit(kind), granted')
  BY <1>1, InvFits
<1>6. ASSUME NEW p \in Projects
      PROVE  Fits(projects'[p][Limited], asking'[p], 1, granted')
  <2>1. /\ projects[p][Limited] \in Nat /\ asking[p] \in SUBSET Clients
        /\ granted \in Nat /\ Fits(projects[p][Limited], asking[p], 1, granted)
    BY <1>2, InvFits
  <2>2. CASE p = q
    <3>1. Fits(projects[p][Limited] + 1, asking[p] \ {c}, 1, granted)
      BY <1>1, <2>1, <2>2, FitsAfterInsert
    <3>2. asking'[p] = asking[p] \ {c}
      BY <1>1, <1>2, <2>2
    <3>3. projects'[p][Limited] = projects[p][Limited] + 1
      BY <1>2, <1>3, <2>2
    <3>4. QED
      BY <1>1, <3>1, <3>2, <3>3
  <2>3. CASE p # q
    BY <1>1, <1>2, <1>3, <2>1, <2>3
  <2>4. QED
    BY <2>2, <2>3
<1>7. QED
  BY <1>1, <1>4, <1>5, <1>6, FitsIsInv

\* Switching a project on or off counts nothing.
LEMMA SwitchProjectKeepsInv ==
    ASSUME TenantInv, NEW q \in Projects, SwitchProject(q)
    PROVE  TenantInv'
<1>1. PICK row \in {Activate(projects[q]), Deactivate(projects[q])} :
         projects' = [projects EXCEPT ![q] = row]
  BY DEF SwitchProject
<1>2. kind \in ProjectKind /\ UNCHANGED <<kind, tier, used, adding, asking, granted>>
  BY DEF SwitchProject
<1>3. projects \in [Projects -> ProjectRow] /\ Limited \in {"queues", "workers"}
  BY <1>2, LimitType DEF TenantInv, TenantTypeOK
<1>4. row \in ProjectRow /\ row[Limited] = projects[q][Limited]
  BY <1>3 DEF ProjectRow, Activate, Deactivate
<1>5. TenantTypeOK' /\ UnitsInv'
  <2>1. projects' \in [Projects -> ProjectRow]
    BY <1>1, <1>3, <1>4
  <2>2. QED
    BY <1>2, <2>1 DEF TenantInv, TenantTypeOK, UnitsInv
<1>6. \A p \in Projects : projects'[p][Limited] = projects[p][Limited]
  BY <1>1, <1>3, <1>4
<1>7. Fits(used', adding', Unit(kind), granted')
  BY <1>2, InvFits
<1>8. \A p \in Projects : Fits(projects'[p][Limited], asking'[p], 1, granted')
  BY <1>2, <1>6, InvFits
<1>9. QED
  BY <1>2, <1>5, <1>7, <1>8, FitsIsInv

\* A change of the tier leaves what was counted and tested.
LEMMA ChangeTierKeepsInv ==
    ASSUME TenantInv, NEW t \in Tiers, ChangeTier(t)
    PROVE  TenantInv'
<1>1. tier' = t /\ UNCHANGED <<kind, used, adding, projects, asking, granted>>
  BY DEF ChangeTier
<1>2. TenantTypeOK' /\ UnitsInv'
  BY <1>1 DEF TenantInv, TenantTypeOK, UnitsInv
<1>3. Fits(used', adding', Unit(kind), granted')
  BY <1>1, InvFits
<1>4. \A p \in Projects : kind \in ProjectKind =>
         Fits(projects'[p][Limited], asking'[p], 1, granted')
  BY <1>1, InvFits
<1>5. QED
  BY <1>1, <1>2, <1>3, <1>4, FitsIsInv

-----------------------------------------------------------------------------
(***************************************************************************)
(* The theorems.                                                           *)
(***************************************************************************)

\* A new organization has nothing, and nobody was admitted.
LEMMA InitHoldsInv ==
    ASSUME TenantInit
    PROVE  TenantInv
<1>1. TenantTypeOK
  BY TenantAssumption DEF TenantInit, TenantTypeOK, ProjectRow, NewProject
<1>2. UnitsInv
  BY Kinds DEF TenantInit, UnitsInv
<1>3. Within(used, adding)
  BY DEF TenantInit, Within
<1>4. ASSUME NEW p \in Projects, kind \in ProjectKind
      PROVE  Within(projects[p][Limited], asking[p])
  <2>1. Limited \in {"queues", "workers"}
    BY <1>1, <1>4, LimitType
  <2>2. projects[p][Limited] = 0 /\ asking[p] = {}
    BY <2>1 DEF TenantInit, NewProject
  <2>3. QED
    BY <2>2 DEF Within
<1>5. QED
  BY <1>1, <1>2, <1>3, <1>4 DEF TenantInv, OvershootIsBounded

\* Every step keeps the invariant.
LEMMA NextKeepsInv ==
    ASSUME TenantInv, [TenantNext]_tenantVars
    PROVE  TenantInv'
<1>1. ASSUME NEW c \in Clients, Ask(c) \/ Insert(c) \/ GiveUp(c)
      PROVE  TenantInv'
  BY <1>1, AskKeepsInv, InsertKeepsInv, GiveUpKeepsInv
<1>2. ASSUME NEW c \in Clients, NEW p \in Projects,
             AskProject(c, p) \/ InsertInProject(c, p)
      PROVE  TenantInv'
  BY <1>2, AskProjectKeepsInv, InsertInProjectKeepsInv
<1>3. ASSUME NEW p \in Projects, SwitchProject(p)
      PROVE  TenantInv'
  BY <1>3, SwitchProjectKeepsInv
<1>4. ASSUME NEW t \in Tiers, ChangeTier(t)
      PROVE  TenantInv'
  BY <1>4, ChangeTierKeepsInv
<1>5. CASE UNCHANGED tenantVars
  <2>1. TenantTypeOK' /\ UnitsInv'
    BY <1>5 DEF tenantVars, TenantInv, TenantTypeOK, UnitsInv
  <2>2. UNCHANGED <<kind, used, adding, projects, asking, granted>>
    BY <1>5 DEF tenantVars
  <2>3. Fits(used', adding', Unit(kind), granted')
    BY <2>2, InvFits
  <2>4. \A p \in Projects : kind \in ProjectKind =>
           Fits(projects'[p][Limited], asking'[p], 1, granted')
    BY <2>2, InvFits
  <2>5. QED
    BY <2>1, <2>2, <2>3, <2>4, FitsIsInv
<1>6. QED
  BY <1>1, <1>2, <1>3, <1>4, <1>5 DEF TenantNext

\* The inductive invariant: the types, whole units, and the bound itself.
THEOREM TenantIsSound == TenantSpec => []TenantInv
<1>1. TenantInit => TenantInv
  BY InitHoldsInv
<1>2. TenantInv /\ [TenantNext]_tenantVars => TenantInv'
  BY NextKeepsInv
<1>3. QED
  BY <1>1, <1>2, PTL DEF TenantSpec

\* However many clients test before the others insert, an organization and
\* each of its projects exceed the highest limit that was tested against by
\* less than one unit a client (can_create_project, organization.rs:97, and
\* the insert that its caller makes later).
THEOREM RacersExceedByLessThanOneEach == TenantSpec => []OvershootIsBounded
<1>1. TenantInv => OvershootIsBounded
  BY DEF TenantInv
<1>2. QED
  BY <1>1, TenantIsSound, PTL

\* At and beyond the limit, the methods that answer whether something may be
\* added, whether the usage is within limits, what quota remains and which
\* percentage is used tell the same (organization.rs:97-132, 219-228).
THEOREM QuotaMethodsAgree == TenantSpec => []QuotaTestsAgree
<1>1. ASSUME TenantInv
      PROVE  QuotaTestsAgree
  <2>1. TenantTypeOK /\ tier \in Tier /\ Limited \in Resource
    BY <1>1, LimitType, TenantAssumption DEF TenantInv, TenantTypeOK
  <2>2. PICK n \in Nat :
           /\ Usage[Limited] = n
           /\ \A r \in Resource : Usage[r] = IF r = Limited THEN n ELSE 0
    BY <2>1, UsageType
  <2>3. PICK l \in Nat : l = Limit /\ UsageLimits(tier)[Limited] = l
    BY <2>1, LimitType DEF Limit
  <2>4. PICK q \in Nat : q = GetRemainingQuota(tier, Usage)[Limited]
                         /\ q = IF n >= l THEN 0 ELSE l - n
    BY <2>1, <2>2, <2>3 DEF GetRemainingQuota
  <2>5. \A r \in Resource : 0 <= UsageLimits(tier)[r]
    BY <2>1, LimitsAreUnits
  <2>6. IsUsageWithinLimits(tier, Usage) <=> n <= l
    BY <2>1, <2>2, <2>3, <2>5 DEF IsUsageWithinLimits
  <2>7. CanAdd(tier, Limited, Usage[Limited]) <=> n < l
    BY <2>1, <2>2, <2>3 DEF CanAdd
  <2>8. ASSUME Limited \in {"jobs", "api_calls"}
        PROVE  /\ UsagePercentage(tier, Usage)[Limited].part = 100 * n
               /\ UsagePercentage(tier, Usage)[Limited].whole = l
    BY <2>2, <2>3, <2>8 DEF UsagePercentage
  <2>9. QED
    BY <2>2, <2>3, <2>4, <2>6, <2>7, <2>8 DEF QuotaTestsAgree
<1>2. QED
  BY <1>1, TenantIsSound, PTL
=============================================================================
