\* Two clients that ask at once, every tier, every resource up to its limit.
SPECIFICATION TenantSpec
CONSTANTS
    Clients = {c1, c2}
    Projects = {p1, p2}
    Tiers <- AllTiers
    MaxCount = 12
SYMMETRY ClientSymmetry
INVARIANTS OvershootIsBounded QuotaTestsAgree
CHECK_DEADLOCK FALSE
