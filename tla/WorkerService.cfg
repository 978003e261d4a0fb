\* A worker that registers with one place (or with none, and is refused) and is
\* given two by old rows, two changes of it at a time, two dispatchers.
SPECIFICATION FairWorkersSpec
CONSTANTS
    Workers = {a}
    Queues = {q}
    SameOrg <- AllPairs
    CanProcess <- AllPairs
    Editors = {e1, e2}
    Pickers = {p1, p2}
    Capacities = {0, 1}
    HandedRows <- OldRows
    Weights = {1}
    WorkerTargets = {"Unhealthy"}
INVARIANTS WorkerTypeOK OverloadIsBounded
PROPERTY DrainEmpties
