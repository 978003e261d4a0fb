\* One call at a time: the abstract lifecycle, and final statuses that stay.
SPECIFICATION Spec
CONSTANTS
    j1 = j1
    j2 = j2
    j3 = j3
    main = main
    dead = dead
    Jobs = {j1, j2}
    Queues = {main, dead}
    NoQueue = NoQueue
    Calls = {c1}
    MaxAttempts = {2}
    StatusTargets <- BudgetTargets
    QueueRows <- ChangingQueue
    Dependents <- ParentDependents
    MayGiveUp = TRUE
    Faults = TRUE
    MaxStarts = 3
INVARIANT AttemptsAreStarts
PROPERTIES ImplementsLifecycle Finality
CHECK_DEADLOCK FALSE
