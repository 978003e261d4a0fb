\* Two calls at a time on one job, every status request, every fault.
SPECIFICATION Spec
CONSTANTS
    j1 = j1
    j2 = j2
    j3 = j3
    main = main
    dead = dead
    Jobs = {j1}
    Queues = {main, dead}
    NoQueue = NoQueue
    Calls = {c1, c2}
    MaxAttempts = {2}
    StatusTargets <- AllTargets
    QueueRows <- ChangingQueue
    Dependents <- NoDependents
    MayGiveUp = TRUE
    Faults = TRUE
    MaxStarts = 2
SYMMETRY CallSymmetry
INVARIANTS TypeOK CompletedWasStarted NoPhantomAttempts
CHECK_DEADLOCK FALSE
