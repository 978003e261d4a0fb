\* Two calls at a time, no faults: a cancellation reaches every dependent.
SPECIFICATION FairSpec
CONSTANTS
    j1 = j1
    j2 = j2
    j3 = j3
    main = main
    dead = dead
    Jobs = {j1, j2, j3}
    Queues = {main}
    NoQueue = NoQueue
    Calls = {c1, c2}
    MaxAttempts = {1}
    StatusTargets = {"Cancelled"}
    QueueRows <- OpenQueue
    Dependents <- ParentDependents
    MayGiveUp = FALSE
    Faults = FALSE
    MaxStarts = 0
PROPERTY CancelReachesDependents
CHECK_DEADLOCK FALSE
