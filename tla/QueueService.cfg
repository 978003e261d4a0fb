\* Two changes of one queue at a time beside a call on its job.
SPECIFICATION QueueSpec
CONSTANTS
    j1 = j1
    j2 = j2
    main = main
    Jobs = {j1}
    Queues = {main}
    NoQueue = NoQueue
    Calls = {c1}
    MaxAttempts = {2}
    StatusTargets = {"Failed", "Processing"}
    QueueRows <- DeadLetteringRows
    Dependents <- NoDependents
    MayGiveUp = TRUE
    Faults = TRUE
    MaxStarts = 1
    Editors = {e1, e2}
INVARIANTS QueueTypeOK PauseHolds
PROPERTY JobServiceSpec
SYMMETRY EditorSymmetry
CHECK_DEADLOCK FALSE
