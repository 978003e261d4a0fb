\* Two workers, no faults, a client that creates and cancels jobs.
SPECIFICATION FairProcessorSpec
CONSTANTS
    main = main
    w1 = w1
    w2 = w2
    Jobs = {j1}
    Queues = {main}
    NoQueue = NoQueue
    Calls = {w1, w2, client}
    MaxAttempts = {2}
    StatusTargets <- AllTargets
    ClientTargets = {}
    QueueRows <- OpenQueue
    Dependents <- NoDependents
    MayGiveUp = FALSE
    Faults = FALSE
    MaxStarts = 2
    e1 = e1
    e2 = e2
    e3 = e3
    Duration <- RunningTimes
    Executions = {e1, e2}
    Reports = {w1, w2, beat}
    ExecutionTargets = {"Running"}
    AccessAnswers <- AllAnswers
    Workers = {w1, w2}
    ClientOps = {"cancel_job"}
    NoJob = NoJob
    NoExec = NoExec
PROPERTY JobsComeToRest
CHECK_DEADLOCK FALSE
