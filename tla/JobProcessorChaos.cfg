\* Two workers and a client on one job, workers that stop, no heartbeats.
SPECIFICATION ProcessorSpec
CONSTANTS
    main = main
    w1 = w1
    w2 = w2
    Jobs = {j1}
    Queues = {main}
    NoQueue = NoQueue
    Calls = {w1, w2, client}
    MaxAttempts = {2}
    StatusTargets <- AllTargets
    ClientTargets = {"Cancelled"}
    QueueRows <- OpenQueue
    Dependents <- NoDependents
    MayGiveUp = FALSE
    Faults = TRUE
    MaxStarts = 3
    e1 = e1
    e2 = e2
    e3 = e3
    Duration <- RunningTimes
    Executions = {e1, e2, e3}
    Reports = {w1, w2}
    ExecutionTargets = {}
    AccessAnswers <- AllAnswers
    Workers = {w1, w2}
    ClientOps <- AllOps
    NoJob = NoJob
    NoExec = NoExec
SYMMETRY WorkerSymmetry
INVARIANTS ExecutionTypeOK AttemptNumbersAreReal ProcessorTypeOK SucceededJobWasRun TimelineTellsOfRuns StatisticsTellOfRuns RetryBudget
PROPERTIES SuccessesStay
CHECK_DEADLOCK FALSE
