CONSTANTS
    w1 = w1
    w2 = w2
    Workers <- TwoWorkers
    NTasks = 3
    Target <- MixedTargets
    Targets <- MixedKeys
    Probes <- MixedProbes
    MaxErrors = 2
    TaskCap = 1
    FindingCap = 1
    StopAtFirstMatch = FALSE
    MaxPanics = 2
SPECIFICATION FairSpec
INVARIANTS
    TypeOK
    CancelStopsSending
    SkippedOnlyAfterErrors
    AllTasksAccounted
PROPERTIES
    KeepsPromise
    Terminates
