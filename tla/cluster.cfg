CONSTANTS
    w1 = w1
    w2 = w2
    Workers <- TwoWorkers
    Templates <- FourTemplates
    Hosts <- OneHost
    Targets <- HostKeys
    MaxErrors = 3
    TaskCap = 1
    FindingCap = 1
    MaxPanics = 1
SPECIFICATION FairSpec
INVARIANTS
    SharedAnswer
    CancelStopsFindings
PROPERTIES
    KeepsPromise
    Terminates
