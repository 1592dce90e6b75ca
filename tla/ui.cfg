CONSTANTS
    Templates <- BadThenGood
    TotalTasks = 2
    FreeErrors = 1
    MaxRequests = 2
    FindingCap = 1
    ErrorCap = 1
    EventCap = 1
    MaxTicks = 1
    MaxPauses = 1
SPECIFICATION FairSpec
INVARIANTS
    TypeOK
    CompletionIsExact
    PauseHoldsFindings
PROPERTIES
    CompletionAnnounced
