CONSTANTS
    Files <- MCFiles
    Template <- MCTemplate
    Targets <- MCTargets
    Url <- MCUrl
    Options <- MCOptions
    Threshold = 2
    ChannelCap = 2
    MaxChanges = 2
SPECIFICATION Spec
INVARIANTS
    ReportsAgree
    SelectionHolds
PROPERTY EverythingReported
