CONSTANTS
    FilesOf <- MovingFiles
    Arguments <- MovingPaths
    MayUpdate = TRUE
    RemovalErrors = TRUE
    Ttl = 1
    MaxTime = 4
    MaxVersions = 3
SPECIFICATION Spec
INVARIANTS
    LoadsComplete
    NotStale
