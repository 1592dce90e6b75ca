CONSTANTS
    FilesOf <- StillFiles
    Arguments <- OnePath
    MayUpdate = TRUE
    RemovalErrors = FALSE
    Ttl = 1
    MaxTime = 1
    MaxVersions = 1
SPECIFICATION Spec
INVARIANTS
    AcceptedIsWhole
