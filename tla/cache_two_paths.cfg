CONSTANTS
    FilesOf <- TwoDirectories
    Arguments <- BothPaths
    MayUpdate = FALSE
    RemovalErrors = FALSE
    Ttl = 1
    MaxTime = 1
    MaxVersions = 1
SPECIFICATION Spec
INVARIANTS
    ResolvedIsLoadable
