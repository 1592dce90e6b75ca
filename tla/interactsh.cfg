CONSTANTS
    Requests <- OneRequest
    UrlsOf <- TwoUrls
    Protocols = {"http"}
    Matching = {"http"}
    PollSecs = 2
    CooldownSecs = 3
    KeepaliveSecs = 4
    BackoffSecs = 4
    MaxHttpTime = 6
    MaxHits = 2
    MaxFailures = 1
SPECIFICATION FairSpec
INVARIANTS
    TypeOK
    NobodyStranded
    FetchedOnce
    FirstHitEvaluated
    FinalPollUnlessSlow
PROPERTIES
    Terminates
