CONSTANTS
    Requests <- OneRequest
    UrlsOf <- OneUrl
    Protocols = {"dns", "http"}
    Matching = {"http"}
    PollSecs = 1
    CooldownSecs = 2
    KeepaliveSecs = 2
    BackoffSecs = 2
    MaxHttpTime = 1
    MaxHits = 2
    MaxFailures = 0
SPECIFICATION Spec
INVARIANTS
    MatchingHitEvaluated
