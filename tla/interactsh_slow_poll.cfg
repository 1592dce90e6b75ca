CONSTANTS
    Requests <- OneRequest
    UrlsOf <- OneUrl
    Protocols = {"http"}
    Matching = {"http"}
    PollSecs = 10
    CooldownSecs = 14
    KeepaliveSecs = 120
    BackoffSecs = 120
    MaxHttpTime = 30
    MaxHits = 1
    MaxFailures = 0
SPECIFICATION Spec
INVARIANTS
    FinalPollRuns
