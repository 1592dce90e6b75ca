CONSTANTS
    Workers = {1, 2, 3}
    Scenarios <- MCScenarios
    Urls <- MCUrls
    Retries = 1
    DefaultMax = 1
    MaxBody = 2
    Entries <- MCEntries
    Nameservers = 1
    DnsRetries = 2
    Blocks <- MCBlocks
    MaxBytes = 4
    CodeEnabled = TRUE
    Threads = {t1}
    Scripts = {1, 2, 3}
    MaxObjects = 3
    Leaves = {"p", "q"}
    TrueLeaves = {"p"}
    Bad = "bad"
    Trees <- MCTrees
    TokenSequences <- MCTokenSequences
    Letters = {"a", "b"}
    WordInputs <- MCWordInputs
    MatcherInputs <- MCMatcherInputs
    Spelled <- MCSpelled
    Wide = {"w"}
    FuzzInputs <- MCFuzzInputs
SPECIFICATION Spec
INVARIANTS
    RedirectsAsAsked
    CookiesByPolicy
    AnswerHeard
    RawIsTranscript
    HandlesStayOwn
    ExpressionsRead
    MatchersTell
    AttacksCover
PROPERTIES
    SilentPeerLetsGo
    Ends
