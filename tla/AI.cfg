\* Three requests, and a reader, of a report of a branch that is pushed once.
CONSTANTS
    Reports = {"first"}
    AsUser = {"first"}
    MaxCommit = 2
    MaxTroubles = 1
    ServerSeesPrivate = FALSE
    NoCommit = 0
    Viewings = {1}
    SignedInViewings = {}
    Asks = {1, 2, 3}
    SignedIn = {1}
    Outputs = {"diff", "sections"}
    Findings <- MCFindings
    Targets <- MCTargets
    Length <- MCLength
    Width <- MCWidth
    MaxContextLines = 4
    MaxContextChars = 4
    CacheCapacity = 2
SPECIFICATION FairSpec
INVARIANTS
    SentIsAnalysed
    CacheKeepsLatest
    OnlyValidAnswers
PROPERTIES
    AsksEnd
CHECK_DEADLOCK FALSE
