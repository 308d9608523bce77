\* Lines so long that the window does not fit.
CONSTANTS
    Reports = {"first"}
    AsUser = {"first"}
    MaxCommit = 2
    MaxTroubles = 1
    ServerSeesPrivate = FALSE
    NoCommit = 0
    Viewings = {1}
    SignedInViewings = {}
    Asks = {1, 2, 3}
    SignedIn = {1}
    Outputs = {"insufficient", "diff", "sections"}
    Findings <- MCFindings
    Targets <- MCTargets
    Length <- MCLength
    Width <- MCWidth
    MaxContextLines = 4
    MaxContextChars = 4
    CacheCapacity = 2
SPECIFICATION Spec
INVARIANTS
    FindingIsSent
CHECK_DEADLOCK FALSE
