SPECIFICATION Spec
CONSTANTS
    Runs = {1, 2, 3}
    Requests <- MCRequests
    NoRepository = "upload"
    NoPrint = 99
    Problems = {1, 2}
    Rules = {"security", "quality"}
    RuleOf <- MCRuleOf
    Versions <- MCVersions
    MaxFindings = 1
    Window = 2
    Capacity = 2
    MaxRunning = 2
    MaxTroubles = 1
INVARIANTS
    UnrunResolvesNothing
CHECK_DEADLOCK FALSE
