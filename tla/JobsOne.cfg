\* One job followed by two clients, with every fault.
CONSTANTS
    Jobs = {j1}
    Clients = {c1, c2}
    NoJob = NoJob
    Kinds = {"repository", "upload"}
    Rules = 2
    HasDatabase = TRUE
    Faults = {"restart", "bookkeeping", "storage", "slow", "workspace"}
SPECIFICATION FairSpec
INVARIANTS
    TerminalEndsLog
    StreamIsFaithful
    DoneMeansSaved
    PollMatchesLog
PROPERTIES
    JobsEnd
    StreamsEnd
