\* Two requests of one account and one of another about the report of an analysis.
CONSTANTS
    Reports = {"first"}
    AsUser = {"first"}
    MaxCommit = 2
    MaxTroubles = 2
    ServerSeesPrivate = FALSE
    NoCommit = 0
    Requests = {1, 2, 3}
    Accounts = {"ann", "bob"}
    NoAccount = "nobody"
    RequestedBy <- MCRequestedBy
    PageSize = 3
SPECIFICATION CommentsSpec
INVARIANTS
    OneCommentEach
CHECK_DEADLOCK FALSE
