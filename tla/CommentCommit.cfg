\* The branch is pushed between the analysis and the comment on it.
CONSTANTS
    Reports = {"first"}
    AsUser = {"first"}
    MaxCommit = 2
    MaxTroubles = 0
    ServerSeesPrivate = FALSE
    NoCommit = 0
    Requests = {1}
    Accounts = {"ann", "bob"}
    NoAccount = "nobody"
    RequestedBy <- MCRequestedBy
    PageSize = 3
SPECIFICATION CommentsSpec
INVARIANTS
    CommentNamesItsCommit
CHECK_DEADLOCK FALSE
