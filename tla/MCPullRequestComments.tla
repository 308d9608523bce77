----------------------- MODULE MCPullRequestComments -----------------------
EXTENDS PullRequestComments

MCRequestedBy == [q \in Requests |-> IF q = 2 THEN "bob" ELSE "ann"]
=============================================================================
