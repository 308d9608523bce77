------------------------ MODULE MCRepositoryHistory ------------------------
EXTENDS RepositoryHistory

(* Three analyses of one repository by one account; one of them without    *)
(* signing in; one of them an upload.                                      *)
MCRequests ==
    {[r \in Runs |-> <<"ann", "repo">>],
     [r \in Runs |-> <<IF r = 2 THEN "nobody" ELSE "ann", "repo">>],
     [r \in Runs |-> <<"nobody", IF r = 2 THEN NoRepository ELSE "repo">>]}
MCVersions == {{"security"}, {"security", "quality"}}
MCRuleOf == [p \in Problems |-> IF p = 1 THEN "security" ELSE "quality"]
=============================================================================
