------------------------- MODULE MCAcceptedFindings -------------------------
(* Instances of AcceptedFindings for TLC.                                  *)
EXTENDS AcceptedFindings, TLC

CONSTANTS alice, bob, a1, a2, u1, b1, f1, f2, repo

\* alice analysed the repository twice, one time more than a refresh covers, and
\* uploaded an archive once; bob analysed the repository too.  Findings overlap.
MCOwnerOf == a1 :> alice @@ a2 :> alice @@ u1 :> alice @@ b1 :> bob
MCRepositoryOf == a1 :> repo @@ a2 :> repo @@ u1 :> None @@ b1 :> repo
MCFindingsOf == a1 :> {f1, f2} @@ a2 :> {f1} @@ u1 :> {f2} @@ b1 :> {f1}
MCCreatedAt == a1 :> 1 @@ a2 :> 2 @@ u1 :> 3 @@ b1 :> 4

RequestSymmetry == Permutations(Requests)
=============================================================================
