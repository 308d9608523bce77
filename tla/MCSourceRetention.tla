------------------------- MODULE MCSourceRetention -------------------------
(* Instances of SourceRetention for TLC.                                   *)
EXTENDS SourceRetention, TLC

CONSTANTS small, other, big

\* Two uploads of which two fit, and one that fits alone.
MCSizeOf == small :> 1 @@ other :> 1 @@ big :> 2

SameSize == [u \in Uploads |-> 1]
SmallSymmetry == Permutations({small, other})
=============================================================================
