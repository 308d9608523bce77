--------------------------- MODULE MCAnalysisJobs ---------------------------
(* Instances of AnalysisJobs for TLC: the constants are in the .cfg files. *)
EXTENDS AnalysisJobs, TLC
=============================================================================
