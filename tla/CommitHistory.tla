--------------------------- MODULE CommitHistory ---------------------------
(***************************************************************************)
(* app/ingest/history.py: what a report of a repository says of its        *)
(* commits, put together from the answers of a REST API that may refuse,   *)
(* break off or not have counted yet.  There is no state here;             *)
(* AnalysisPipeline chooses the answers.                                   *)
(*                                                                         *)
(* The requests about files are under way five at a time, and each writes  *)
(* one entry of a dictionary that is read when all of them are back: the   *)
(* order they come back in tells nothing apart.                            *)
(***************************************************************************)
EXTENDS Scoring

CONSTANTS
    NoFile,              \* the file of a finding about the project
    MaxChurnFiles,       \* MAX_CHURN_FILES
    MaxChanges           \* commits that touch a file are 0..MaxChanges

ASSUME ChurnAssumption == MaxChurnFiles \in Nat \ {0} /\ MaxChanges \in Nat

(* What the statistics endpoint answers: weeks, none, 202 for "still       *)
(* computing", an error, no answer at all, or JSON nobody expects.         *)
WeeklyAnswers == {"weeks", "nothing", "computing", "refused", "lost", "garbled"}

(* An answer of 202 is asked again, once.                                  *)
WeeklyExchanges ==
    {<<a>> : a \in WeeklyAnswers \ {"computing"}} \cup {<<"computing", a>> : a \in WeeklyAnswers}

FileAnswers == [kind : {"commits"}, changes : 0..MaxChanges]
                 \cup [kind : {"refused", "lost"}]

NoActivity == [reason |-> "not asked"]

-----------------------------------------------------------------------------
AffectedFiles(findings) == {f.file : f \in {g \in findings : g.file # NoFile}}

(* The findings of a file, the worst of them, and the place of the first,  *)
(* which orders files as their paths do.                                   *)
Candidate(findings, file) ==
    LET inFile == {f \in findings : f.file = file}
    IN  [file     |-> file,
         findings |-> Cardinality(inFile),
         rank     |-> Min({SeverityRank(f) : f \in inFile}),
         place    |-> Min({f.place : f \in inFile})]

(* Faulty variant of Candidates: in the order of the paths.                *)
CandidatesByPath(findings) ==
    InOrder({Candidate(findings, file) : file \in AffectedFiles(findings)},
            LAMBDA c, d : c.place < d.place)

Candidates(findings) ==
    InOrder({Candidate(findings, file) : file \in AffectedFiles(findings)},
            LAMBDA c, d : \/ c.rank < d.rank
                          \/ c.rank = d.rank /\ c.findings > d.findings
                          \/ /\ c.rank = d.rank /\ c.findings = d.findings
                             /\ c.place < d.place)

Asked(findings) ==
    LET all == Candidates(findings) IN SubSeq(all, 1, Min({MaxChurnFiles, Len(all)}))

(* file_change_counts: one refusal is raised for all of them, a request    *)
(* that fails in another way only leaves out its file.                     *)
IsRefused(findings, files) == \E c \in ToSet(Asked(findings)) : files[c.file].kind = "refused"

Churn(findings, files) ==
    LET Product(c) == files[c.file].changes * c.findings
        counted == {c \in ToSet(Asked(findings)) : files[c.file].kind = "commits"}
    IN  IF IsRefused(findings, files) THEN <<>>
        ELSE InOrder(counted, LAMBDA c, d : \/ Product(c) > Product(d)
                                            \/ Product(c) = Product(d) /\ c.place < d.place)

(* A reason of the weekly series goes before one of the files; without a   *)
(* connection, or after JSON that cannot be read, files are not asked      *)
(* about.                                                                  *)
Reason(findings, weekly, files) ==
    CASE Last(weekly) \in {"computing", "refused", "lost", "garbled"} -> Last(weekly)
      [] Last(weekly) \in {"weeks", "nothing"} /\ IsRefused(findings, files) -> "refused"
      [] OTHER -> "none"

CollectActivity(findings, weekly, files) ==
    LET reason == Reason(findings, weekly, files)
        churn == IF reason \in {"lost", "garbled"} THEN <<>> ELSE Churn(findings, files)
    IN  IF reason = "none" /\ Last(weekly) = "nothing" /\ churn = <<>> THEN NoActivity
        ELSE [reason |-> reason, partial |-> reason # "none",
              weeks |-> Last(weekly) = "weeks", churn |-> churn,
              files_with_findings |-> IF reason = "garbled" THEN 0
                                      ELSE Cardinality(AffectedFiles(findings))]
=============================================================================
