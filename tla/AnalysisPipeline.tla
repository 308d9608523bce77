-------------------------- MODULE AnalysisPipeline --------------------------
(***************************************************************************)
(* What an analysis computes, from the archive to the score: extraction    *)
(* (ArchiveExtraction), the snapshot and its filter, the engine's loop     *)
(* over the rules, and the order, the cut and the score of                 *)
(* AnalysisRunner._analyse.  AnalysisJobs has the same stages without      *)
(* their results.                                                          *)
(*                                                                         *)
(* A rule is a name with the findings it may report in the files it reads. *)
(* Which of them it does report is text, and here a choice.                *)
(***************************************************************************)
EXTENDS ArchiveExtraction, CommitHistory

CONSTANTS
    SkipDirectories, AlwaysRead,   \* the tables of app/ingest/filter.py,
    SkippedNames,                  \*   as the names of the instance go; the
    SourceNames,                   \* names of an analysable language
    BinaryNames,                   \* names of files with a NUL at their start
    MaxRead,                       \* snapshot.MAX_READ_BYTES
    Registry,                      \* the rules, in the order they run
    Catalogue,                     \* what the rules can report
    MaxFindings                    \* settings.max_findings

(* A place orders findings of equal rank and tells them apart.             *)
ASSUME CatalogueAssumption ==
    /\ IsFiniteSet(Catalogue)
    /\ \A f \in Catalogue :
          /\ f.category \in Categories /\ f.confidence \in Confidences
          /\ f.severity \in ToSet(Severities)
          /\ f.place \in Nat
          /\ \A g \in Catalogue : f.place = g.place => f = g

ASSUME MaxFindingsAssumption == MaxFindings \in Nat \ {0}

VARIABLES
    stage,       \* of the run, from "extracting" to "reported" or "failed"
    snapshot,    \* the paths a rule can ask for
    to_run,      \* rules the engine has still to run, in order
    rule_ids,    \* rules that applied
    collected,   \* the findings so far
    answers,     \* what GitHub said of the history, if it was asked
    report

vars == <<archiveVars, stage, snapshot, to_run, rule_ids, collected, answers, report>>

NoReport == [findings |-> <<>>]
NoAnswers == [weekly |-> <<>>, files |-> <<>>]

Init ==
    /\ ArchiveInit
    /\ stage = "extracting"
    /\ snapshot = {} /\ to_run = <<>> /\ rule_ids = {} /\ collected = {}
    /\ answers = NoAnswers /\ report = NoReport

-----------------------------------------------------------------------------
(* app/ingest/filter.py.  The directory is looked at before the list of    *)
(* manifests, so that of vendored packages not even these are read.        *)
IsSkippedDirectory(path) == \E i \in 1..(Len(path) - 1) : path[i] \in SkipDirectories

ShouldRead(path) ==
    /\ ~ IsSkippedDirectory(path)
    /\ Last(path) \in AlwaysRead \/ Last(path) \notin SkippedNames

ShouldAnalyse(path) == ~ IsSkippedDirectory(path) /\ Last(path) \in SourceNames

(* SourceFile.text: too large and binary files are known by name only.     *)
HasText(path) == disk[path] <= MaxRead /\ Last(path) \notin BinaryNames

AnalysedFiles == Cardinality({p \in snapshot : ShouldAnalyse(p)})

(* The facts a rule's "applies" asks for: a manifest, or source at all.    *)
Applies(rule) ==
    \E f \in Catalogue :
        /\ f.rule = rule
        /\ f.file = NoFile \/ \E p \in snapshot : Last(p) = f.file

(* What the rule can report of the files it is shown.                      *)
Reportable(rule) ==
    {f \in Catalogue :
        /\ f.rule = rule
        /\ f.file = NoFile \/ \E p \in snapshot : Last(p) = f.file /\ HasText(p)}

Extract ==
    /\ stage = "extracting"
    /\ ExtractionStep
    /\ UNCHANGED <<stage, snapshot, to_run, rule_ids, collected, answers, report>>

ExtractionFails ==
    /\ stage = "extracting" /\ phase \in Errors
    /\ stage' = "failed"
    /\ UNCHANGED <<archiveVars, snapshot, to_run, rule_ids, collected, answers, report>>

BuildSnapshot ==
    /\ stage = "extracting" /\ phase = Unpacked
    /\ stage' = "indexing"
    /\ snapshot' = {p \in DOMAIN disk : ShouldRead(p)}
    /\ UNCHANGED <<archiveVars, to_run, rule_ids, collected, answers, report>>

StartRules ==
    /\ stage = "indexing"
    /\ stage' = "analysing"
    /\ to_run' = SelectSeq(Registry, Applies)
    /\ rule_ids' = ToSet(to_run')
    /\ UNCHANGED <<archiveVars, snapshot, collected, answers, report>>

(* A rule that raises or runs out of time loses what it found, and only    *)
(* that.  It stays among the rules that ran.                               *)
RunRule ==
    /\ stage = "analysing" /\ to_run # <<>>
    /\ to_run' = Tail(to_run)
    /\ \E found \in SUBSET Reportable(Head(to_run)) : collected' = collected \cup found
    /\ UNCHANGED <<archiveVars, stage, snapshot, rule_ids, answers, report>>

(* analysis_timeout_seconds is around the whole of the engine.             *)
AnalysisTimesOut ==
    /\ stage = "analysing"
    /\ stage' = "failed"
    /\ UNCHANGED <<archiveVars, snapshot, to_run, rule_ids, collected, answers, report>>

(* AnalysisEngine._prioritise hands the findings over by penalty; the      *)
(* runner orders them again before it cuts.                                *)
ByPenalty(findings) ==
    InOrder(findings, LAMBDA f, g : \/ FindingPenalty(f) > FindingPenalty(g)
                                    \/ /\ FindingPenalty(f) = FindingPenalty(g)
                                       /\ f.place < g.place)

(* Faulty variant of Kept: the cut falls before the findings are ordered.  *)
KeptBeforeOrdering(findings) ==
    LET handed == ByPenalty(findings)
    IN  Prioritise(ToSet(SubSeq(handed, 1, Min({MaxFindings, Len(handed)}))))

Kept(findings) ==
    LET ordered == Prioritise(ToSet(ByPenalty(findings)))
    IN  SubSeq(ordered, 1, Min({MaxFindings, Len(ordered)}))

(* A tarball is a repository's, and only a repository has a history.       *)
Answers(findings) ==
    IF archive.format = "tar"
    THEN [weekly : WeeklyExchanges, files : [AffectedFiles(findings) -> FileAnswers]]
    ELSE {NoAnswers}

Activity(findings) ==
    IF archive.format = "tar" THEN CollectActivity(findings, answers'.weekly, answers'.files)
                              ELSE NoActivity

(* Scored after the cut: the score describes the findings it contains, and *)
(* so does the history.                                                    *)
MakeReport ==
    /\ stage = "analysing" /\ to_run = <<>>
    /\ stage' = "reported"
    /\ LET kept == Kept(collected)
       IN  /\ answers' \in Answers(ToSet(kept))
           /\ report' = [findings  |-> kept,
                         truncated |-> Cardinality(collected) > MaxFindings,
                         score     |-> ComputeScore(ToSet(kept), AnalysedFiles),
                         activity  |-> Activity(ToSet(kept)),
                         rule_ids  |-> rule_ids]
    /\ UNCHANGED <<archiveVars, snapshot, to_run, rule_ids, collected>>

Next ==
    \/ Extract \/ ExtractionFails \/ BuildSnapshot \/ StartRules
    \/ RunRule \/ AnalysisTimesOut \/ MakeReport

Spec == Init /\ [][Next]_vars
-----------------------------------------------------------------------------
Reported == stage = "reported"
InReport == ToSet(report.findings)

(* The cut drops the least important findings.  A measurement is never     *)
(* kept while something to act on, of medium severity and confidence, was  *)
(* dropped, however many measurements there are; and a proven critical     *)
(* finding in first-party code caps the grade although the score is taken  *)
(* after the cut.                                                          *)
WorstSurvivesTheCut ==
    LET serious(f) == /\ f.category \in Actionable
                      /\ f.severity \in {"critical", "high", "medium"}
                      /\ f.confidence \in {"high", "medium"}
    IN  Reported =>
          /\ \A d \in collected \ InReport, k \in InReport :
                ~ (serious(d) /\ k.category = "metric")
          /\ (\E f \in collected : Caps(f) /\ f.severity = "critical")
                => report.score.value <= 39 /\ report.score.grade = "F"

(* A grade that was capped says by what: the sentence of the report names  *)
(* a finding whenever one imposed a ceiling.  The two lists of categories  *)
(* are kept apart in the code.                                             *)
CapIsExplained ==
    Reported /\ Cap(InReport) < 100 => report.score.summary = "start with"

(* Accepting findings never makes a score worse, whichever are accepted:   *)
(* the effective score (reports._mark) is at least the score.              *)
AcceptingNeverLowersScore ==
    Reported => \A rest \in SUBSET InReport :
                    ScoreValue(rest, AnalysedFiles) >= report.score.value

(* What a report says of a repository's history is about its worst files   *)
(* and admits what GitHub refused.  When nothing was refused or lost, the  *)
(* files that were asked about, as many as allowed, have each a finding as *)
(* severe as any in a file that was left out; a refusal, of one file or of *)
(* the series, makes the whole partial and is given as its reason.         *)
HistoryIsOfTheWorst ==
    LET activity == report.activity
        affected == AffectedFiles(InReport)
        listed == {c.file : c \in ToSet(activity.churn)}
        asked == {answers.files[c.file].kind : c \in ToSet(Asked(InReport))}
    IN  Reported /\ answers # NoAnswers =>
          /\ activity = NoActivity \/ activity.reason = "none" =>
                Last(answers.weekly) \in {"weeks", "nothing"} /\ "refused" \notin asked
          /\ activity # NoActivity /\ activity.reason = "none" /\ "lost" \notin asked =>
                /\ listed \subseteq affected
                /\ Cardinality(listed) = Min({MaxChurnFiles, Cardinality(affected)})
                /\ \A f \in InReport, file \in listed :
                      f.file \in affected \ listed =>
                        \E g \in InReport : g.file = file /\ SeverityRank(g) <= SeverityRank(f)

(* "Any partial result carries partial=True and a reason" (collect_activity). *)
(* A file whose request got no answer is left out without a word.          *)
PartialIsSaid ==
    LET lost == \E c \in ToSet(Asked(InReport)) : answers.files[c.file].kind = "lost"
    IN  /\ Reported /\ answers # NoAnswers
        /\ Last(answers.weekly) \notin {"lost", "garbled"} /\ lost
        => report.activity # NoActivity /\ report.activity.partial
=============================================================================
