------------------------------ MODULE Scoring ------------------------------
(***************************************************************************)
(* The arithmetic of a report: app/analysis/scoring.py and                 *)
(* app/analysis/priority.py.  There is no state here; AnalysisPipeline     *)
(* uses these operators on the findings an analysis has collected.         *)
(*                                                                         *)
(* Integers stand for the code's decimals, each with its unit: penalties   *)
(* are in fortieths (10 * 0.4 and 0.25 * 0.4 are whole), sensitivities     *)
(* and confidence factors in hundredths, category weights in halves.  The  *)
(* square root of the number of files is taken to two decimals.            *)
(***************************************************************************)
EXTENDS Integers, FiniteSetsExt, SequencesExt

(* app/schemas.py: the ladders a finding is placed on.  The order of       *)
(* Severities is the order of the enumeration, worst first.                *)
Severities == <<"critical", "high", "medium", "low", "info">>
Categories == {"secret", "security", "dependencies", "correctness", "testing",
               "configuration", "performance", "quality", "metric"}
Confidences == {"high", "medium", "low"}

SeverityWeight ==                                          \* in quarters
    [critical |-> 40, high |-> 24, medium |-> 12, low |-> 4, info |-> 1]
ConfidenceFactor == [high |-> 10, medium |-> 7, low |-> 4] \* in tenths

Policy(weight, sensitivity, sizeNormalised) ==
    [weight |-> weight, sensitivity |-> sensitivity, sizeNormalised |-> sizeNormalised]

Policies ==
    [secret        |-> Policy(6, 60, FALSE), security      |-> Policy(6, 30, FALSE),
     dependencies  |-> Policy(4, 18, FALSE), correctness   |-> Policy(4, 12, TRUE),
     testing       |-> Policy(3, 35, FALSE), configuration |-> Policy(2, 30, FALSE),
     performance   |-> Policy(2, 15, TRUE),  quality       |-> Policy(2, 10, TRUE),
     metric        |-> Policy(0, 10, TRUE)]

FindingPenalty(f) == SeverityWeight[f.severity] * ConfidenceFactor[f.confidence]

(* Python's sorted with a key that tells all elements apart.               *)
InOrder(S, Precedes(_, _)) ==
    [i \in 1..Cardinality(S) |-> CHOOSE x \in S : Cardinality({y \in S : Precedes(y, x)}) = i - 1]

(* Sums over the enumerations.  A category of weight 0 adds nothing to the *)
(* average, which the code leaves out of it.                               *)
OverCategories(Term(_)) ==
    Term("secret") + Term("security") + Term("dependencies") + Term("correctness")
      + Term("testing") + Term("configuration") + Term("performance") + Term("quality")
      + Term("metric")
OverLadders(Term(_, _)) ==
    LET OverConfidences(s) == Term(s, "high") + Term(s, "medium") + Term(s, "low")
    IN  OverConfidences("critical") + OverConfidences("high") + OverConfidences("medium")
          + OverConfidences("low") + OverConfidences("info")

(* Python's round: to the nearest integer, halves to the even one.         *)
RoundedQuotient(n, d) ==
    LET quotient == n \div d
        twice == 2 * (n % d)
    IN  IF twice > d \/ (twice = d /\ quotient % 2 = 1) THEN quotient + 1 ELSE quotient

(* In hundredths, at least one.                                            *)
SizeDivisor(files) ==
    IF files <= 1 THEN 100
    ELSE CHOOSE r \in 100..(100 * files) :
            r * r <= 10000 * files /\ (r + 1) * (r + 1) > 10000 * files

(* Findings of one severity and one confidence have the same penalty.      *)
Alike(findings, category, severity, confidence) ==
    {f \in findings : /\ f.category = category
                      /\ f.severity = severity /\ f.confidence = confidence}

CategoryPenalty(findings, category) ==
    OverLadders(LAMBDA s, c : FindingPenalty([severity |-> s, confidence |-> c])
                                 * Cardinality(Alike(findings, category, s, c)))

(* 100 / (1 + k * penalty), rounded.                                       *)
CategoryScore(findings, category, files) ==
    LET policy == Policies[category]
        divisor == IF policy.sizeNormalised THEN SizeDivisor(files) ELSE 100
    IN  RoundedQuotient(100 * 40 * divisor,
                        40 * divisor + policy.sensitivity * CategoryPenalty(findings, category))

SeverityCap == [critical |-> 39, high |-> 69, medium |-> 100, low |-> 100, info |-> 100]
CappingCategories == {"security", "secret"}

Caps(f) == f.category \in CappingCategories /\ f.confidence = "high"

Cap(findings) == Min({100} \cup {SeverityCap[f.severity] : f \in {g \in findings : Caps(g)}})

GradeFor(value) ==
    CASE value >= 90 -> "A"
      [] value >= 80 /\ value < 90 -> "B"
      [] value >= 70 /\ value < 80 -> "C"
      [] value >= 60 /\ value < 70 -> "D"
      [] value < 60 -> "F"

Weight(c) == Policies[c].weight

(* Faulty variant of Average: only categories with findings count.         *)
AverageOfPresent(findings, files) ==
    LET Present(c) == IF \E f \in findings : f.category = c THEN Weight(c) ELSE 0
        Share(c) == Present(c) * CategoryScore(findings, c, files)
    IN  IF OverCategories(Present) = 0 THEN 100
        ELSE RoundedQuotient(OverCategories(Share), OverCategories(Present))

(* The rounded weighted average of the categories.                         *)
Average(findings, files) ==
    LET Share(c) == Weight(c) * CategoryScore(findings, c, files)
    IN  RoundedQuotient(OverCategories(Share), OverCategories(Weight))

ScoreValue(findings, files) == Min({Average(findings, files), Cap(findings)})

-----------------------------------------------------------------------------
(* The sentence of the report: what it names, not how it is worded.        *)
Actionable == {"secret", "security", "dependencies", "correctness"}

IsLead(f) ==
    /\ f.category \in Actionable
    /\ f.confidence = "high"
    /\ f.severity \in {"critical", "high"}

(* Faulty variant of Summary: secrets were split out of the security       *)
(* category, and the list of what is worth naming was not extended.        *)
SummaryWithoutSecrets(findings) ==
    IF \E f \in findings : IsLead(f) /\ f.category # "secret" THEN "start with"
    ELSE IF findings = {} THEN "no issues" ELSE "nothing blocking"

Summary(findings) ==
    CASE findings = {} -> "no issues"
      [] \E f \in findings : IsLead(f) -> "start with"
      [] /\ findings # {} /\ ~ \E f \in findings : IsLead(f)
         /\ \E f \in findings : f.severity \in {"critical", "high"} -> "not confirmed"
      [] /\ findings # {}
         /\ ~ \E f \in findings : f.severity \in {"critical", "high"} -> "nothing blocking"

ComputeScore(findings, files) ==
    [value   |-> ScoreValue(findings, files),
     grade   |-> GradeFor(ScoreValue(findings, files)),
     summary |-> Summary(findings)]

-----------------------------------------------------------------------------
(* app/analysis/priority.py: severity times confidence times leverage, the *)
(* last two in hundredths.                                                 *)
PriorityConfidence == [high |-> 100, medium |-> 55, low |-> 25]
Leverage == [secret |-> 100, security |-> 100, dependencies |-> 85, correctness |-> 75,
             performance |-> 45, configuration |-> 40, testing |-> 35, quality |-> 30,
             metric |-> 10]

ComputePriority(f) ==
    RoundedQuotient(SeverityWeight[f.severity] * PriorityConfidence[f.confidence]
                        * Leverage[f.category], 4000)

SeverityRank(f) == CHOOSE i \in DOMAIN Severities : Severities[i] = f.severity

(* By priority, then severity; file, line and rule only make the order     *)
(* total, and "place" stands for the three of them.                        *)
Before(f, g) ==
    \/ ComputePriority(f) > ComputePriority(g)
    \/ /\ ComputePriority(f) = ComputePriority(g)
       /\ \/ SeverityRank(f) < SeverityRank(g)
          \/ SeverityRank(f) = SeverityRank(g) /\ f.place < g.place

Prioritise(findings) == InOrder(findings, Before)
=============================================================================
