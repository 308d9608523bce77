----------------------- MODULE RepositoryHistory_proofs -----------------------
(* What a comparison says of any two reports and any window of history, and *)
(* that what an analysis stores as its delta stays true of the code.        *)
EXTENDS RepositoryHistory, FiniteSetTheorems, WellFoundedInduction, SequenceTheorems, TLAPS

-----------------------------------------------------------------------------
(* Every fingerprint of the new report is exactly one of new, reopened and *)
(* unchanged, and what is resolved is in none of them (compare: "disjoint  *)
(* by construction").                                                      *)
THEOREM DeltaPartitions ==
    ASSUME NEW current, NEW previous, NEW earlier
    PROVE  LET delta == Compare(current, previous, earlier)
               both == Prints(current) \cap Prints(previous)
           IN  /\ Prints(current) = delta.new \cup delta.reopened \cup both
               /\ delta.new \cap delta.reopened = {}
               /\ (delta.new \cup delta.reopened) \cap both = {}
               /\ delta.resolved \cap Prints(current) = {}
               /\ Prints(previous) = delta.resolved \cup both
  BY DEF Compare

(* The size of a set that falls into three disjoint parts.                 *)
LEMMA ThreeParts ==
    ASSUME NEW A, NEW B, NEW C,
           IsFiniteSet(A), IsFiniteSet(B), IsFiniteSet(C),
           A \cap B = {}, (A \cup B) \cap C = {}
    PROVE  Cardinality(A \cup B \cup C) = Cardinality(A) + Cardinality(B) + Cardinality(C)
<1>1. Cardinality({}) = 0
  BY FS_EmptySet
<1>2. IsFiniteSet(A \cup B)
      /\ Cardinality(A \cup B) = Cardinality(A) + Cardinality(B) - Cardinality(A \cap B)
  BY FS_Union
<1>3. Cardinality((A \cup B) \cup C)
        = Cardinality(A \cup B) + Cardinality(C) - Cardinality((A \cup B) \cap C)
  BY <1>2, FS_Union
<1>4. /\ Cardinality(A) \in Nat /\ Cardinality(B) \in Nat /\ Cardinality(C) \in Nat
      /\ Cardinality(A \cup B) \in Nat
  BY <1>2, FS_CardinalityType
<1>5. Cardinality(A \cap B) = 0 /\ Cardinality((A \cup B) \cap C) = 0
  BY <1>1, Zenon
<1>6. Cardinality(A \cup B) = Cardinality(A) + Cardinality(B)
  BY <1>2, <1>4, <1>5
<1>7. Cardinality((A \cup B) \cup C) = Cardinality(A \cup B) + Cardinality(C)
  BY <1>3, <1>4, <1>5
<1> QED
  BY <1>4, <1>6, <1>7

(* The three numbers a reader is shown add up to the findings that can be  *)
(* told apart: nothing is counted twice and nothing is left out.           *)
THEOREM DeltaCounts ==
    ASSUME NEW current, NEW previous, NEW earlier, IsFiniteSet(Prints(current))
    PROVE  LET delta == Compare(current, previous, earlier)
           IN  Cardinality(Prints(current))
                 = Cardinality(delta.new) + Cardinality(delta.reopened) + delta.unchanged
<1> DEFINE new == Compare(current, previous, earlier).new
           reopened == Compare(current, previous, earlier).reopened
           both == Prints(current) \cap Prints(previous)
<1>1. /\ Prints(current) = new \cup reopened \cup both
      /\ new \cap reopened = {} /\ (new \cup reopened) \cap both = {}
  BY DeltaPartitions
<1>2. Compare(current, previous, earlier).unchanged = Cardinality(both)
  BY DEF Compare
<1> HIDE DEF new, reopened, both
<1>3. IsFiniteSet(new) /\ IsFiniteSet(reopened) /\ IsFiniteSet(both)
  <2>1. new \subseteq Prints(current) /\ reopened \subseteq Prints(current)
        /\ both \subseteq Prints(current)
    BY <1>1
  <2>2. QED  BY <2>1, FS_Subset
<1>4. Cardinality(Prints(current)) = Cardinality(new) + Cardinality(reopened) + Cardinality(both)
  BY <1>1, <1>3, ThreeParts
<1> QED
  BY <1>2, <1>4 DEF new, reopened

-----------------------------------------------------------------------------
(* The inductive invariant.                                                *)
Made(r) == pc[r] \in {"compare", "save", "done"}
Finished == {r \in Runs : pc[r] = "done"}

Fields == {"id", "owner", "repository", "created", "tree", "findings", "truncated",
           "rule_ids", "failed", "overlooked", "delta"}

Shape ==
    /\ backend \in {"memory", "postgres"}
    /\ pc \in [Runs -> Steps]
    /\ DOMAIN report = Ids
    /\ stored \in Seq(Ids)
    /\ seen \in [Runs -> SUBSET Ids]
    /\ clock \in Nat
    /\ overlapped \subseteq Runs

(* What a report that was not cut does not have is not in the code, or was *)
(* not looked for.                                                         *)
Looked(i) == {p \in report[i].tree : LookedFor(p, report[i])}

ReportIsSound(r) ==
    /\ DOMAIN report[r] = Fields
    /\ report[r].id = r
    /\ report[r].created \in 1..clock
    /\ Prints(report[r]) \subseteq Looked(r)
    /\ report[r].truncated \/ Prints(report[r]) = Looked(r)
    /\ pc[r] = "compare" => report[r].delta = NoDelta

LegacyIsBare ==
    /\ report[Legacy].id = Legacy /\ report[Legacy].created = 0
    /\ report[Legacy].findings = {[fingerprint |-> NoPrint]}

(* Only what is finished is kept or was seen, and nothing is kept twice.   *)
KeptIsFinished ==
    /\ \A n \in DOMAIN stored : stored[n] \in Finished \cup {Legacy}
    /\ \A r \in Runs : seen[r] \subseteq Finished \cup {Legacy}
    /\ \A m, n \in DOMAIN stored : stored[m] = stored[n] => m = n

(* Runs that were alone are made, dated and kept in the order of starting. *)
AloneInOrder ==
    /\ \A q, r \in Runs : q < r /\ pc[r] # "idle" => pc[q] # "idle"
    /\ \A q, r \in Active : q # r => q \in overlapped
    /\ \A q, r \in Runs \ overlapped :
          q < r /\ pc[r] # "idle" =>
             /\ q \notin Active
             /\ Made(q) /\ Made(r) => report[q].created < report[r].created
    /\ \A m, n \in DOMAIN stored :
          m < n /\ stored[m] \notin overlapped /\ stored[n] \notin overlapped
             => stored[m] < stored[n]

OwnSeen(r) == {i \in seen[r] : /\ report[i].owner = report[r].owner
                               /\ report[i].repository = report[r].repository}

(* A delta is the comparison with the latest of a window of what was seen. *)
DeltaIsOf(r, window) ==
    LET latest == report[r].delta.previous
    IN  /\ latest \in window /\ window \subseteq OwnSeen(r)
        /\ report[r].delta = Compare(report[r], report[latest],
                                     {report[i] : i \in window \ {latest}})
        /\ IsComparable(report[r], report[latest])
        /\ Cardinality(OwnSeen(r)) <= Window => window = OwnSeen(r)
        /\ ({r} \cup seen[r]) \cap overlapped = {} => \A i \in OwnSeen(r) : i <= latest

DeltasAreKnown == \A r \in Runs : Compared(r) => \E window \in SUBSET Ids : DeltaIsOf(r, window)

HistoryInv ==
    /\ Shape
    /\ \A r \in Runs : Made(r) => ReportIsSound(r)
    /\ LegacyIsBare
    /\ KeptIsFinished
    /\ AloneInOrder
    /\ DeltasAreKnown
-----------------------------------------------------------------------------
LEMMA HistoryInvInit == Init => HistoryInv
<1> SUFFICES ASSUME Init PROVE HistoryInv
  OBVIOUS
<1> USE RunsAssumption DEF Init
<1>1. Legacy \notin Runs /\ Legacy \in Ids
  BY DEF Legacy, Ids
<1>2. Shape
  <2>1. stored \in Seq(Ids)
    <3>1. <<>> \in Seq(Ids) /\ <<Legacy>> \in Seq(Ids)
      BY <1>1
    <3> QED
      BY <3>1
  <2> QED
    BY <1>1, <2>1 DEF Shape, Steps
<1>3. \A r \in Runs : ~ Made(r) /\ ~ Compared(r) /\ r \notin Active
  BY DEF Made, Compared, Active
<1>4. LegacyIsBare
  BY <1>1 DEF LegacyIsBare, LegacyReport, Legacy
<1>5. KeptIsFinished
  BY DEF KeptIsFinished
<1>6. AloneInOrder
  BY <1>3 DEF AloneInOrder, Active
<1> QED
  BY <1>2, <1>3, <1>4, <1>5, <1>6 DEF HistoryInv, DeltasAreKnown

LEMMA ShapeStep ==
    ASSUME Shape, Next
    PROVE  Shape'
<1> USE DEF Shape, storeVars, configVars
<1>1. ASSUME NEW r \in Runs, Start(r) PROVE Shape'
  BY <1>1 DEF Start, Steps, Active
<1>2. ASSUME NEW r \in Runs, Analyse(r) PROVE Shape'
  BY <1>2 DEF Analyse, Steps
<1>3. ASSUME NEW r \in Runs, LoadHistory(r) PROVE Shape'
  <2>1. seen' \in [Runs -> SUBSET Ids]
    BY <1>3 DEF LoadHistory, ToSet
  <2>2. DOMAIN report' = Ids
    BY <1>3 DEF LoadHistory
  <2> QED
    BY <1>3, <2>1, <2>2 DEF LoadHistory, Steps
<1>4. ASSUME NEW r \in Runs, SaveReport(r) PROVE Shape'
  BY <1>4 DEF SaveReport, Saved, Steps, Ids
<1>5. ASSUME NEW i \in Ids, DeleteReport(i) PROVE Shape'
  <2>1. stored' \in Seq(Ids)
    BY <1>5 DEF DeleteReport, RemoveAt
  <2> QED
    BY <1>5, <2>1 DEF DeleteReport
<1>6. ASSUME Deploy PROVE Shape'
  BY <1>6 DEF Deploy, Steps
<1> QED
  BY <1>1, <1>2, <1>3, <1>4, <1>5, <1>6 DEF Next

(* Deleting takes one out of what is kept and leaves the order.            *)
LEMMA Removed ==
    ASSUME NEW S, NEW s \in Seq(S), NEW n \in DOMAIN s
    PROVE  LET t == RemoveAt(s, n)
           IN  /\ DOMAIN t = 1 .. (Len(s) - 1)
               /\ \A k \in DOMAIN t : t[k] = s[IF k < n THEN k ELSE k + 1]
<1> DEFINE before == SubSeq(s, 1, n - 1)
           after == SubSeq(s, n + 1, Len(s))
<1>1. n \in 1 .. Len(s) /\ Len(s) \in Nat
  OBVIOUS
<1>2. /\ before \in Seq(S) /\ Len(before) = n - 1
      /\ \A k \in 1 .. (n - 1) : before[k] = s[k]
  BY <1>1
<1>3. /\ after \in Seq(S) /\ Len(after) = Len(s) - n
      /\ \A k \in 1 .. (Len(s) - n) : after[k] = s[n + k]
  BY <1>1
<1> HIDE DEF before, after
<1>4. /\ Len(before \o after) = Len(s) - 1 /\ before \o after \in Seq(S)
      /\ \A k \in 1 .. (Len(s) - 1) :
            (before \o after)[k] = IF k <= n - 1 THEN before[k] ELSE after[k - (n - 1)]
  <2>1. /\ before \o after \in Seq(S) /\ Len(before \o after) = Len(before) + Len(after)
        /\ \A k \in 1 .. (Len(before) + Len(after)) :
              (before \o after)[k] = IF k <= Len(before) THEN before[k]
                                                        ELSE after[k - Len(before)]
    BY <1>2, <1>3, ConcatProperties
  <2>2. Len(before) + Len(after) = Len(s) - 1
    BY <1>1, <1>2, <1>3
  <2> QED
    BY <1>2, <2>1, <2>2
<1>5. \A k \in 1 .. (Len(s) - 1) : (before \o after)[k] = s[IF k < n THEN k ELSE k + 1]
  <2> SUFFICES ASSUME NEW k \in 1 .. (Len(s) - 1)
               PROVE  (before \o after)[k] = s[IF k < n THEN k ELSE k + 1]
    OBVIOUS
  <2>1. (before \o after)[k] = IF k <= n - 1 THEN before[k] ELSE after[k - (n - 1)]
    BY <1>4
  <2>2. CASE k < n
    <3>1. k \in 1 .. (n - 1) /\ k <= n - 1
      BY <1>1, <2>2
    <3> QED
      BY <1>2, <2>1, <2>2, <3>1
  <2>3. CASE ~ (k < n)
    <3>1. /\ k - (n - 1) \in 1 .. (Len(s) - n) /\ ~ (k <= n - 1)
          /\ n + (k - (n - 1)) = k + 1
      BY <1>1, <2>3
    <3>2. (before \o after)[k] = after[k - (n - 1)]
      BY <2>1, <3>1
    <3>3. after[k - (n - 1)] = s[n + (k - (n - 1))]
      BY <1>3, <3>1
    <3> QED
      BY <2>3, <3>1, <3>2, <3>3
  <2> QED
    BY <2>2, <2>3
<1>6. DOMAIN (before \o after) = 1 .. (Len(s) - 1)
  BY <1>4
<1>7. before \o after = RemoveAt(s, n)
  BY DEF RemoveAt, before, after
<1> QED
  BY <1>5, <1>6, <1>7

(* A report that is finished is not touched again, and a run that was not  *)
(* alone will not have been.                                               *)
LEMMA FinishedStays ==
    ASSUME Shape, Next
    PROVE  /\ Finished \subseteq Finished'
           /\ \A i \in Ids : i \in Finished \/ i = Legacy => report'[i] = report[i]
           /\ overlapped \subseteq overlapped'
<1> USE RunsAssumption DEF Shape, Finished, Ids, Legacy, storeVars, configVars
<1>1. CASE \E r \in Runs : Start(r)
  BY <1>1 DEF Start
<1>2. CASE \E r \in Runs : Analyse(r)
  BY <1>2 DEF Analyse
<1>3. CASE \E r \in Runs : LoadHistory(r)
  BY <1>3 DEF LoadHistory
<1>4. CASE \E r \in Runs : SaveReport(r)
  BY <1>4 DEF SaveReport
<1>5. CASE \E i \in Ids : DeleteReport(i)
  BY <1>5 DEF DeleteReport
<1>6. CASE Deploy
  BY <1>6 DEF Deploy, Active
<1> QED
  BY <1>1, <1>2, <1>3, <1>4, <1>5, <1>6 DEF Next
-----------------------------------------------------------------------------
LEMMA SingleField ==
    ASSUME NEW S
    PROVE  {f.fingerprint : f \in {[fingerprint |-> p] : p \in S}} = S
<1> DEFINE F == {[fingerprint |-> p] : p \in S}
<1>1. ASSUME NEW p \in S PROVE p \in {f.fingerprint : f \in F}
  <2>1. [fingerprint |-> p] \in F /\ [fingerprint |-> p].fingerprint = p
    OBVIOUS
  <2> HIDE DEF F
  <2> QED
    BY <2>1, Zenon
<1>2. ASSUME NEW f \in F PROVE f.fingerprint \in S
  OBVIOUS
<1> QED
  BY <1>1, <1>2

(* What the engine reports is what it looked for, less what was cut.       *)
LEMMA SoundWhenMade ==
    ASSUME Shape, NEW r \in Runs, Analyse(r)
    PROVE  ReportIsSound(r)'
<1> USE ProblemsAssumption DEF Shape
<1>1. PICK tree \in SUBSET Problems, applicable \in SUBSET deployed :
         \E failed \in SUBSET (applicable \cap {RuleOf[p] : p \in tree}) :
         \E overlooked \in SUBSET Reachable(tree, applicable, failed) :
            report' = [report EXCEPT ![r] =
                          EngineReport(r, tree, applicable, failed, overlooked)]
  BY DEF Analyse
<1>2. PICK failed \in SUBSET (applicable \cap {RuleOf[p] : p \in tree}) :
         \E overlooked \in SUBSET Reachable(tree, applicable, failed) :
            report' = [report EXCEPT ![r] =
                          EngineReport(r, tree, applicable, failed, overlooked)]
  BY <1>1
<1>3. PICK overlooked \in SUBSET Reachable(tree, applicable, failed) :
         report' = [report EXCEPT ![r] =
                       EngineReport(r, tree, applicable, failed, overlooked)]
  BY <1>2
<1> DEFINE found == Reachable(tree, applicable, failed) \ overlooked
           kept == {p \in found : Cardinality({q \in found : q < p}) < MaxFindings}
           cut == found # kept
<1>4. kept \subseteq found /\ found \subseteq Problems
  BY DEF Reachable
<1> HIDE DEF kept, cut
<1>5. report'[r] = [id |-> r, owner |-> report[r].owner, repository |-> report[r].repository,
                    created |-> clock + 1, tree |-> tree,
                    findings |-> {[fingerprint |-> p] : p \in kept},
                    truncated |-> cut,
                    rule_ids |-> applicable, failed |-> failed,
                    overlooked |-> overlooked, delta |-> NoDelta]
  BY <1>3 DEF EngineReport, Ids, kept, cut
<1>6. Prints(report'[r]) = kept
  <2>1. report'[r].findings = {[fingerprint |-> p] : p \in kept}
    BY <1>5
  <2>2. {f.fingerprint : f \in {[fingerprint |-> p] : p \in kept}} = kept
    BY SingleField
  <2>3. NoPrint \notin kept
    BY <1>4
  <2> QED
    BY <2>1, <2>2, <2>3 DEF Prints
<1>7. Looked(r)' = found
  BY <1>5 DEF Looked, LookedFor, Reachable
<1>8. clock' = clock + 1 /\ pc'[r] = "compare"
  BY DEF Analyse
<1>9. DOMAIN report'[r] = Fields
  BY <1>5 DEF Fields
<1>10. report'[r].truncated \/ kept = found
  <2>1. report'[r].truncated = cut
    BY <1>5
  <2> QED
    BY <2>1, Zenon DEF cut
<1>11. report'[r].created \in 1 .. clock'
  BY <1>5, <1>8
<1> QED
  <2>1. report'[r].id = r /\ report'[r].delta = NoDelta
    BY <1>5
  <2> HIDE DEF found
  <2> QED
    BY <1>4, <1>6, <1>7, <1>8, <1>9, <1>10, <1>11, <2>1 DEF ReportIsSound

LEMMA SoundWhenKept ==
    ASSUME Shape, NEW r \in Runs, ReportIsSound(r), report'[r] = report[r],
           clock' = clock \/ clock' = clock + 1,
           pc'[r] = pc[r] \/ pc'[r] \in {"save", "done"}
    PROVE  ReportIsSound(r)'
  BY DEF Shape, ReportIsSound, Looked, LookedFor

LEMMA SoundWhenCompared ==
    ASSUME Shape, NEW r \in Runs, LoadHistory(r), ReportIsSound(r)
    PROVE  /\ ReportIsSound(r)'
           /\ Prints(report'[r]) = Prints(report[r])
           /\ \A f \in Fields \ {"delta"} : report'[r][f] = report[r][f]
<1>1. \/ report' = report
      \/ \E d : report' = [report EXCEPT ![r].delta = d]
  BY DEF LoadHistory
<1>2. clock' = clock /\ pc[r] = "compare" /\ pc'[r] = "save"
  BY DEF LoadHistory, Shape
<1>3. /\ DOMAIN report'[r] = Fields
      /\ \A f \in Fields \ {"delta"} : report'[r][f] = report[r][f]
  BY <1>1 DEF Shape, Ids, ReportIsSound
<1>4. /\ report'[r].id = report[r].id /\ report'[r].created = report[r].created
      /\ report'[r].tree = report[r].tree /\ report'[r].findings = report[r].findings
      /\ report'[r].truncated = report[r].truncated
      /\ report'[r].rule_ids = report[r].rule_ids /\ report'[r].failed = report[r].failed
      /\ report'[r].overlooked = report[r].overlooked
  BY <1>3 DEF Fields
<1>5. Prints(report'[r]) = Prints(report[r]) /\ Looked(r)' = Looked(r)
  BY <1>4 DEF Prints, Looked, LookedFor
<1> QED
  BY <1>2, <1>3, <1>4, <1>5 DEF ReportIsSound

LEMMA ReportsStep ==
    ASSUME HistoryInv, Next, NEW r \in Runs, Made(r)'
    PROVE  ReportIsSound(r)'
<1>1. Shape /\ (Made(r) => ReportIsSound(r))
  BY DEF HistoryInv
<1> USE DEF Shape, Made, storeVars, configVars
<1>2. ASSUME NEW q \in Runs, Start(q) PROVE ReportIsSound(r)'
  <2>1. r # q /\ pc'[r] = pc[r] /\ report'[r] = report[r]
    BY <1>1, <1>2 DEF Start, Ids
  <2> QED
    BY <1>1, <1>2, <2>1, SoundWhenKept DEF Start
<1>3. ASSUME NEW q \in Runs, Analyse(q) PROVE ReportIsSound(r)'
  <2>1. CASE r # q
    <3>1. pc'[r] = pc[r] /\ report'[r] = report[r] /\ clock' = clock + 1
      BY <1>1, <1>3, <2>1 DEF Analyse, Ids
    <3> QED
      BY <1>1, <1>3, <3>1, SoundWhenKept DEF Analyse
  <2> QED
    BY <1>1, <1>3, <2>1, SoundWhenMade
<1>4. ASSUME NEW q \in Runs, LoadHistory(q) PROVE ReportIsSound(r)'
  <2>1. CASE r # q
    <3>1. pc'[r] = pc[r] /\ report'[r] = report[r]
      BY <1>1, <1>4, <2>1 DEF LoadHistory, Ids
    <3> QED
      BY <1>1, <1>4, <3>1, SoundWhenKept DEF LoadHistory
  <2>2. CASE r = q
    <3>1. Made(r)
      BY <1>4, <2>2 DEF LoadHistory
    <3> QED
      BY <1>1, <1>4, <2>2, <3>1, SoundWhenCompared
  <2> QED
    BY <2>1, <2>2
<1>5. ASSUME NEW q \in Runs, SaveReport(q) PROVE ReportIsSound(r)'
  <2>1. /\ Made(r) /\ report'[r] = report[r]
        /\ pc'[r] = pc[r] \/ pc'[r] = "done"
    BY <1>1, <1>5 DEF SaveReport
  <2> QED
    BY <1>1, <1>5, <2>1, SoundWhenKept DEF SaveReport
<1>6. ASSUME NEW i \in Ids, DeleteReport(i) PROVE ReportIsSound(r)'
  BY <1>1, <1>6, SoundWhenKept DEF DeleteReport
<1>7. ASSUME Deploy PROVE ReportIsSound(r)'
  <2>1. pc[r] = "done" /\ pc'[r] = "done" /\ report' = report /\ clock' = clock
    BY <1>1, <1>7 DEF Deploy, Active
  <2> QED
    BY <1>1, <2>1, SoundWhenKept
<1> QED
  BY <1>2, <1>3, <1>4, <1>5, <1>6, <1>7 DEF Next
-----------------------------------------------------------------------------
(* Saving puts a report last, and may lose the first.                      *)
LEMMA SavedIs ==
    ASSUME NEW S, stored \in Seq(S), NEW r \in S
    PROVE  \E d \in {0, 1} :
              /\ DOMAIN Saved(stored, r) = 1 .. (Len(stored) + 1 - d)
              /\ \A k \in DOMAIN Saved(stored, r) :
                    Saved(stored, r)[k] = IF k + d = Len(stored) + 1 THEN r ELSE stored[k + d]
<1> DEFINE all == Append(stored, r)
<1>1. /\ all \in Seq(S) /\ Len(all) = Len(stored) + 1 /\ Len(stored) \in Nat
      /\ \A k \in 1 .. Len(all) : all[k] = IF k = Len(stored) + 1 THEN r ELSE stored[k]
  OBVIOUS
<1> HIDE DEF all
<1>2. /\ DOMAIN all = 1 .. (Len(stored) + 1)
      /\ Tail(all) \in Seq(S) /\ Len(Tail(all)) = Len(stored)
      /\ \A k \in 1 .. Len(stored) : Tail(all)[k] = all[k + 1]
  BY <1>1
<1>3. CASE Saved(stored, r) = all
  BY <1>1, <1>2, <1>3
<1>4. CASE Saved(stored, r) = Tail(all)
  BY <1>1, <1>2, <1>4
<1> QED
  BY <1>3, <1>4 DEF Saved, all

LEMMA KeptStep ==
    ASSUME HistoryInv, Next
    PROVE  KeptIsFinished'
<1>1. Shape /\ KeptIsFinished
  BY DEF HistoryInv
<1>2. Finished \subseteq Finished'
  BY <1>1, FinishedStays
<1> USE DEF Shape, KeptIsFinished, storeVars, configVars
<1>3. ASSUME stored' = stored, seen' = seen PROVE KeptIsFinished'
  BY <1>1, <1>2, <1>3
<1>4. ASSUME NEW r \in Runs, LoadHistory(r) PROVE KeptIsFinished'
  <2>1. stored' = stored
    BY <1>4 DEF LoadHistory
  <2>2. seen' = seen \/ seen' = [seen EXCEPT ![r] = ToSet(stored)]
    BY <1>4 DEF LoadHistory
  <2>3. ToSet(stored) \subseteq Finished \cup {Legacy}
    BY <1>1 DEF ToSet
  <2> QED
    BY <1>1, <1>2, <2>1, <2>2, <2>3
<1>5. ASSUME NEW r \in Runs, SaveReport(r) PROVE KeptIsFinished'
  <2>1. /\ stored' = Saved(stored, r) /\ seen' = seen
        /\ r \notin Finished /\ r \in Finished' /\ r # Legacy
    BY <1>1, <1>5, RunsAssumption DEF SaveReport, Finished, Legacy
  <2>2. PICK d \in {0, 1} :
           /\ DOMAIN stored' = 1 .. (Len(stored) + 1 - d)
           /\ \A k \in DOMAIN stored' :
                 stored'[k] = IF k + d = Len(stored) + 1 THEN r ELSE stored[k + d]
    BY <1>1, <2>1, SavedIs DEF Ids
  <2>3. \A k \in DOMAIN stored' : k + d # Len(stored) + 1 => k + d \in DOMAIN stored
    BY <1>1, <2>2
  <2>4. \A k \in DOMAIN stored' : stored'[k] \in Finished' \cup {Legacy}
    BY <1>1, <1>2, <2>1, <2>2, <2>3
  <2>5. \A m, n \in DOMAIN stored' : stored'[m] = stored'[n] => m = n
    <3> SUFFICES ASSUME NEW m \in DOMAIN stored', NEW n \in DOMAIN stored',
                        stored'[m] = stored'[n]
                 PROVE  m = n
      OBVIOUS
    <3>1. m \in Int /\ n \in Int /\ d \in Int /\ Len(stored) \in Int
      BY <1>1, <2>2
    <3>2. CASE m + d = Len(stored) + 1 /\ n + d = Len(stored) + 1
      BY <3>1, <3>2
    <3>3. CASE m + d # Len(stored) + 1 /\ n + d # Len(stored) + 1
      <4>1. stored[m + d] = stored[n + d] /\ m + d \in DOMAIN stored /\ n + d \in DOMAIN stored
        BY <2>2, <2>3, <3>3
      <4>2. m + d = n + d
        BY <1>1, <4>1
      <4>3. \A x, y, z \in Int : x + z = y + z => x = y
        OBVIOUS
      <4> QED
        BY <3>1, <4>2, <4>3
    <3> QED
      BY <1>1, <2>1, <2>2, <2>3, <3>2, <3>3
  <2> QED
    BY <1>1, <1>2, <2>1, <2>4, <2>5
<1>6. ASSUME NEW i \in Ids, DeleteReport(i) PROVE KeptIsFinished'
  <2>1. seen' = seen
    BY <1>6 DEF DeleteReport
  <2>2. PICK n \in DOMAIN stored : stored' = RemoveAt(stored, n)
    BY <1>6 DEF DeleteReport
  <2>3. /\ DOMAIN stored' = 1 .. (Len(stored) - 1)
        /\ \A k \in DOMAIN stored' : stored'[k] = stored[IF k < n THEN k ELSE k + 1]
    BY <1>1, <2>2, Removed
  <2>4. n \in 1 .. Len(stored) /\ DOMAIN stored = 1 .. Len(stored) /\ Len(stored) \in Nat
    BY <1>1
  <2>5. \A k \in DOMAIN stored' : stored'[k] \in Finished \cup {Legacy}
    BY <1>1, <2>3, <2>4
  <2>6. \A j, k \in DOMAIN stored' : stored'[j] = stored'[k] => j = k
    BY <1>1, <2>3, <2>4
  <2> QED
    BY <1>1, <1>2, <2>1, <2>5, <2>6
<1>7. ASSUME Deploy PROVE KeptIsFinished'
  <2>1. seen' = seen /\ (stored' = <<>> \/ stored' = stored)
    BY <1>7 DEF Deploy
  <2>2. CASE stored' = <<>>
    BY <1>1, <1>2, <2>1, <2>2
  <2> QED
    BY <1>3, <2>1, <2>2
<1> QED
  BY <1>3, <1>4, <1>5, <1>6, <1>7 DEF Next, Start, Analyse

LEMMA AloneStep ==
    ASSUME HistoryInv, Next
    PROVE  AloneInOrder'
<1>1. /\ Shape /\ AloneInOrder /\ KeptIsFinished
      /\ \A r \in Runs : Made(r) => report[r].created \in 1 .. clock
  BY DEF HistoryInv, ReportIsSound
<1>2. Runs \subseteq Nat \ {0}
  BY RunsAssumption
<1> USE DEF Shape, storeVars, configVars
<1>3. ASSUME NEW r \in Runs, Start(r) PROVE AloneInOrder'
  <2>1. /\ pc[r] = "idle" /\ pc' = [pc EXCEPT ![r] = "analyse"] /\ stored' = stored
        /\ \A q \in Runs : q < r => pc[q] # "idle"
        /\ \A q \in Runs \ {r} : report'[q] = report[q] /\ pc'[q] = pc[q]
        /\ Active' = Active \cup {r} /\ pc'[r] = "analyse"
    BY <1>1, <1>3 DEF Start, Active, Ids
  <2>2. /\ Active = {} => overlapped' = overlapped
        /\ Active # {} => overlapped' = overlapped \cup Active \cup {r}
    BY <1>3 DEF Start
  <2>3. \A q, s \in Runs : q < s /\ pc'[s] # "idle" => pc'[q] # "idle"
    BY <1>1, <1>2, <2>1 DEF AloneInOrder
  <2>4. \A q, s \in Active' : q # s => q \in overlapped'
    BY <1>1, <2>1, <2>2 DEF AloneInOrder
  <2>5. ASSUME NEW q \in Runs \ overlapped', NEW s \in Runs \ overlapped', q < s, pc'[s] # "idle"
        PROVE  q \notin Active' /\ (Made(q)' /\ Made(s)' => report'[q].created < report'[s].created)
    <3>1. q \notin overlapped /\ s \notin overlapped
      BY <2>2, <2>5
    <3>2. CASE q # r /\ s # r
      BY <1>1, <2>1, <2>5, <3>1, <3>2 DEF AloneInOrder, Made
    <3>3. CASE s = r
      BY <1>1, <1>2, <2>1, <2>2, <2>5, <3>3 DEF Made
    <3>4. CASE q = r
      BY <1>1, <1>2, <2>1, <2>5, <3>4 DEF AloneInOrder
    <3> QED
      BY <3>2, <3>3, <3>4
  <2>6. \A m, n \in DOMAIN stored' :
           m < n /\ stored'[m] \notin overlapped' /\ stored'[n] \notin overlapped'
              => stored'[m] < stored'[n]
    BY <1>1, <2>1, <2>2 DEF AloneInOrder
  <2> QED
    BY <2>3, <2>4, <2>5, <2>6 DEF AloneInOrder
<1>4. ASSUME NEW r \in Runs, Analyse(r) PROVE AloneInOrder'
  <2>1. /\ pc[r] = "analyse" /\ pc'[r] = "compare"
        /\ stored' = stored /\ overlapped' = overlapped
        /\ \A q \in Runs \ {r} : report'[q] = report[q] /\ pc'[q] = pc[q]
        /\ Active' = Active /\ r \in Active
    BY <1>1, <1>4 DEF Analyse, Active, Ids
  <2>2. report'[r].created = clock + 1
    <3>1. \A t, a, f, o : EngineReport(r, t, a, f, o).created = clock + 1
      BY DEF EngineReport
    <3> QED
      BY <1>1, <1>4, <3>1 DEF Analyse, Ids
  <2>3. ASSUME NEW q \in Runs \ overlapped, NEW s \in Runs \ overlapped, q < s, pc'[s] # "idle"
        PROVE  q \notin Active /\ (Made(q)' /\ Made(s)' => report'[q].created < report'[s].created)
    <3>1. pc[s] # "idle"
      BY <2>1, <2>3
    <3>2. q \notin Active /\ q # r
      BY <1>1, <2>1, <2>3, <3>1 DEF AloneInOrder
    <3>3. CASE s = r
      BY <1>1, <2>1, <2>2, <3>2, <3>3 DEF Made
    <3>4. CASE s # r
      BY <1>1, <2>1, <2>3, <3>1, <3>2, <3>4 DEF AloneInOrder, Made
    <3> QED
      BY <3>2, <3>3, <3>4
  <2> QED
    BY <1>1, <2>1, <2>3 DEF AloneInOrder
<1>5. ASSUME NEW r \in Runs, LoadHistory(r) PROVE AloneInOrder'
  <2>1. /\ pc[r] = "compare" /\ pc'[r] = "save"
        /\ stored' = stored /\ overlapped' = overlapped
        /\ \A q \in Runs \ {r} : report'[q] = report[q] /\ pc'[q] = pc[q]
        /\ Active' = Active
    BY <1>1, <1>5 DEF LoadHistory, Active, Ids
  <2>2. \A f \in Fields \ {"delta"} : report'[r][f] = report[r][f]
    BY <1>1, <1>5, <2>1, SoundWhenCompared DEF HistoryInv, Made
  <2>3. report'[r].created = report[r].created
    BY <2>2 DEF Fields
  <2> QED
    BY <1>1, <2>1, <2>3 DEF AloneInOrder, Made
<1>6. ASSUME NEW r \in Runs, SaveReport(r) PROVE AloneInOrder'
  <2>1. /\ pc[r] = "save" /\ pc'[r] = "done" /\ stored' = Saved(stored, r)
        /\ overlapped' = overlapped /\ report' = report
        /\ \A q \in Runs \ {r} : pc'[q] = pc[q]
        /\ Active' = Active \ {r} /\ r \in Active
    BY <1>1, <1>6 DEF SaveReport, Active
  <2>2. PICK d \in {0, 1} :
           /\ DOMAIN stored' = 1 .. (Len(stored) + 1 - d)
           /\ \A k \in DOMAIN stored' :
                 stored'[k] = IF k + d = Len(stored) + 1 THEN r ELSE stored[k + d]
    BY <1>1, <2>1, SavedIs DEF Ids
  <2>3. ASSUME NEW m \in DOMAIN stored', NEW n \in DOMAIN stored', m < n,
               stored'[m] \notin overlapped, stored'[n] \notin overlapped
        PROVE  stored'[m] < stored'[n]
    <3>1. /\ m \in Int /\ n \in Int /\ Len(stored) \in Nat
          /\ m + d \in DOMAIN stored /\ stored'[m] = stored[m + d]
          /\ DOMAIN stored = 1 .. Len(stored)
      BY <1>1, <2>2, <2>3
    <3>2. CASE n + d # Len(stored) + 1
      <4>1. n + d \in DOMAIN stored /\ stored'[n] = stored[n + d] /\ m + d < n + d
        BY <2>2, <2>3, <3>1, <3>2
      <4> QED
        BY <1>1, <2>3, <3>1, <4>1 DEF AloneInOrder
    <3>3. CASE n + d = Len(stored) + 1
      <4>1. stored'[n] = r
        BY <2>2, <3>3
      <4> DEFINE i == stored[m + d]
      <4>2. CASE i = Legacy
        BY <1>2, <3>1, <4>1, <4>2 DEF Legacy
      <4>3. CASE i # Legacy
        <5>1. i \in Runs /\ pc[i] = "done" /\ i \notin overlapped /\ r \notin overlapped
          BY <1>1, <2>3, <3>1, <4>1, <4>3 DEF KeptIsFinished, Finished
        <5>2. i # r /\ ~ (r < i)
          BY <1>1, <2>1, <5>1 DEF AloneInOrder
        <5>3. i \in Nat /\ r \in Nat
          BY <1>2, <5>1
        <5> QED
          BY <3>1, <4>1, <5>2, <5>3
      <4> QED
        BY <4>2, <4>3
    <3> QED
      BY <3>2, <3>3
  <2>4. \A q \in Runs : (Made(q)' <=> Made(q)) /\ (pc'[q] = "idle" <=> pc[q] = "idle")
    BY <2>1 DEF Made
  <2> QED
    BY <1>1, <2>1, <2>3, <2>4 DEF AloneInOrder
<1>7. ASSUME NEW i \in Ids, DeleteReport(i) PROVE AloneInOrder'
  <2>1. PICK n \in DOMAIN stored : stored' = RemoveAt(stored, n)
    BY <1>7 DEF DeleteReport
  <2>2. /\ DOMAIN stored' = 1 .. (Len(stored) - 1)
        /\ \A k \in DOMAIN stored' : stored'[k] = stored[IF k < n THEN k ELSE k + 1]
    BY <1>1, <2>1, Removed
  <2>3. n \in 1 .. Len(stored) /\ DOMAIN stored = 1 .. Len(stored) /\ Len(stored) \in Nat
    BY <1>1
  <2>4. overlapped' = overlapped /\ pc' = pc /\ report' = report
    BY <1>7 DEF DeleteReport
  <2>5. ASSUME NEW j \in DOMAIN stored', NEW k \in DOMAIN stored', j < k,
               stored'[j] \notin overlapped, stored'[k] \notin overlapped
        PROVE  stored'[j] < stored'[k]
    <3>1. PICK x \in DOMAIN stored, y \in DOMAIN stored :
             x < y /\ stored'[j] = stored[x] /\ stored'[k] = stored[y]
      <4> DEFINE x == IF j < n THEN j ELSE j + 1
                 y == IF k < n THEN k ELSE k + 1
      <4>1. x \in DOMAIN stored /\ y \in DOMAIN stored /\ x < y
        BY <2>2, <2>3, <2>5
      <4>2. stored'[j] = stored[x] /\ stored'[k] = stored[y]
        BY <2>2
      <4> QED
        BY <4>1, <4>2
    <3> QED
      BY <1>1, <2>5, <3>1 DEF AloneInOrder
  <2> QED
    BY <1>1, <2>4, <2>5 DEF AloneInOrder, Active, Made
<1>8. ASSUME Deploy PROVE AloneInOrder'
  <2>1. /\ overlapped' = overlapped /\ report' = report /\ Active' = {}
        /\ stored' = stored \/ stored' = <<>>
    BY <1>1, <1>8 DEF Deploy, Active
  <2>2. \A q \in Runs : (Made(q)' => Made(q)) /\ (pc'[q] = "idle" <=> pc[q] = "idle")
    BY <1>1, <1>8 DEF Deploy, Active, Made
  <2>3. \A m, n \in DOMAIN stored' :
           m < n /\ stored'[m] \notin overlapped /\ stored'[n] \notin overlapped
              => stored'[m] < stored'[n]
    BY <1>1, <2>1 DEF AloneInOrder
  <2> QED
    BY <1>1, <2>1, <2>2, <2>3 DEF AloneInOrder
<1> QED
  BY <1>3, <1>4, <1>5, <1>6, <1>7, <1>8 DEF Next
-----------------------------------------------------------------------------
(* Which report is the latest.                                             *)
LEMMA Greatest ==
    ASSUME NEW T, T \subseteq Nat, T # {}, NEW b \in Nat, \A t \in T : t <= b
    PROVE  \E m \in T : \A t \in T : t <= m
<1> DEFINE D == {b - t : t \in T}
<1>1. D \subseteq Nat /\ D # {}
  <2>1. ASSUME NEW t \in T PROVE b - t \in Nat
    <3>1. t \in Nat /\ t <= b
      OBVIOUS
    <3> QED
      BY <3>1
  <2> QED
    BY <2>1
<1>2. PICK d \in D : \A e \in D : ~ (<<e, d>> \in OpToRel(<, Nat))
  <2> HIDE DEF D
  <2> QED
    BY <1>1, WFMin, NatLessThanWellFounded
<1>3. \A e \in D : ~ (e < d)
  BY <1>1, <1>2 DEF OpToRel
<1>4. PICK m \in T : d = b - m
  OBVIOUS
<1>5. ASSUME NEW t \in T PROVE t <= m
  <2>1. b - t \in D /\ ~ (b - t < b - m)
    BY <1>3, <1>4
  <2>2. t \in Nat /\ m \in Nat
    OBVIOUS
  <2> HIDE DEF D
  <2> QED
    BY <2>1, <2>2
<1> QED
  BY <1>5

(* Every report that is kept has a date, and Later is an order of them.    *)
LEMMA KeptIsDated ==
    ASSUME HistoryInv, NEW i \in ToSet(stored)
    PROVE  i \in Nat /\ report[i].created \in 0..clock
<1>1. PICK n \in DOMAIN stored : stored[n] = i
  BY DEF ToSet
<1>2. i \in Finished \cup {Legacy} /\ clock \in Nat
  BY <1>1 DEF HistoryInv, KeptIsFinished, Shape
<1>3. CASE i \in Finished
  <2>1. i \in Runs /\ Made(i)
    BY <1>3 DEF Finished, Made
  <2>2. report[i].created \in 1 .. clock
    BY <2>1 DEF HistoryInv, ReportIsSound
  <2> QED
    BY <1>2, <2>1, <2>2, RunsAssumption
<1>4. CASE i = Legacy
  BY <1>2, <1>4 DEF HistoryInv, LegacyIsBare, Legacy
<1> QED
  BY <1>2, <1>3, <1>4

LEMMA LaterIsOrder ==
    ASSUME HistoryInv, NEW i \in ToSet(stored), NEW j \in ToSet(stored), NEW k \in ToSet(stored)
    PROVE  ~ Later(i, i) /\ (Later(i, j) /\ Later(j, k) => Later(i, k))
<1>1. CASE backend = "memory"
  <2>1. /\ stored \in Seq(Ids)
        /\ \A m, n \in DOMAIN stored : stored[m] = stored[n] => m = n
    BY DEF HistoryInv, Shape, KeptIsFinished
  <2>2. DOMAIN stored = 1 .. Len(stored) /\ Len(stored) \in Nat
    BY <2>1
  <2>3. ~ Later(i, i)
    BY <1>1, <2>1, <2>2 DEF Later
  <2>4. ASSUME Later(i, j), Later(j, k) PROVE Later(i, k)
    <3>1. PICK m, n \in DOMAIN stored : n < m /\ stored[m] = i /\ stored[n] = j
      BY <1>1, <2>4 DEF Later
    <3>2. PICK p, q \in DOMAIN stored : q < p /\ stored[p] = j /\ stored[q] = k
      BY <1>1, <2>4 DEF Later
    <3>3. n = p
      BY <2>1, <3>1, <3>2
    <3>4. q < m
      BY <2>2, <3>1, <3>2, <3>3
    <3> QED
      BY <1>1, <3>1, <3>2, <3>4 DEF Later
  <2> QED
    BY <2>3, <2>4
<1>2. CASE backend # "memory"
  <2>1. clock \in Nat
    BY DEF HistoryInv, Shape
  <2> QED
    BY <1>2, <2>1, KeptIsDated DEF Later
<1> QED
  BY <1>1, <1>2

LEMMA LatestExists ==
    ASSUME HistoryInv, NEW history \in SUBSET ToSet(stored), history # {}
    PROVE  \E i \in history : \A j \in history : ~ Later(j, i)
<1>1. Shape /\ \A m, n \in DOMAIN stored : stored[m] = stored[n] => m = n
  BY DEF HistoryInv, KeptIsFinished
<1>2. CASE backend = "memory"
  <2> DEFINE T == {n \in DOMAIN stored : stored[n] \in history}
  <2>1. DOMAIN stored = 1 .. Len(stored) /\ Len(stored) \in Nat
    BY <1>1 DEF Shape
  <2>2. T \subseteq Nat /\ T # {} /\ \A t \in T : t <= Len(stored)
    BY <2>1 DEF ToSet
  <2>3. PICK m \in T : \A t \in T : t <= m
    <3> HIDE DEF T
    <3> QED
      BY <2>1, <2>2, Greatest
  <2>4. ASSUME NEW j \in history, Later(j, stored[m]) PROVE FALSE
    <3>1. PICK p, q \in DOMAIN stored : q < p /\ stored[p] = j /\ stored[q] = stored[m]
      BY <1>2, <2>4 DEF Later
    <3>2. q = m /\ p \in T
      BY <1>1, <3>1
    <3> QED
      BY <2>1, <2>3, <3>1, <3>2
  <2> QED
    BY <2>3, <2>4
<1>3. CASE backend # "memory"
  <2> DEFINE T == {report[i].created : i \in history}
  <2>1. clock \in Nat
    BY <1>1 DEF Shape
  <2>2. T \subseteq Nat /\ T # {} /\ \A t \in T : t <= clock
    BY <2>1, KeptIsDated
  <2>3. PICK m \in T : \A t \in T : t <= m
    <3> HIDE DEF T
    <3> QED
      BY <2>1, <2>2, Greatest
  <2>4. PICK i \in history : m = report[i].created
    OBVIOUS
  <2>5. \A j \in history : ~ (report[j].created > report[i].created)
    BY <2>1, <2>2, <2>3, <2>4
  <2> QED
    BY <1>3, <2>5 DEF Later
<1> QED
  BY <1>2, <1>3

(* The window is all there is of the owner's own, or the latest of it: in  *)
(* either case the latest is in it.                                        *)
LEMMA WindowHasLatest ==
    ASSUME HistoryInv, NEW repository, NEW owner
    PROVE  LET own == Own(repository, owner)
               window == ReportsFor(repository, owner)
           IN  /\ window \subseteq own /\ own \subseteq ToSet(stored)
               /\ Cardinality(own) <= Window => window = own
               /\ window # {} => /\ Latest(window) \in window
                                 /\ \A i \in own : ~ Later(i, Latest(window))
<1> DEFINE own == Own(repository, owner)
           window == ReportsFor(repository, owner)
           later(i) == {j \in own : Later(j, i)}
<1>1. own \subseteq ToSet(stored) /\ window = {i \in own : Cardinality(later(i)) < Window}
  BY DEF Own, ReportsFor
<1>2. IsFiniteSet(own) /\ Cardinality(own) \in Nat
  <2>1. IsFiniteSet(Ids) /\ ToSet(stored) \subseteq Ids
    <3>1. IsFiniteSet(Runs \cup {Legacy})
      BY RunsAssumption, FS_AddElement
    <3> QED
      BY <3>1 DEF Ids, HistoryInv, Shape, ToSet
  <2> HIDE DEF own
  <2> QED
    BY <1>1, <2>1, FS_Subset, FS_CardinalityType
<1> HIDE DEF own, window
<1>3. ASSUME NEW i \in own
      PROVE  /\ IsFiniteSet(later(i)) /\ Cardinality(later(i)) \in Nat
             /\ Cardinality(later(i)) < Cardinality(own)
  <2>1. later(i) \subseteq own /\ later(i) # own
    BY <1>1, LaterIsOrder
  <2>2. /\ IsFiniteSet(later(i)) /\ Cardinality(later(i)) <= Cardinality(own)
        /\ Cardinality(own) = Cardinality(later(i)) => own = later(i)
    BY <1>2, <2>1, FS_Subset
  <2>3. Cardinality(later(i)) \in Nat
    BY <2>2, FS_CardinalityType
  <2> HIDE DEF later
  <2> QED
    BY <1>2, <2>1, <2>2, <2>3
<1>4. ASSUME Cardinality(own) <= Window PROVE window = own
  <2>1. ASSUME NEW i \in own PROVE Cardinality(later(i)) < Window
    <3> HIDE DEF later
    <3> QED
      BY <1>2, <1>3, <1>4, BoundsAssumption
  <2> QED
    BY <1>1, <2>1
<1>5. ASSUME window # {}
      PROVE  Latest(window) \in window /\ \A i \in own : ~ Later(i, Latest(window))
  <2> DEFINE latest == Latest(window)
  <2>1. latest \in window /\ \A j \in window : ~ Later(j, latest)
    <3>1. \E i \in window : \A j \in window : ~ Later(j, i)
      BY <1>1, <1>5, LatestExists
    <3> QED
      BY <3>1 DEF Latest
  <2> HIDE DEF latest
  <2>2. ASSUME NEW i \in own, Later(i, latest) PROVE FALSE
    <3>1. latest \in own /\ Cardinality(later(latest)) < Window
      BY <1>1, <2>1
    <3>2. later(i) \subseteq later(latest)
      BY <1>1, <2>2, <3>1, LaterIsOrder
    <3>3. Cardinality(later(i)) <= Cardinality(later(latest))
      BY <1>3, <3>1, <3>2, FS_Subset
    <3>4. Cardinality(later(i)) < Window
      <4> HIDE DEF later
      <4> QED
        BY <1>3, <3>1, <3>3, BoundsAssumption
    <3>5. i \in window
      BY <1>1, <3>4
    <3> QED
      BY <2>1, <2>2, <3>5
  <2> QED
    BY <2>1, <2>2 DEF latest
<1> QED
  BY <1>1, <1>4, <1>5 DEF own, window

(* Of reports that were made alone, the one that was started later is      *)
(* later, whichever of the two orders the store has.                       *)
LEMMA AloneIsLater ==
    ASSUME HistoryInv, NEW i \in ToSet(stored), NEW j \in ToSet(stored),
           i \notin overlapped, j \notin overlapped, j < i
    PROVE  Later(i, j)
<1>1. Shape /\ AloneInOrder /\ KeptIsFinished /\ LegacyIsBare
  BY DEF HistoryInv
<1>2. PICK m, n \in DOMAIN stored : stored[m] = i /\ stored[n] = j
  BY DEF ToSet
<1>3. i \in Nat /\ j \in Nat
  BY KeptIsDated
<1>4. CASE backend = "memory"
  <2>1. m \in Int /\ n \in Int
    BY <1>1 DEF Shape
  <2>2. ~ (m < n) /\ m # n
    BY <1>1, <1>2, <1>3 DEF AloneInOrder
  <2> QED
    BY <1>2, <1>4, <2>1, <2>2 DEF Later
<1>5. CASE backend # "memory"
  <2>1. i # Legacy /\ i \in Finished
    BY <1>1, <1>2, <1>3 DEF KeptIsFinished, Legacy
  <2>2. i \in Runs /\ Made(i) /\ pc[i] # "idle" /\ report[i].created \in 1 .. clock
    BY <2>1 DEF Finished, Made, HistoryInv, ReportIsSound
  <2>3. CASE j = Legacy
    BY <1>1, <1>5, <2>2, <2>3 DEF Later, LegacyIsBare, Shape
  <2>4. CASE j # Legacy
    <3>1. j \in Runs /\ Made(j) /\ report[j].created \in 1 .. clock
      BY <1>1, <1>2, <2>4 DEF KeptIsFinished, Finished, Made, HistoryInv, ReportIsSound
    <3>2. report[j].created < report[i].created
      BY <1>1, <2>2, <3>1 DEF AloneInOrder
    <3> QED
      BY <1>5, <2>2, <3>1, <3>2 DEF Later
  <2> QED
    BY <2>3, <2>4
<1> QED
  BY <1>4, <1>5
-----------------------------------------------------------------------------
(* The delta that is made is of a window of the owner's own reports.       *)
LEMMA DeltaWhenMade ==
    ASSUME HistoryInv, NEW r \in Runs, LoadHistory(r), Compared(r)'
    PROVE  \E window \in SUBSET Ids : DeltaIsOf(r, window)'
<1>1. /\ Shape /\ ReportIsSound(r) /\ pc[r] = "compare" /\ KeptIsFinished
      /\ report[r].delta = NoDelta
  BY DEF HistoryInv, LoadHistory, Made, ReportIsSound
<1> DEFINE repository == report[r].repository
           owner == report[r].owner
           window == ReportsFor(repository, owner)
           own == Own(repository, owner)
           latest == Latest(window)
           earlier == {report[i] : i \in window \ {latest}}
<1>2. \A i \in Ids \ {r} : report'[i] = report[i]
  BY <1>1 DEF LoadHistory, Shape
<1>3. overlapped' = overlapped
  BY DEF LoadHistory
<1>4. /\ Prints(report'[r]) = Prints(report[r])
      /\ report'[r].owner = owner /\ report'[r].repository = repository
      /\ report'[r].id = report[r].id /\ report'[r].truncated = report[r].truncated
      /\ report'[r].rule_ids = report[r].rule_ids
  BY <1>1, SoundWhenCompared DEF Fields
<1>5. report'[r].delta # NoDelta
  BY DEF Compared
<1>6. /\ report' = [report EXCEPT ![r].delta = Delta(report[r],
                       IF repository = NoRepository THEN {} ELSE window)]
      /\ seen' = [seen EXCEPT ![r] = ToSet(stored)]
  <2>1. report' # report
    BY <1>1, <1>5
  <2> QED
    BY <2>1 DEF LoadHistory
<1>7. seen'[r] = ToSet(stored)
  BY <1>1, <1>6 DEF Shape
<1>8. report'[r].delta = Delta(report[r], IF repository = NoRepository THEN {} ELSE window)
  BY <1>1, <1>6 DEF Shape, Ids, ReportIsSound, Fields
<1>9. /\ window # {} /\ IsComparable(report[r], report[latest])
      /\ report'[r].delta = Compare(report[r], report[latest], earlier)
  BY <1>5, <1>8 DEF Delta
<1>10. /\ window \subseteq own /\ own \subseteq ToSet(stored) /\ latest \in window
       /\ Cardinality(own) <= Window => window = own
       /\ \A i \in own : ~ Later(i, latest)
  BY <1>9, WindowHasLatest
<1>11. ToSet(stored) \subseteq Ids \ {r} /\ r # Legacy
  BY <1>1, RunsAssumption DEF Shape, KeptIsFinished, Finished, ToSet, Legacy
<1> HIDE DEF window, own, latest, earlier, repository, owner
<1>12. report'[latest] = report[latest]
  BY <1>2, <1>10, <1>11
<1>13. earlier = {report'[i] : i \in window \ {latest}}
  BY <1>2, <1>10, <1>11 DEF earlier
<1>14. OwnSeen(r)' = own
  BY <1>2, <1>4, <1>7, <1>10, <1>11 DEF OwnSeen, own, Own, repository, owner
<1>15. Compare(report[r], report[latest], earlier) = Compare(report'[r], report'[latest], earlier)
  BY <1>4, <1>12 DEF Compare
<1>16. IsComparable(report'[r], report'[latest])
  BY <1>4, <1>9, <1>12 DEF IsComparable, repository
<1>17. latest \in Finished /\ report[latest].id = latest
  <2>1. latest \in Finished \cup {Legacy}
    BY <1>1, <1>10 DEF KeptIsFinished, ToSet
  <2>2. latest # Legacy
    <3>1. Prints(report[Legacy]) = {} /\ report[Legacy].findings # {}
      BY DEF HistoryInv, LegacyIsBare, Prints
    <3> QED
      BY <1>9, <3>1 DEF IsComparable
  <2>3. latest \in Finished /\ latest \in Runs /\ Made(latest)
    BY <2>1, <2>2 DEF Finished, Made
  <2> QED
    BY <2>3 DEF HistoryInv, ReportIsSound
<1>18. report'[r].delta.previous = latest
  BY <1>9, <1>17 DEF Compare
<1>19. ASSUME ({r} \cup seen'[r]) \cap overlapped' = {}, NEW i \in own
       PROVE  i <= latest
  <2>1. i \in ToSet(stored) /\ latest \in ToSet(stored) /\ ~ Later(i, latest)
    BY <1>10
  <2>2. i \notin overlapped /\ latest \notin overlapped
    BY <1>3, <1>7, <1>19, <2>1
  <2>3. i \in Nat /\ latest \in Nat
    BY <2>1, KeptIsDated
  <2>4. ~ (latest < i)
    BY <2>1, <2>2, AloneIsLater
  <2> QED
    BY <2>3, <2>4
<1>20. PICK kept \in SUBSET Ids : kept = window
  BY <1>10, <1>11
<1>21. /\ report'[r].delta.previous \in kept /\ kept \subseteq OwnSeen(r)'
       /\ Cardinality(OwnSeen(r)') <= Window => kept = OwnSeen(r)'
  BY <1>10, <1>14, <1>18, <1>20
<1>22. report'[r].delta = Compare(report'[r], report'[latest], {report'[i] : i \in kept \ {latest}})
  BY <1>9, <1>13, <1>15, <1>20
<1>23. ({r} \cup seen'[r]) \cap overlapped' = {} => \A i \in OwnSeen(r)' : i <= latest
  BY <1>14, <1>19
<1> QED
  BY <1>16, <1>18, <1>21, <1>22, <1>23 DEF DeltaIsOf

(* And stays so: what was compared is finished.                            *)
LEMMA DeltaWhenKept ==
    ASSUME HistoryInv, Next, NEW r \in Runs, Compared(r), seen'[r] = seen[r],
           report'[r] = report[r]
    PROVE  \E window \in SUBSET Ids : DeltaIsOf(r, window)'
<1>1. PICK window \in SUBSET Ids : DeltaIsOf(r, window)
  BY DEF HistoryInv, DeltasAreKnown
<1>2. Shape /\ seen[r] \subseteq Finished \cup {Legacy} /\ seen[r] \subseteq Ids
  BY DEF HistoryInv, KeptIsFinished, Shape
<1>3. (\A i \in seen[r] : report'[i] = report[i]) /\ overlapped \subseteq overlapped'
  BY <1>2, FinishedStays
<1>4. OwnSeen(r)' = OwnSeen(r) /\ OwnSeen(r) \subseteq seen[r]
  BY <1>3 DEF OwnSeen
<1> DEFINE latest == report[r].delta.previous
<1>5. window \subseteq seen[r] /\ latest \in window
  BY <1>1, <1>4 DEF DeltaIsOf
<1>6. /\ report'[latest] = report[latest] /\ report'[r].delta.previous = latest
      /\ {report'[i] : i \in window \ {latest}} = {report[i] : i \in window \ {latest}}
  BY <1>3, <1>5
<1> HIDE DEF latest
<1>7. DeltaIsOf(r, window)'
  BY <1>1, <1>3, <1>4, <1>6 DEF DeltaIsOf, latest
<1> QED
  BY <1>7

LEMMA DeltasStep ==
    ASSUME HistoryInv, Next
    PROVE  DeltasAreKnown'
<1> SUFFICES ASSUME NEW r \in Runs, Compared(r)'
             PROVE  \E window \in SUBSET Ids : DeltaIsOf(r, window)'
  BY DEF DeltasAreKnown
<1>1. Shape
  BY DEF HistoryInv
<1>2. CASE Compared(r) /\ seen'[r] = seen[r] /\ report'[r] = report[r]
  BY <1>2, DeltaWhenKept
<1>3. CASE LoadHistory(r)
  BY <1>3, DeltaWhenMade
<1>4. ASSUME ~ LoadHistory(r)
      PROVE  Compared(r) /\ seen'[r] = seen[r] /\ report'[r] = report[r]
  <2> USE <1>1, <1>4 DEF Shape, Compared, storeVars, configVars
  <2> DEFINE Kept == Compared(r) /\ seen'[r] = seen[r] /\ report'[r] = report[r]
  <2>1. ASSUME NEW q \in Runs, Start(q) PROVE Kept
    BY <2>1 DEF Start, Ids
  <2>2. ASSUME NEW q \in Runs, Analyse(q) PROVE Kept
    BY <2>2 DEF Analyse, Ids
  <2>3. ASSUME NEW q \in Runs, LoadHistory(q) PROVE Kept
    BY <2>3 DEF LoadHistory, Ids
  <2>4. ASSUME NEW q \in Runs, SaveReport(q) PROVE Kept
    BY <2>4 DEF SaveReport
  <2>5. ASSUME NEW i \in Ids, DeleteReport(i) PROVE Kept
    BY <2>5 DEF DeleteReport
  <2>6. ASSUME Deploy PROVE Kept
    BY <2>6 DEF Deploy, Active
  <2> QED
    BY <2>1, <2>2, <2>3, <2>4, <2>5, <2>6 DEF Next
<1> QED
  BY <1>2, <1>3, <1>4
-----------------------------------------------------------------------------
(* The invariant holds of everything the service does.                     *)
THEOREM HistoryIsInvariant == Spec => []HistoryInv
<1>1. HistoryInv /\ Next => HistoryInv'
  <2> SUFFICES ASSUME HistoryInv, Next PROVE HistoryInv'
    OBVIOUS
  <2>1. Shape' /\ LegacyIsBare'
    <3>1. Shape /\ LegacyIsBare
      BY DEF HistoryInv
    <3>2. report'[Legacy] = report[Legacy]
      BY <3>1, FinishedStays DEF Ids
    <3> QED
      BY <3>1, <3>2, ShapeStep DEF LegacyIsBare
  <2> QED
    BY <2>1, ReportsStep, KeptStep, AloneStep, DeltasStep DEF HistoryInv
<1>2. HistoryInv /\ UNCHANGED vars => HistoryInv'
  <2> SUFFICES ASSUME HistoryInv, UNCHANGED vars PROVE HistoryInv'
    OBVIOUS
  <2> USE DEF HistoryInv, vars, storeVars
  <2>1. Shape' /\ LegacyIsBare'
    BY DEF Shape, LegacyIsBare
  <2>2. \A r \in Runs : (Made(r)' <=> Made(r)) /\ (ReportIsSound(r) => ReportIsSound(r)')
    BY DEF Made, ReportIsSound, Looked, LookedFor
  <2>3. KeptIsFinished' /\ AloneInOrder'
    BY DEF KeptIsFinished, Finished, AloneInOrder, Active, Made
  <2>4. \A r \in Runs : /\ Compared(r)' <=> Compared(r)
                       /\ \A window : DeltaIsOf(r, window) => DeltaIsOf(r, window)'
    BY DEF Compared, DeltaIsOf, OwnSeen
  <2> QED
    BY <2>1, <2>2, <2>3, <2>4 DEF DeltasAreKnown
<1> QED
  BY <1>1, <1>2, HistoryInvInit, PTL DEF Spec

(* What a delta is compared with is a finished analysis of this owner and  *)
(* repository, with fingerprints, and neither report was cut.              *)
LEMMA PreviousIsSound ==
    ASSUME HistoryInv, NEW r \in Runs, Compared(r)
    PROVE  /\ ReportIsSound(r)
           /\ report[r].delta.previous \in Finished
           /\ ReportIsSound(report[r].delta.previous)
           /\ ~ report[r].truncated /\ ~ Previous(r).truncated
<1> DEFINE latest == report[r].delta.previous
<1>1. PICK window \in SUBSET Ids : DeltaIsOf(r, window)
  BY DEF HistoryInv, DeltasAreKnown
<1>2. /\ latest \in seen[r] /\ IsComparable(report[r], report[latest])
  BY <1>1 DEF DeltaIsOf, OwnSeen
<1>3. latest # Legacy
  <2>1. Prints(report[Legacy]) = {} /\ report[Legacy].findings # {}
    BY DEF HistoryInv, LegacyIsBare, Prints
  <2> QED
    BY <1>2, <2>1 DEF IsComparable
<1>4. latest \in Finished
  BY <1>2, <1>3 DEF HistoryInv, KeptIsFinished
<1>5. Made(latest) /\ latest \in Runs /\ Made(r)
  BY <1>4 DEF Finished, Made, Compared
<1>6. ReportIsSound(r) /\ ReportIsSound(latest)
  BY <1>5 DEF HistoryInv
<1>7. ~ report[r].truncated /\ ~ report[latest].truncated
  BY <1>2 DEF IsComparable
<1> QED
  BY <1>2, <1>4, <1>6, <1>7 DEF Previous

(* What a delta says has gone is gone, what it says is new is new, and     *)
(* what it says is back was away, for every problem that the analysis in   *)
(* question looked for: in spite of cuts, of new rules and of reports of   *)
(* versions without fingerprints.  What a rule did not look for, since it  *)
(* did not run, failed or overlooked it, is called resolved as well.       *)
THEOREM DeltasAreTrue == Spec => []DeltaIsTrue
<1>1. HistoryInv => DeltaIsTrue
  <2> SUFFICES ASSUME HistoryInv, NEW r \in Runs, Compared(r)
               PROVE  LET delta == report[r].delta
                      IN  /\ \A p \in delta.resolved :
                                /\ LookedFor(p, Previous(r))
                                /\ p \in Previous(r).tree
                                /\ LookedFor(p, report[r]) => p \notin report[r].tree
                          /\ \A p \in delta.new :
                                /\ p \in report[r].tree
                                /\ \/ p \notin Previous(r).tree \/ p \in Previous(r).overlooked
                                   \/ RuleOf[p] \in delta.new_rules \cup Previous(r).failed
                          /\ \A p \in delta.reopened :
                                p \in report[r].tree /\ p \notin Prints(Previous(r))
    BY DEF DeltaIsTrue
  <2> DEFINE delta == report[r].delta
             previous == Previous(r)
  <2>1. PICK earlier : delta = Compare(report[r], previous, earlier)
    BY DEF HistoryInv, DeltasAreKnown, DeltaIsOf, Previous
  <2>2. /\ delta.resolved = Prints(previous) \ Prints(report[r])
        /\ delta.new \subseteq Prints(report[r]) \ Prints(previous)
        /\ delta.reopened \subseteq Prints(report[r]) \ Prints(previous)
        /\ delta.new_rules = report[r].rule_ids \ previous.rule_ids
    BY <2>1 DEF Compare
  <2>3. Prints(report[r]) = Looked(r) /\ Prints(previous) = Looked(delta.previous)
    <3>1. /\ ReportIsSound(r) /\ ReportIsSound(delta.previous)
          /\ ~ report[r].truncated /\ ~ report[delta.previous].truncated
      BY PreviousIsSound DEF Previous
    <3>2. Prints(report[r]) = Looked(r)
      BY <3>1 DEF ReportIsSound
    <3>3. Prints(report[delta.previous]) = Looked(delta.previous)
      BY <3>1 DEF ReportIsSound
    <3> QED
      BY <3>2, <3>3 DEF Previous
  <2>4. /\ \A p : p \in Prints(report[r]) <=> p \in report[r].tree /\ LookedFor(p, report[r])
        /\ \A p : p \in Prints(previous) <=> p \in previous.tree /\ LookedFor(p, previous)
    BY <2>3 DEF Looked, Previous
  <2> HIDE DEF delta, previous
  <2>5. /\ \A p \in delta.resolved :
              /\ LookedFor(p, previous) /\ p \in previous.tree
              /\ LookedFor(p, report[r]) => p \notin report[r].tree
        /\ \A p \in delta.reopened : p \in report[r].tree /\ p \notin Prints(previous)
    BY <2>2, <2>4
  <2>6. ASSUME NEW p \in delta.new
        PROVE  /\ p \in report[r].tree
               /\ \/ p \notin previous.tree \/ p \in previous.overlooked
                  \/ RuleOf[p] \in delta.new_rules \cup previous.failed
    <3>1. p \in report[r].tree /\ LookedFor(p, report[r])
      BY <2>2, <2>4
    <3>2. p \notin previous.tree \/ ~ LookedFor(p, previous)
      BY <2>2, <2>4
    <3> QED
      BY <2>2, <3>1, <3>2 DEF LookedFor
  <2> QED
    BY <2>5, <2>6 DEF delta, previous
<1> QED
  BY <1>1, HistoryIsInvariant, PTL

(* No finding of the window is called new when it comes back.              *)
THEOREM ReturnsAreRecognised == Spec => []ReturnIsRecognised
<1>1. HistoryInv => ReturnIsRecognised
  <2> SUFFICES ASSUME HistoryInv, NEW r \in Runs, Compared(r),
                      Cardinality(OwnSeen(r)) <= Window, NEW i \in OwnSeen(r)
               PROVE  report[r].delta.new \cap Prints(report[i]) = {}
    BY DEF ReturnIsRecognised, OwnSeen
  <2> DEFINE latest == report[r].delta.previous
             earlier == {report[j] : j \in OwnSeen(r) \ {latest}}
  <2>1. report[r].delta = Compare(report[r], report[latest], earlier)
    BY DEF HistoryInv, DeltasAreKnown, DeltaIsOf
  <2> HIDE DEF latest
  <2>2. \A p \in report[r].delta.new :
           p \notin Prints(report[latest]) /\ p \notin UNION {Prints(e) : e \in earlier}
    <3> HIDE DEF earlier
    <3> QED
      BY <2>1 DEF Compare
  <2>3. CASE i = latest
    BY <2>2, <2>3
  <2>4. CASE i # latest
    BY <2>2, <2>4
  <2> QED
    BY <2>3, <2>4
<1> QED
  BY <1>1, HistoryIsInvariant, PTL

(* The report that is compared with is the owner's own, of the repository, *)
(* and the latest of them for a run that was alone.                        *)
THEOREM ComparisonIsWithLatestOwn == Spec => []ComparedWithLatestOwn
<1>1. HistoryInv => ComparedWithLatestOwn
  <2> SUFFICES ASSUME HistoryInv, NEW r \in Runs, Compared(r)
               PROVE  /\ Previous(r).owner = report[r].owner
                      /\ Previous(r).repository = report[r].repository
                      /\ ({r} \cup seen[r]) \cap overlapped = {} =>
                            \A i \in seen[r] : i > Previous(r).id =>
                                \/ report[i].owner # report[r].owner
                                \/ report[i].repository # report[r].repository
    BY DEF ComparedWithLatestOwn
  <2> DEFINE latest == report[r].delta.previous
  <2>1. PICK window \in SUBSET Ids : DeltaIsOf(r, window)
    BY DEF HistoryInv, DeltasAreKnown
  <2>2. latest \in OwnSeen(r) /\ Previous(r) = report[latest]
    BY <2>1 DEF DeltaIsOf, Previous
  <2>3. Previous(r).id = latest /\ latest \in Nat
    BY PreviousIsSound, RunsAssumption DEF ReportIsSound, Previous, Finished
  <2>4. ASSUME ({r} \cup seen[r]) \cap overlapped = {}, NEW i \in OwnSeen(r), i > latest
        PROVE  FALSE
    <3>1. i <= latest
      BY <2>1, <2>4 DEF DeltaIsOf
    <3>2. i \in Nat
      BY <2>4, RunsAssumption DEF HistoryInv, Shape, OwnSeen, Ids, Legacy
    <3> HIDE DEF latest
    <3> QED
      BY <2>3, <2>4, <3>1, <3>2
  <2> QED
    BY <2>2, <2>3, <2>4 DEF OwnSeen
<1> QED
  BY <1>1, HistoryIsInvariant, PTL
=============================================================================
