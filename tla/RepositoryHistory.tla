------------------------- MODULE RepositoryHistory -------------------------
(***************************************************************************)
(* What a report says has changed: AnalysisRunner._delta over the report   *)
(* store, while other analyses of the same repository run, save and are    *)
(* deleted, and while the code and the set of rules change.                *)
(*                                                                         *)
(* The store is one of the two backends of app/store.py.  Without a        *)
(* database it keeps the newest reports by order of saving, with one it    *)
(* keeps all and orders them by created_at, which a report is given before *)
(* it is compared and saved.                                               *)
(*                                                                         *)
(* The problems that are in the code are the ground truth here.  A finding *)
(* is the problem's fingerprint, a natural number, worst first.            *)
(***************************************************************************)
EXTENDS Diffing, SequencesExt

CONSTANTS
    Runs,              \* analyses, each with the report it makes
    Requests,          \* who asks for what: functions from runs to pairs of an owner
                       \*   and a repository (NoRepository for an upload)
    Problems, Rules,   \* fingerprints, and the rules that look for them
    RuleOf,            \* problem -> rule
    Versions,          \* the sets of rules of the versions of the service
    MaxFindings,       \* settings.max_findings
    Window,            \* runner.REOPEN_WINDOW
    Capacity,          \* store.MEMORY_CAPACITY
    MaxRunning,        \* how many analyses are under way at a time
    MaxTroubles        \* how often a rule does not run or fails, a problem is overlooked,
                       \*   the store fails, a report is deleted or a version deployed,
                       \*   together

ASSUME RunsAssumption == Runs \subseteq Nat \ {0} /\ IsFiniteSet(Runs)

ASSUME ProblemsAssumption ==
    Problems \subseteq Nat /\ NoPrint \notin Problems /\ RuleOf \in [Problems -> Rules]

ASSUME VersionsAssumption == Versions \subseteq SUBSET Rules

ASSUME BoundsAssumption ==
    /\ MaxFindings \in Nat \ {0} /\ Window \in Nat \ {0} /\ Capacity \in Nat \ {0}
    /\ MaxTroubles \in Nat

VARIABLES
    request,           \* one of Requests
    troubles,          \* how many there were
    backend,           \* "memory" or "postgres"
    deployed,          \* the rules this version of the service has
    pc,                \* run -> what it does next
    report,            \* run -> its report, as far as it is made
    stored,            \* report ids in the order of saving
    clock,             \* orders created_at
    \* history
    overlapped,        \* runs that were not alone
    seen               \* run -> what it could have been compared with

storeVars == <<backend, stored>>
configVars == <<request, backend>>
vars == <<storeVars, request, troubles, deployed, pc, report, clock, overlapped, seen>>

Steps == {"idle", "analyse", "compare", "save", "done", "lost"}

NotMade == [id |-> 0]
NoDelta == [previous |-> 0]
Legacy == 0                                  \* the id of a report of long ago

LegacyReport(owner, repository) ==
    [id |-> Legacy, owner |-> owner, repository |-> repository, created |-> 0,
     tree |-> Problems, findings |-> {[fingerprint |-> NoPrint]}, rule_ids |-> {},
     failed |-> {}, overlooked |-> {}, truncated |-> FALSE, delta |-> NoDelta]

Ids == Runs \cup {Legacy}

Init ==
    /\ request \in Requests
    /\ troubles = 0
    /\ backend \in {"memory", "postgres"}
    /\ deployed \in Versions
    /\ pc = [r \in Runs |-> "idle"]
    /\ report = [i \in Ids |-> IF i = Legacy THEN LegacyReport(request[1][1], request[1][2])
                                             ELSE NotMade]
    /\ stored \in IF backend = "postgres" THEN {<<>>, <<Legacy>>} ELSE {<<>>}
    /\ clock = 0
    /\ overlapped = {}
    /\ seen = [r \in Runs |-> {}]

Troubles(n) == troubles + n <= MaxTroubles /\ troubles' = troubles + n
Trouble == Troubles(1)

-----------------------------------------------------------------------------
(* app/store.py.                                                           *)

(* InMemoryReportStore.save evicts the report that was saved first; the    *)
(* database keeps every row.                                               *)
Saved(ids, id) ==
    LET all == Append(ids, id)
    IN  IF backend = "memory" /\ Len(all) > Capacity THEN Tail(all) ELSE all

(* The later report: the one saved later, or the one with the later        *)
(* created_at.                                                             *)
Later(i, j) ==
    IF backend = "memory"
    THEN \E m, n \in DOMAIN stored : n < m /\ stored[m] = i /\ stored[n] = j
    ELSE report[i].created > report[j].created

(* Exactly the owner's, and "no owner" is an owner like the others.        *)
Own(repository, owner) ==
    {i \in ToSet(stored) : report[i].repository = repository /\ report[i].owner = owner}

(* Faulty variant of ReportsFor: in the order they are kept, the oldest.   *)
ReportsForAsKept(repository, owner) ==
    LET own == Own(repository, owner)
    IN  {i \in own : Cardinality({j \in own : Later(i, j)}) < Window}

(* The newest, at most Window of them.                                     *)
ReportsFor(repository, owner) ==
    LET own == Own(repository, owner)
    IN  {i \in own : Cardinality({j \in own : Later(j, i)}) < Window}

-----------------------------------------------------------------------------
(* app/analysis/runner.py and the loop of app/analysis/engine.py.          *)
Active == {r \in Runs : pc[r] \in {"analyse", "compare", "save"}}

Start(r) ==
    /\ pc[r] = "idle" /\ Cardinality(Active) < MaxRunning
    /\ \A q \in Runs : q < r => pc[q] # "idle"            \* ids in order of starting
    /\ pc' = [pc EXCEPT ![r] = "analyse"]
    /\ report' = [report EXCEPT ![r] = [id |-> r, owner |-> request[r][1],
                                        repository |-> request[r][2]]]
    /\ overlapped' = IF Active = {} THEN overlapped ELSE overlapped \cup Active \cup {r}
    /\ UNCHANGED <<storeVars, request, troubles, deployed, clock, seen>>

(* The problems that the rules which run to their end can report.          *)
Reachable(tree, applicable, failed) == {p \in tree : RuleOf[p] \in applicable \ failed}

(* What is above the limit is cut, worst first.  created_at is given here. *)
EngineReport(r, tree, applicable, failed, overlooked) ==
    LET found == Reachable(tree, applicable, failed) \ overlooked
        kept == {p \in found : Cardinality({q \in found : q < p}) < MaxFindings}
    IN  [id |-> r, owner |-> report[r].owner, repository |-> report[r].repository,
         created |-> clock + 1, tree |-> tree,
         findings |-> {[fingerprint |-> p] : p \in kept}, truncated |-> found # kept,
         rule_ids |-> applicable, failed |-> failed, overlooked |-> overlooked,
         delta |-> NoDelta]

(* Whatever is in the code by now.  Of the deployed rules those run that   *)
(* say they apply to it, and rule_ids names those.  One that fails reports *)
(* nothing and is named with the others; one that finishes may overlook    *)
(* what is above its own cap or in a file that was not read.  Which rules  *)
(* fail that had nothing to report makes no difference.                    *)
Analyse(r) ==
    /\ pc[r] = "analyse"
    /\ \E tree \in SUBSET Problems, applicable \in SUBSET deployed :
       \E failed \in SUBSET (applicable \cap {RuleOf[p] : p \in tree}) :
       \E overlooked \in SUBSET Reachable(tree, applicable, failed) :
          /\ report' = [report EXCEPT ![r] =
                            EngineReport(r, tree, applicable, failed, overlooked)]
          /\ Troubles(Cardinality(deployed \ applicable) + Cardinality(failed)
                        + Cardinality(overlooked))
    /\ clock' = clock + 1
    /\ pc' = [pc EXCEPT ![r] = "compare"]
    /\ UNCHANGED <<storeVars, request, deployed, overlapped, seen>>

Latest(history) == CHOOSE i \in history : \A j \in history : ~ Later(j, i)

(* Faulty variant of Delta: the window ends with the report that is        *)
(* compared with, and nothing is reopened.                                 *)
DeltaForgetsEarlier(current, history) ==
    IF history = {} \/ ~ IsComparable(current, report[Latest(history)]) THEN NoDelta
    ELSE Compare(current, report[Latest(history)], {})

Delta(current, history) ==
    IF history = {} \/ ~ IsComparable(current, report[Latest(history)]) THEN NoDelta
    ELSE Compare(current, report[Latest(history)],
                 {report[i] : i \in history \ {Latest(history)}})

(* An upload is not compared, and a store that fails leaves no delta.      *)
LoadHistory(r) ==
    /\ pc[r] = "compare"
    /\ pc' = [pc EXCEPT ![r] = "save"]
    /\ LET history == IF report[r].repository = NoRepository THEN {}
                      ELSE ReportsFor(report[r].repository, report[r].owner)
       IN  \/ /\ report' = [report EXCEPT ![r].delta = Delta(report[r], history)]
              /\ seen' = [seen EXCEPT ![r] = ToSet(stored)]
              /\ UNCHANGED troubles
           \/ Trouble /\ UNCHANGED <<report, seen>>
    /\ UNCHANGED <<storeVars, request, deployed, clock, overlapped>>

SaveReport(r) ==
    /\ pc[r] = "save"
    /\ stored' = Saved(stored, r)
    /\ pc' = [pc EXCEPT ![r] = "done"]
    /\ UNCHANGED <<configVars, troubles, deployed, report, clock, overlapped, seen>>

(* routers/reports.delete_report, by the owner.                            *)
DeleteReport(i) ==
    /\ Trouble
    /\ \E n \in DOMAIN stored : stored[n] = i /\ stored' = RemoveAt(stored, n)
    /\ UNCHANGED <<configVars, deployed, pc, report, clock, overlapped, seen>>

(* Another version, with more rules, or with fewer after a rollback.  The  *)
(* process restarts: runs are lost, and so is what was kept in memory.     *)
Deploy ==
    /\ Trouble
    /\ \E rules \in Versions \ {deployed} : deployed' = rules
    /\ pc' = [r \in Runs |-> IF r \in Active THEN "lost" ELSE pc[r]]
    /\ stored' = IF backend = "memory" THEN <<>> ELSE stored
    /\ UNCHANGED <<configVars, report, clock, overlapped, seen>>

Next ==
    \/ \E r \in Runs : Start(r) \/ Analyse(r) \/ LoadHistory(r) \/ SaveReport(r)
    \/ \E i \in Ids : DeleteReport(i)
    \/ Deploy

Spec == Init /\ [][Next]_vars
-----------------------------------------------------------------------------
TypeOK ==
    /\ pc \in [Runs -> Steps]
    /\ ToSet(stored) \subseteq Ids /\ troubles \in 0..MaxTroubles
    /\ deployed \subseteq Rules
    /\ clock \in 0..Cardinality(Runs)
    /\ overlapped \subseteq Runs /\ seen \in [Runs -> SUBSET Ids]

Compared(r) == pc[r] \in {"save", "done"} /\ report[r].delta # NoDelta
Previous(r) == report[report[r].delta.previous]

(* A report that had everything to say of p: the rule for it ran to its    *)
(* end and overlooked nothing of p.                                        *)
LookedFor(p, rep) ==
    RuleOf[p] \in rep.rule_ids \ rep.failed /\ p \notin rep.overlooked

(* What a delta says is true of the code, as far as both analyses looked:  *)
(* what it calls resolved is gone, or was not looked for this time; what   *)
(* it calls new was not there last time, or was not looked for then, and a *)
(* rule that did not run then is named; what it calls reopened was         *)
(* reported before and not last time.  A report that was cut, or that has  *)
(* no fingerprints, would make each of them false.  That a problem is      *)
(* still there means: under its old fingerprint.  Code that only moved     *)
(* gets another one, and is resolved and new (Finding.fingerprint).        *)
DeltaIsTrue ==
    \A r \in Runs : Compared(r) =>
        LET delta == report[r].delta
        IN  /\ \A p \in delta.resolved :
                  /\ LookedFor(p, Previous(r))
                  /\ p \in Previous(r).tree
                  /\ LookedFor(p, report[r]) => p \notin report[r].tree
            /\ \A p \in delta.new :
                  /\ p \in report[r].tree
                  /\ \/ p \notin Previous(r).tree \/ p \in Previous(r).overlooked
                     \/ RuleOf[p] \in delta.new_rules \cup Previous(r).failed
            /\ \A p \in delta.reopened :
                  p \in report[r].tree /\ p \notin Prints(Previous(r))

(* A finding that was ever reported to this owner within the window is not *)
(* called new when it comes back ("a problem fixed five runs ago and       *)
(* reintroduced today is still recognised").                               *)
ReturnIsRecognised ==
    \A r \in Runs : Compared(r) =>
        LET own == {i \in seen[r] : /\ report[i].owner = report[r].owner
                                    /\ report[i].repository = report[r].repository}
        IN  Cardinality(own) <= Window =>
              \A i \in own : report[r].delta.new \cap Prints(report[i]) = {}

(* An analysis is compared with its owner's own, of the same repository,   *)
(* and one that ran alone with the latest of them that is kept: in both    *)
(* backends, although they order by different things.                      *)
ComparedWithLatestOwn ==
    \A r \in Runs : Compared(r) =>
        /\ Previous(r).owner = report[r].owner
        /\ Previous(r).repository = report[r].repository
        /\ ({r} \cup seen[r]) \cap overlapped = {} =>
              \A i \in seen[r] : i > Previous(r).id =>
                  report[i].owner # report[r].owner \/ report[i].repository # report[r].repository

(* is_comparable: "Deliberately strict. A misleading comparison is worse   *)
(* than none, because the whole point is to be trusted about what          *)
(* changed."  A finding whose rule did not run this time is not called     *)
(* resolved while the code still has it.                                   *)
UnrunResolvesNothing ==
    \A r \in Runs : Compared(r) =>
        \A p \in report[r].delta.resolved \cap report[r].tree :
            RuleOf[p] \in report[r].rule_ids

(* runner._delta gives up rather than assert something false, "a delta     *)
(* that omits half the resolved findings".  Nothing that the code still    *)
(* has is called resolved, not even what a rule that failed would report.  *)
ResolvedIsGone ==
    \A r \in Runs : Compared(r) => report[r].delta.resolved \cap report[r].tree = {}
=============================================================================
