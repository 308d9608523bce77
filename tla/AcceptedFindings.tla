-------------------------- MODULE AcceptedFindings --------------------------
(***************************************************************************)
(* Accepting findings, and the score a listing shows: suppressions.py, the *)
(* suppression, listing, page and delete endpoints of routers/reports.py,  *)
(* and the columns of store.py they read and write.                        *)
(*                                                                         *)
(* A request is a chain of database sessions with awaits in between, so    *)
(* requests interleave at every one of them.  A score is abstracted to the *)
(* set of accepted fingerprints it leaves out: compute_score is a function *)
(* of the rest, and suppressed_count counts that set.                      *)
(***************************************************************************)
EXTENDS Naturals, FiniteSets

CONSTANTS
    Requests,      \* request handlers that may run at the same time
    Users,         \* accounts
    Reports,       \* ids of reports that analyses will produce
    Fingerprints,  \* identities of findings
    Repositories,
    None,          \* no owner (anonymous), no repository (an upload)
    OwnerOf,       \* per report: who ran the analysis
    RepositoryOf,  \* per report: what was analysed
    FindingsOf,    \* per report: the fingerprints of its findings
    CreatedAt,     \* per report: when it was created
    RefreshLimit,  \* the limit of reports_for: 100
    MayFail        \* FALSE: no session raises and the process does not stop

ASSUME UsersAssumption == None \notin Users \cup Repositories
ASSUME ReportsAssumption ==
    /\ OwnerOf \in [Reports -> Users \cup {None}]
    /\ RepositoryOf \in [Reports -> Repositories \cup {None}]
    /\ FindingsOf \in [Reports -> SUBSET Fingerprints]
    /\ CreatedAt \in [Reports -> Nat]
ASSUME LimitAssumption == RefreshLimit \in Nat
ASSUME FailureAssumption == MayFail \in BOOLEAN

VARIABLES
    stored,    \* reports in the report store
    deleted,   \* reports that were deleted
    accepted,  \* the suppression table: <<owner, repository, fingerprint>>
    cached,    \* per report: what its cached effective score leaves out
    request,   \* where each request handler stands
    ever,      \* history: everything that was ever accepted
    disturbed  \* history: requests whose view of the table was overtaken

vars == <<stored, deleted, accepted, cached, request, ever, disturbed>>

Keys == Users \X Repositories
KeyOf(r) == <<OwnerOf[r], RepositoryOf[r]>>

Steps == {"idle", "add", "remove", "listEntries", "listReports", "writeScores",
          "deleteRow"}

Handlers == [step : Steps, key : Keys \cup {None}, target : Reports \cup {None},
             fingerprint : Fingerprints \cup {None},
             reasons : SUBSET Fingerprints, batch : SUBSET Reports]

IdleHandler == [step |-> "idle", key |-> None, target |-> None,
                fingerprint |-> None, reasons |-> {}, batch |-> {}]

TypeOK ==
    /\ stored \subseteq Reports
    /\ deleted \subseteq Reports
    /\ accepted \subseteq Users \X Repositories \X Fingerprints
    /\ cached \in [Reports -> SUBSET Fingerprints]
    /\ request \in [Requests -> Handlers]
    /\ ever \subseteq Users \X Repositories \X Fingerprints
    /\ disturbed \subseteq Requests

Init ==
    /\ stored = {}
    /\ deleted = {}
    /\ accepted = {}
    /\ cached = [r \in Reports |-> {}]
    /\ request = [q \in Requests |-> IdleHandler]
    /\ ever = {}
    /\ disturbed = {}

-----------------------------------------------------------------------------
(* What the endpoints show.                                                *)

\* SuppressionStore.list: the fingerprints accepted under a key.
Entries(key) == {f \in Fingerprints : <<key[1], key[2], f>> \in accepted}

\* _mark: the findings of the report that are accepted.
Marked(r, reasons) == FindingsOf[r] \cap reasons

\* get_report: the owner's suppressions, applied as the page is read.
Page(r) == IF KeyOf(r) \in Keys THEN Marked(r, Entries(KeyOf(r))) ELSE {}

\* list_reports: the cached columns, never the payload.
Listed(r) == cached[r]

-----------------------------------------------------------------------------
(* Handlers.                                                               *)

\* ReportStore.save by an analysis: a row with a NULL effective score.
SaveReport(r) ==
    /\ r \notin stored \cup deleted
    /\ stored' = stored \cup {r}
    /\ cached' = [cached EXCEPT ![r] = {}]
    /\ UNCHANGED <<deleted, accepted, request, ever, disturbed>>

\* _owned_finding: the report exists, is the caller's and of a repository, and
\* the finding is in it.  Any other request is refused and changes nothing.
OwnedFinding(user, r, f) ==
    /\ r \in stored
    /\ OwnerOf[r] = user
    /\ RepositoryOf[r] # None
    /\ f \in FindingsOf[r]

\* suppress_finding or unsuppress_finding, up to the change of the table.
StartChange(q, user, r, f, change) ==
    /\ request[q].step = "idle"
    /\ OwnedFinding(user, r, f)
    /\ request' = [request EXCEPT ![q] =
                     [IdleHandler EXCEPT !.step = change,
                                         !.key = <<user, RepositoryOf[r]>>,
                                         !.fingerprint = f]]
    /\ disturbed' = disturbed \ {q}
    /\ UNCHANGED <<stored, deleted, accepted, cached, ever>>

Entry(q) == <<request[q].key[1], request[q].key[2], request[q].fingerprint>>

\* The other handlers that have read, or are about to write, scores of the key.
Overtaken(q) ==
    {o \in Requests \ {q} : /\ request[o].step \in {"listReports", "writeScores"}
                            /\ request[o].key = request[q].key}

\* SuppressionStore.add or .remove, committed in a session of its own.
ChangeTable(q) ==
    /\ request[q].step \in {"add", "remove"}
    /\ accepted' = IF request[q].step = "add" THEN accepted \cup {Entry(q)}
                   ELSE accepted \ {Entry(q)}
    /\ ever' = ever \cup accepted'
    /\ request' = [request EXCEPT ![q].step = "listEntries",
                                  ![q].fingerprint = None]
    /\ disturbed' = disturbed \cup Overtaken(q)
    /\ UNCHANGED <<stored, deleted, cached>>

\* _refresh_effective_scores: read the table,
ListEntries(q) ==
    /\ request[q].step = "listEntries"
    /\ request' = [request EXCEPT ![q].step = "listReports",
                                  ![q].reasons = Entries(request[q].key)]
    /\ UNCHANGED <<stored, deleted, accepted, cached, ever, disturbed>>

\* Faulty variant: reports_for takes no owner to mean any owner.
ReportsForAnyOwner(key) == {r \in stored : RepositoryOf[r] = key[2]}

\* reports_for: the newest RefreshLimit reports of the owner's repository.
ReportsFor(key) ==
    LET all == {r \in stored : KeyOf(r) = key}
    IN  {r \in all : Cardinality({o \in all : CreatedAt[o] > CreatedAt[r]}) < RefreshLimit}

\* read the reports,
ListReports(q) ==
    /\ request[q].step = "listReports"
    /\ request' = [request EXCEPT ![q].step = "writeScores",
                                  ![q].batch = ReportsFor(request[q].key)]
    /\ UNCHANGED <<stored, deleted, accepted, cached, ever, disturbed>>

\* Faulty variant: the batch is merged, so a deleted row comes back.
WriteScoresUpsert(q) ==
    /\ request[q].step = "writeScores"
    /\ stored' = stored \cup request[q].batch
    /\ cached' = [r \in Reports |-> IF r \in request[q].batch
                                    THEN Marked(r, request[q].reasons) ELSE cached[r]]
    /\ request' = [request EXCEPT ![q] = IdleHandler]
    /\ UNCHANGED <<deleted, accepted, ever, disturbed>>

\* Faulty variant: only reports with something accepted are written.
WriteScoresMarkedOnly(q) ==
    /\ request[q].step = "writeScores"
    /\ cached' = [r \in Reports |->
                    IF r \in request[q].batch \cap stored /\ Marked(r, request[q].reasons) # {}
                    THEN Marked(r, request[q].reasons) ELSE cached[r]]
    /\ request' = [request EXCEPT ![q] = IdleHandler]
    /\ UNCHANGED <<stored, deleted, accepted, ever, disturbed>>

\* and write every score in one batch of UPDATEs by id: rows deleted meanwhile
\* stay deleted.
WriteScores(q) ==
    /\ request[q].step = "writeScores"
    /\ cached' = [r \in Reports |-> IF r \in request[q].batch \cap stored
                                    THEN Marked(r, request[q].reasons) ELSE cached[r]]
    /\ request' = [request EXCEPT ![q] = IdleHandler]
    /\ UNCHANGED <<stored, deleted, accepted, ever, disturbed>>

\* delete_report: owner_of, then delete; nobody's report is nobody's to delete.
StartDelete(q, user, r) ==
    /\ request[q].step = "idle"
    /\ r \in stored
    /\ OwnerOf[r] = user
    /\ request' = [request EXCEPT ![q] = [IdleHandler EXCEPT !.step = "deleteRow",
                                                             !.target = r]]
    /\ disturbed' = disturbed \ {q}
    /\ UNCHANGED <<stored, deleted, accepted, cached, ever>>

\* The cached columns go with the row; what was accepted stays accepted.
DeleteRow(q) ==
    /\ request[q].step = "deleteRow"
    /\ stored' = stored \ {request[q].target}
    /\ deleted' = deleted \cup {request[q].target}
    /\ cached' = [cached EXCEPT ![request[q].target] = {}]
    /\ request' = [request EXCEPT ![q] = IdleHandler]
    /\ UNCHANGED <<accepted, ever, disturbed>>

\* A session raises, or the process stops: the request ends where it stands and
\* what it committed stays committed.
Abort(q) ==
    /\ MayFail
    /\ request[q].step # "idle"
    /\ request' = [request EXCEPT ![q] = IdleHandler]
    /\ UNCHANGED <<stored, deleted, accepted, cached, ever, disturbed>>

RequestStep(q) ==
    ChangeTable(q) \/ ListEntries(q) \/ ListReports(q) \/ WriteScores(q) \/ DeleteRow(q)

Next ==
    \/ \E r \in Reports : SaveReport(r)
    \/ \E q \in Requests, user \in Users, r \in Reports :
          \/ \E f \in Fingerprints, change \in {"add", "remove"} :
                StartChange(q, user, r, f, change)
          \/ StartDelete(q, user, r)
    \/ \E q \in Requests : RequestStep(q) \/ Abort(q)

Spec == Init /\ [][Next]_vars

-----------------------------------------------------------------------------
(* Properties.                                                             *)

\* An acceptance is a judgement its owner could make: on a repository, about a
\* finding that a report of their own contained (_owned_finding).
AcceptedWasTheirs ==
    \A e \in accepted :
        \E r \in stored \cup deleted : KeyOf(r) = <<e[1], e[2]>> /\ e[3] \in FindingsOf[r]

\* No score, not even a stale one, leaves out a finding its own owner never
\* accepted for that repository: refreshes of other accounts and other
\* repositories do not leak into it, however they interleave.
CacheIsScoped ==
    \A r \in Reports : \A f \in Listed(r) : <<OwnerOf[r], RepositoryOf[r], f>> \in ever

\* A refresh that lost a race against a deletion does not bring the report back.
DeletedStaysDeleted ==
    /\ stored \cap deleted = {}
    /\ \A r \in Reports : r \notin stored => Listed(r) = {}

\* A refresh that nobody overtook leaves the listing and the page of every report
\* it covers showing the same score, after an acceptance and after a withdrawal.
RefreshSettles ==
    [][\A q \in Requests :
          (/\ request[q].step = "writeScores" /\ q \notin disturbed /\ WriteScores(q))
             => \A r \in request[q].batch \cap stored' : Listed(r)' = Page(r)']_vars

\* "so a listing can show the same number as the report it links to": with nobody
\* busy, each report is listed with the score its page shows.
ListingMatchesPage ==
    (\A q \in Requests : request[q].step = "idle") =>
        \A r \in stored : Listed(r) = Page(r)
=============================================================================
