---------------------- MODULE AcceptedFindings_proofs ----------------------
(***************************************************************************)
(* The properties of AcceptedFindings, for any accounts, reports, findings *)
(* and requests, any limit of a refresh, and with failures anywhere.       *)
(*                                                                         *)
(* What has to be carried along is what a handler holds between two of its *)
(* database sessions: whose key it works for, that the reasons it read are *)
(* still those of the table unless somebody changed them, and that its     *)
(* batch are reports under its key.                                        *)
(***************************************************************************)
EXTENDS AcceptedFindings, TLAPS

Refreshing == {"listReports", "writeScores"}
Keyed == {"add", "remove", "listEntries"} \cup Refreshing

(* What a handler was started for.                                         *)
HandlersAimed ==
    \A q \in Requests :
        /\ request[q].step \in Keyed => request[q].key \in Keys
        /\ request[q].step \in {"add", "remove"} =>
              /\ request[q].fingerprint \in Fingerprints
              /\ \E r \in stored \cup deleted : /\ KeyOf(r) = request[q].key
                                              /\ request[q].fingerprint \in FindingsOf[r]
        /\ request[q].step = "deleteRow" => request[q].target \in Reports

(* What a refresh has read.                                                *)
ReasonsHeld ==
    \A q \in Requests : request[q].step \in Refreshing =>
        /\ \A f \in request[q].reasons : <<request[q].key[1], request[q].key[2], f>> \in ever
        /\ q \notin disturbed => request[q].reasons = Entries(request[q].key)

BatchesHeld ==
    \A q \in Requests : request[q].step = "writeScores" =>
        \A r \in request[q].batch : KeyOf(r) = request[q].key

Inv ==
    /\ TypeOK
    /\ HandlersAimed
    /\ ReasonsHeld
    /\ BatchesHeld
    /\ accepted \subseteq ever
    /\ AcceptedWasTheirs
    /\ CacheIsScoped
    /\ DeletedStaysDeleted

-----------------------------------------------------------------------------
LEMMA StepNames ==
    /\ Steps = {"idle", "add", "remove", "listEntries", "listReports", "writeScores", "deleteRow"}
    /\ Refreshing = {"listReports", "writeScores"}
    /\ Keyed = {"add", "remove", "listEntries", "listReports", "writeScores"}
  BY DEF Steps, Refreshing, Keyed

(* What the handlers write into their record leaves it one.                *)
LEMMA HandlerRecords ==
    /\ IdleHandler \in Handlers
    /\ \A key \in Keys, f \in Fingerprints, change \in {"add", "remove"} :
          LET h == [IdleHandler EXCEPT !.step = change, !.key = key, !.fingerprint = f]
          IN  /\ h \in Handlers
              /\ h.step = change /\ h.key = key /\ h.fingerprint = f
    /\ \A r \in Reports :
          LET h == [IdleHandler EXCEPT !.step = "deleteRow", !.target = r]
          IN  h \in Handlers /\ h.step = "deleteRow" /\ h.target = r
  BY DEF IdleHandler, Handlers, Steps

LEMMA HandlerChange ==
    ASSUME NEW h \in Handlers, NEW reasons \in SUBSET Fingerprints, NEW batch \in SUBSET Reports
    PROVE  /\ [h EXCEPT !.step = "listEntries", !.fingerprint = None] \in Handlers
           /\ [h EXCEPT !.step = "listReports", !.reasons = reasons] \in Handlers
           /\ [h EXCEPT !.step = "writeScores", !.batch = batch] \in Handlers
  BY DEF Handlers, Steps

(* What each step does to the record of its handler.                       *)
LEMMA HandlerSteps ==
    ASSUME request \in [Requests -> Handlers], NEW q \in Requests
    PROVE  /\ ChangeTable(q) =>
                 request' = [request EXCEPT ![q] =
                    [request[q] EXCEPT !.step = "listEntries", !.fingerprint = None]]
           /\ ListEntries(q) =>
                 request' = [request EXCEPT ![q] =
                    [request[q] EXCEPT !.step = "listReports", !.reasons = Entries(request[q].key)]]
           /\ ListReports(q) =>
                 request' = [request EXCEPT ![q] =
                    [request[q] EXCEPT !.step = "writeScores",
                                       !.batch = ReportsFor(request[q].key)]]
  BY DEF ChangeTable, ListEntries, ListReports, Handlers

LEMMA TypeStep ==
    ASSUME TypeOK, HandlersAimed, [Next]_vars
    PROVE  TypeOK'
<1> USE DEF TypeOK
<1>1. ASSUME NEW r \in Reports, SaveReport(r) PROVE TypeOK'
  BY <1>1 DEF SaveReport
<1>2. ASSUME NEW q \in Requests, NEW user \in Users, NEW r \in Reports, NEW f \in Fingerprints,
             NEW change \in {"add", "remove"}, StartChange(q, user, r, f, change)
      PROVE  TypeOK'
  <2>1. <<user, RepositoryOf[r]>> \in Keys
    BY <1>2, ReportsAssumption DEF StartChange, OwnedFinding, Keys
  <2>2. [IdleHandler EXCEPT !.step = change, !.key = <<user, RepositoryOf[r]>>,
                            !.fingerprint = f] \in Handlers
    BY <2>1, HandlerRecords
  <2> QED
    BY <1>2, <2>2 DEF StartChange
<1>3. ASSUME NEW q \in Requests, ChangeTable(q) PROVE TypeOK'
  <2>1. Entry(q) \in Users \X Repositories \X Fingerprints
    BY <1>3, StepNames DEF ChangeTable, Entry, HandlersAimed, Keys
  <2>2. accepted' \subseteq Users \X Repositories \X Fingerprints
    BY <1>3, <2>1 DEF ChangeTable
  <2>3. ever' \subseteq Users \X Repositories \X Fingerprints
    BY <1>3, <2>2 DEF ChangeTable
  <2>4. disturbed' \subseteq Requests
    BY <1>3 DEF ChangeTable, Overtaken
  <2>5. [request[q] EXCEPT !.step = "listEntries", !.fingerprint = None] \in Handlers
    BY HandlerChange
  <2>6. request' \in [Requests -> Handlers]
    BY <1>3, <2>5, HandlerSteps
  <2> QED
    BY <1>3, <2>2, <2>3, <2>4, <2>6 DEF ChangeTable
<1>4. ASSUME NEW q \in Requests, ListEntries(q) PROVE TypeOK'
  <2>1. [request[q] EXCEPT !.step = "listReports", !.reasons = Entries(request[q].key)] \in Handlers
    BY HandlerChange DEF Entries
  <2>2. request' \in [Requests -> Handlers]
    BY <1>4, <2>1, HandlerSteps
  <2> QED
    BY <1>4, <2>2 DEF ListEntries
<1>5. ASSUME NEW q \in Requests, ListReports(q) PROVE TypeOK'
  <2>1. ReportsFor(request[q].key) \in SUBSET Reports
    BY DEF ReportsFor
  <2>2. [request[q] EXCEPT !.step = "writeScores", !.batch = ReportsFor(request[q].key)] \in Handlers
    BY <2>1, HandlerChange
  <2>3. request' \in [Requests -> Handlers]
    BY <1>5, <2>2, HandlerSteps
  <2> QED
    BY <1>5, <2>3 DEF ListReports
<1>6. ASSUME NEW q \in Requests, WriteScores(q) PROVE TypeOK'
  <2>1. request[q].reasons \subseteq Fingerprints
    BY DEF Handlers
  <2>2. cached' \in [Reports -> SUBSET Fingerprints]
    BY <1>6, <2>1, ReportsAssumption DEF WriteScores, Marked
  <2> QED
    BY <1>6, <2>2, HandlerRecords DEF WriteScores
<1>7. ASSUME NEW q \in Requests, NEW user \in Users, NEW r \in Reports, StartDelete(q, user, r)
      PROVE  TypeOK'
  <2>1. [IdleHandler EXCEPT !.step = "deleteRow", !.target = r] \in Handlers
    BY HandlerRecords
  <2> QED
    BY <1>7, <2>1 DEF StartDelete
<1>8. ASSUME NEW q \in Requests, DeleteRow(q) PROVE TypeOK'
  <2>1. request[q].target \in Reports
    BY <1>8 DEF DeleteRow, HandlersAimed
  <2>2. request' \in [Requests -> Handlers]
    BY <1>8, HandlerRecords DEF DeleteRow
  <2>3. cached' \in [Reports -> SUBSET Fingerprints]
    BY <1>8, <2>1 DEF DeleteRow
  <2>4. stored' \subseteq Reports /\ deleted' \subseteq Reports
    BY <1>8, <2>1 DEF DeleteRow
  <2> QED
    BY <1>8, <2>2, <2>3, <2>4 DEF DeleteRow
<1>9. ASSUME NEW q \in Requests, Abort(q) PROVE TypeOK'
  BY <1>9, HandlerRecords DEF Abort
<1>10. CASE UNCHANGED vars
  BY <1>10 DEF vars
<1> QED
  BY <1>1, <1>2, <1>3, <1>4, <1>5, <1>6, <1>7, <1>8, <1>9, <1>10 DEF Next, RequestStep

(* The steps of the handlers, by what they leave in the handler's record.  *)
LEMMA HandlerAfter ==
    ASSUME TypeOK, NEW q \in Requests
    PROVE  /\ \A user \in Users, r \in Reports, f \in Fingerprints, change \in {"add", "remove"} :
                 StartChange(q, user, r, f, change) =>
                    /\ request'[q].step = change
                    /\ request'[q].key = <<user, RepositoryOf[r]>>
                    /\ request'[q].fingerprint = f
                    /\ \A o \in Requests \ {q} : request'[o] = request[o]
           /\ \A user \in Users, r \in Reports :
                 StartDelete(q, user, r) =>
                    /\ request'[q].step = "deleteRow" /\ request'[q].target = r
                    /\ \A o \in Requests \ {q} : request'[o] = request[o]
           /\ ChangeTable(q) =>
                 /\ request'[q].step = "listEntries" /\ request'[q].key = request[q].key
                 /\ \A o \in Requests \ {q} : request'[o] = request[o]
           /\ ListEntries(q) =>
                 /\ request'[q].step = "listReports" /\ request'[q].key = request[q].key
                 /\ request'[q].reasons = Entries(request[q].key)
                 /\ \A o \in Requests \ {q} : request'[o] = request[o]
           /\ ListReports(q) =>
                 /\ request'[q].step = "writeScores" /\ request'[q].key = request[q].key
                 /\ request'[q].reasons = request[q].reasons
                 /\ request'[q].batch = ReportsFor(request[q].key)
                 /\ \A o \in Requests \ {q} : request'[o] = request[o]
           /\ WriteScores(q) \/ DeleteRow(q) \/ Abort(q) =>
                 /\ request'[q].step = "idle"
                 /\ \A o \in Requests \ {q} : request'[o] = request[o]
<1>0. request \in [Requests -> Handlers]
  BY DEF TypeOK
<1>1. ASSUME NEW user \in Users, NEW r \in Reports, NEW f \in Fingerprints,
             NEW change \in {"add", "remove"}, StartChange(q, user, r, f, change)
      PROVE  /\ request'[q].step = change /\ request'[q].key = <<user, RepositoryOf[r]>>
             /\ request'[q].fingerprint = f
             /\ \A o \in Requests \ {q} : request'[o] = request[o]
  BY <1>0, <1>1 DEF StartChange, IdleHandler
<1>2. ASSUME NEW user \in Users, NEW r \in Reports, StartDelete(q, user, r)
      PROVE  /\ request'[q].step = "deleteRow" /\ request'[q].target = r
             /\ \A o \in Requests \ {q} : request'[o] = request[o]
  BY <1>0, <1>2 DEF StartDelete, IdleHandler
<1>3. ASSUME ChangeTable(q)
      PROVE  /\ request'[q].step = "listEntries" /\ request'[q].key = request[q].key
             /\ \A o \in Requests \ {q} : request'[o] = request[o]
  BY <1>0, <1>3 DEF ChangeTable, Handlers
<1>4. ASSUME ListEntries(q)
      PROVE  /\ request'[q].step = "listReports" /\ request'[q].key = request[q].key
             /\ request'[q].reasons = Entries(request[q].key)
             /\ \A o \in Requests \ {q} : request'[o] = request[o]
  BY <1>0, <1>4 DEF ListEntries, Handlers
<1>5. ASSUME ListReports(q)
      PROVE  /\ request'[q].step = "writeScores" /\ request'[q].key = request[q].key
             /\ request'[q].reasons = request[q].reasons
             /\ request'[q].batch = ReportsFor(request[q].key)
             /\ \A o \in Requests \ {q} : request'[o] = request[o]
  BY <1>0, <1>5 DEF ListReports, Handlers
<1>6. ASSUME WriteScores(q) \/ DeleteRow(q) \/ Abort(q)
      PROVE  /\ request'[q].step = "idle"
             /\ \A o \in Requests \ {q} : request'[o] = request[o]
  <2>1. request' = [request EXCEPT ![q] = IdleHandler]
    BY <1>6 DEF WriteScores, DeleteRow, Abort
  <2> QED
    BY <1>0, <2>1 DEF IdleHandler
<1> QED
  BY <1>1, <1>2, <1>3, <1>4, <1>5, <1>6

(* Reports are kept or known to be deleted, and history is not forgotten.  *)
LEMMA Growth ==
    ASSUME [Next]_vars
    PROVE  ever \subseteq ever' /\ stored \cup deleted \subseteq stored' \cup deleted'
  BY DEF Next, RequestStep, SaveReport, StartChange, ChangeTable, ListEntries, ListReports,
         WriteScores, StartDelete, DeleteRow, Abort, vars

LEMMA AimedStep ==
    ASSUME TypeOK, HandlersAimed, [Next]_vars
    PROVE  HandlersAimed'
<1> DEFINE Aimed(h) ==
        /\ h.step \in Keyed => h.key \in Keys
        /\ h.step \in {"add", "remove"} =>
              /\ h.fingerprint \in Fingerprints
              /\ \E r \in stored' \cup deleted' : /\ KeyOf(r) = h.key
                                                /\ h.fingerprint \in FindingsOf[r]
        /\ h.step = "deleteRow" => h.target \in Reports
<1>0. \A q \in Requests : Aimed(request[q])
  BY Growth DEF HandlersAimed
<1>1. (\A q \in Requests : Aimed(request'[q])) => HandlersAimed'
  BY DEF HandlersAimed
<1>2. ASSUME NEW q \in Requests, NEW user \in Users, NEW r \in Reports, NEW f \in Fingerprints,
             NEW change \in {"add", "remove"}, StartChange(q, user, r, f, change)
      PROVE  Aimed(request'[q]) /\ \A o \in Requests \ {q} : request'[o] = request[o]
  <2>1. <<user, RepositoryOf[r]>> \in Keys
    BY <1>2, ReportsAssumption DEF StartChange, OwnedFinding, Keys
  <2>2. r \in stored' /\ KeyOf(r) = <<user, RepositoryOf[r]>> /\ f \in FindingsOf[r]
    BY <1>2 DEF StartChange, OwnedFinding, KeyOf
  <2> QED
    BY <1>2, <2>1, <2>2, HandlerAfter
<1>3. ASSUME NEW q \in Requests, NEW user \in Users, NEW r \in Reports, StartDelete(q, user, r)
      PROVE  Aimed(request'[q]) /\ \A o \in Requests \ {q} : request'[o] = request[o]
  BY <1>3, HandlerAfter, StepNames
<1>4. ASSUME NEW q \in Requests, RequestStep(q) \/ Abort(q)
      PROVE  Aimed(request'[q]) /\ \A o \in Requests \ {q} : request'[o] = request[o]
  <2>1. CASE ChangeTable(q)
    BY <1>0, <2>1, HandlerAfter, StepNames DEF ChangeTable
  <2>2. CASE ListEntries(q)
    BY <1>0, <2>2, HandlerAfter, StepNames DEF ListEntries
  <2>3. CASE ListReports(q)
    BY <1>0, <2>3, HandlerAfter, StepNames DEF ListReports
  <2>4. CASE WriteScores(q) \/ DeleteRow(q) \/ Abort(q)
    BY <2>4, HandlerAfter, StepNames
  <2> QED
    BY <1>4, <2>1, <2>2, <2>3, <2>4 DEF RequestStep
<1>5. CASE request' = request
  BY <1>0, <1>1, <1>5
<1> HIDE DEF Aimed
<1>6. ASSUME NEW q \in Requests, Aimed(request'[q]),
             \A o \in Requests \ {q} : request'[o] = request[o]
      PROVE  HandlersAimed'
  BY <1>0, <1>1, <1>6
<1> QED
  BY <1>2, <1>3, <1>4, <1>5, <1>6 DEF Next, SaveReport, vars

LEMMA ReasonsStep ==
    ASSUME TypeOK, HandlersAimed, ReasonsHeld, accepted \subseteq ever, [Next]_vars
    PROVE  ReasonsHeld'
<1> DEFINE Known(h) == \A f \in h.reasons : <<h.key[1], h.key[2], f>> \in ever'
           Now(key) == {f \in Fingerprints : <<key[1], key[2], f>> \in accepted'}
           Held(p) == request'[p].step \in Refreshing =>
                          /\ Known(request'[p])
                          /\ p \notin disturbed' => request'[p].reasons = Now(request'[p].key)
<1>1. (\A p \in Requests : Held(p)) => ReasonsHeld'
  BY DEF ReasonsHeld, Entries
<1>2. \A p \in Requests : request[p].step \in Refreshing => Known(request[p])
  BY Growth DEF ReasonsHeld
<1>3. ASSUME accepted' = accepted,
             NEW p \in Requests, request'[p] = request[p],
             p \in disturbed => p \in disturbed'
      PROVE  Held(p)
  BY <1>2, <1>3 DEF ReasonsHeld, Entries
<1>4. ASSUME NEW q \in Requests, request'[q].step \notin Refreshing, accepted' = accepted,
             \A o \in Requests \ {q} : request'[o] = request[o],
             disturbed \ {q} \subseteq disturbed'
      PROVE  ReasonsHeld'
  <2>1. Held(q)
    BY <1>4
  <2>2. \A p \in Requests \ {q} : Held(p)
    BY <1>3, <1>4
  <2> QED
    BY <1>1, <2>1, <2>2
<1>5. ASSUME NEW q \in Requests, NEW user \in Users, NEW r \in Reports, NEW f \in Fingerprints,
             NEW change \in {"add", "remove"}, StartChange(q, user, r, f, change)
      PROVE  ReasonsHeld'
  <2>1. request'[q].step = change /\ \A o \in Requests \ {q} : request'[o] = request[o]
    BY <1>5, HandlerAfter
  <2>2. accepted' = accepted /\ disturbed' = disturbed \ {q}
    BY <1>5 DEF StartChange
  <2> QED
    BY <1>4, <2>1, <2>2, StepNames
<1>6. ASSUME NEW q \in Requests, NEW user \in Users, NEW r \in Reports, StartDelete(q, user, r)
      PROVE  ReasonsHeld'
  <2>1. request'[q].step = "deleteRow" /\ \A o \in Requests \ {q} : request'[o] = request[o]
    BY <1>6, HandlerAfter
  <2>2. accepted' = accepted /\ disturbed' = disturbed \ {q}
    BY <1>6 DEF StartDelete
  <2> QED
    BY <1>4, <2>1, <2>2, StepNames
<1>7. ASSUME NEW q \in Requests, WriteScores(q) \/ DeleteRow(q) \/ Abort(q)
      PROVE  ReasonsHeld'
  <2>1. request'[q].step = "idle" /\ \A o \in Requests \ {q} : request'[o] = request[o]
    BY <1>7, HandlerAfter
  <2>2. accepted' = accepted /\ disturbed' = disturbed
    BY <1>7 DEF WriteScores, DeleteRow, Abort
  <2> QED
    BY <1>4, <2>1, <2>2, StepNames
<1>8. ASSUME NEW q \in Requests, ChangeTable(q)
      PROVE  ReasonsHeld'
  <2>1. request'[q].step = "listEntries" /\ \A o \in Requests \ {q} : request'[o] = request[o]
    BY <1>8, HandlerAfter
  <2>2. \A e : (e[1] # request[q].key[1] \/ e[2] # request[q].key[2]) =>
                  (e \in accepted' <=> e \in accepted)
    BY <1>8 DEF ChangeTable, Entry
  <2>3. ASSUME NEW p \in Requests, p # q PROVE Held(p)
    <3>1. CASE request[p].step \in Refreshing /\ p \notin disturbed'
      <4>1. p \notin disturbed /\ request[p].key # request[q].key
        BY <1>8, <2>3, <3>1, StepNames DEF ChangeTable, Overtaken
      <4>2. request[p].key \in Keys /\ request[q].key \in Keys
        BY <1>8, <3>1, StepNames DEF HandlersAimed, ChangeTable
      <4>3. \/ request[p].key[1] # request[q].key[1]
            \/ request[p].key[2] # request[q].key[2]
        BY <4>1, <4>2 DEF Keys
      <4>4. \A f : <<request[p].key[1], request[p].key[2], f>> \in accepted'
                      <=> <<request[p].key[1], request[p].key[2], f>> \in accepted
        BY <2>2, <4>3
      <4>5. request[p].reasons = Now(request[p].key)
        BY <3>1, <4>1, <4>4 DEF ReasonsHeld, Entries
      <4> QED
        BY <1>2, <2>1, <2>3, <3>1, <4>5
    <3>2. CASE ~(request[p].step \in Refreshing /\ p \notin disturbed')
      BY <1>2, <2>1, <2>3, <3>2
    <3> QED
      BY <3>1, <3>2
  <2>4. Held(q)
    BY <2>1, StepNames
  <2> QED
    BY <1>1, <2>3, <2>4
<1>9. ASSUME NEW q \in Requests, ListEntries(q)
      PROVE  ReasonsHeld'
  <2>1. /\ request'[q].key = request[q].key /\ request'[q].reasons = Entries(request[q].key)
        /\ \A o \in Requests \ {q} : request'[o] = request[o]
    BY <1>9, HandlerAfter
  <2>2. accepted' = accepted /\ disturbed' = disturbed
    BY <1>9 DEF ListEntries
  <2>3. Held(q)
    BY <2>1, <2>2, Growth DEF Entries
  <2> QED
    BY <1>1, <1>3, <2>1, <2>2, <2>3
<1>10. ASSUME NEW q \in Requests, ListReports(q)
       PROVE  ReasonsHeld'
  <2>1. /\ request[q].step = "listReports"
        /\ request'[q].key = request[q].key /\ request'[q].reasons = request[q].reasons
        /\ \A o \in Requests \ {q} : request'[o] = request[o]
    BY <1>10, HandlerAfter DEF ListReports
  <2>2. accepted' = accepted /\ disturbed' = disturbed
    BY <1>10 DEF ListReports
  <2>3. Held(q)
    BY <1>2, <2>1, <2>2, StepNames DEF ReasonsHeld, Entries
  <2> QED
    BY <1>1, <1>3, <2>1, <2>2, <2>3
<1>11. CASE UNCHANGED <<accepted, request, disturbed>>
  BY <1>1, <1>3, <1>11
<1> QED
  BY <1>5, <1>6, <1>7, <1>8, <1>9, <1>10, <1>11 DEF Next, RequestStep, SaveReport, vars

LEMMA BatchesStep ==
    ASSUME TypeOK, BatchesHeld, [Next]_vars
    PROVE  BatchesHeld'
<1>1. ASSUME NEW q \in Requests, \A o \in Requests \ {q} : request'[o] = request[o],
             request'[q].step = "writeScores" => \A r \in request'[q].batch : KeyOf(r) = request'[q].key
      PROVE  BatchesHeld'
  BY <1>1 DEF BatchesHeld
<1>2. ASSUME NEW q \in Requests, NEW user \in Users, NEW r \in Reports, NEW f \in Fingerprints,
             NEW change \in {"add", "remove"}, StartChange(q, user, r, f, change)
      PROVE  BatchesHeld'
  BY <1>1, <1>2, HandlerAfter
<1>3. ASSUME NEW q \in Requests, NEW user \in Users, NEW r \in Reports, StartDelete(q, user, r)
      PROVE  BatchesHeld'
  BY <1>1, <1>3, HandlerAfter
<1>4. ASSUME NEW q \in Requests, RequestStep(q) \/ Abort(q), ~ListReports(q)
      PROVE  BatchesHeld'
  BY <1>1, <1>4, HandlerAfter DEF RequestStep
<1>5. ASSUME NEW q \in Requests, ListReports(q) PROVE BatchesHeld'
  BY <1>1, <1>5, HandlerAfter DEF ReportsFor
<1>6. CASE request' = request
  BY <1>6 DEF BatchesHeld
<1> QED
  BY <1>2, <1>3, <1>4, <1>5, <1>6 DEF Next, SaveReport, vars

LEMMA TableStep ==
    ASSUME TypeOK, HandlersAimed, accepted \subseteq ever, AcceptedWasTheirs, [Next]_vars
    PROVE  accepted' \subseteq ever' /\ AcceptedWasTheirs'
<1> DEFINE Theirs(e) == \E r \in stored' \cup deleted' :
                            KeyOf(r) = <<e[1], e[2]>> /\ e[3] \in FindingsOf[r]
<1>1. \A e \in accepted : Theirs(e)
  BY Growth DEF AcceptedWasTheirs
<1>2. ASSUME NEW q \in Requests, ChangeTable(q)
      PROVE  accepted' \subseteq ever' /\ \A e \in accepted' : Theirs(e)
  <2>1. accepted' \subseteq ever' /\ accepted' \subseteq accepted \cup {Entry(q)}
    BY <1>2 DEF ChangeTable
  <2>2. request[q].key = <<request[q].key[1], request[q].key[2]>>
    BY <1>2, StepNames DEF ChangeTable, HandlersAimed, Keys
  <2>3. Theirs(Entry(q))
    BY <1>2, <2>2, Growth DEF ChangeTable, HandlersAimed, Entry
  <2> QED
    BY <1>1, <2>1, <2>3
<1>3. CASE accepted' = accepted
  BY <1>1, <1>3, Growth DEF AcceptedWasTheirs
<1> QED
  BY <1>2, <1>3 DEF Next, RequestStep, SaveReport, StartChange, ListEntries, ListReports,
     WriteScores, StartDelete, DeleteRow, Abort, vars, AcceptedWasTheirs

LEMMA CacheStep ==
    ASSUME TypeOK, HandlersAimed, ReasonsHeld, BatchesHeld, CacheIsScoped, [Next]_vars
    PROVE  CacheIsScoped'
<1> DEFINE Scoped(r, f) == <<OwnerOf[r], RepositoryOf[r], f>> \in ever'
<1>1. \A r \in Reports : \A f \in cached[r] : Scoped(r, f)
  BY Growth DEF CacheIsScoped, Listed
<1>2. ASSUME \A r \in Reports : cached'[r] \in {cached[r], {}} PROVE CacheIsScoped'
  BY <1>1, <1>2 DEF CacheIsScoped, Listed
<1>3. ASSUME NEW q \in Requests, WriteScores(q) PROVE CacheIsScoped'
  <2>1. ASSUME NEW r \in request[q].batch, NEW f \in Marked(r, request[q].reasons)
        PROVE  Scoped(r, f)
    <3>1. KeyOf(r) = request[q].key /\ f \in request[q].reasons
      BY <1>3, <2>1 DEF WriteScores, BatchesHeld, Marked
    <3>2. <<request[q].key[1], request[q].key[2], f>> \in ever
      BY <1>3, <3>1, StepNames DEF WriteScores, ReasonsHeld
    <3> QED
      BY <3>1, <3>2, Growth DEF KeyOf
  <2>2. \A r \in Reports :
           \/ cached'[r] = cached[r]
           \/ r \in request[q].batch /\ cached'[r] = Marked(r, request[q].reasons)
    <3>1. cached' = [r \in Reports |-> IF r \in request[q].batch \cap stored
                                       THEN Marked(r, request[q].reasons) ELSE cached[r]]
      BY <1>3 DEF WriteScores
    <3> QED
      BY <3>1, Zenon
  <2> QED
    BY <1>1, <2>1, <2>2 DEF CacheIsScoped, Listed
<1>4. ASSUME NEW r \in Reports, SaveReport(r) PROVE CacheIsScoped'
  BY <1>2, <1>4 DEF SaveReport, TypeOK
<1>5. ASSUME NEW q \in Requests, DeleteRow(q) PROVE CacheIsScoped'
  BY <1>2, <1>5 DEF DeleteRow, TypeOK
<1>6. CASE cached' = cached
  BY <1>2, <1>6
<1> QED
  BY <1>3, <1>4, <1>5, <1>6 DEF Next, RequestStep, StartChange, ChangeTable, ListEntries,
     ListReports, StartDelete, Abort, vars

LEMMA DeletedStep ==
    ASSUME TypeOK, HandlersAimed, DeletedStaysDeleted, [Next]_vars
    PROVE  DeletedStaysDeleted'
<1>1. ASSUME NEW r \in Reports, SaveReport(r) PROVE DeletedStaysDeleted'
  BY <1>1 DEF SaveReport, TypeOK, DeletedStaysDeleted, Listed
<1>2. ASSUME NEW q \in Requests, DeleteRow(q) PROVE DeletedStaysDeleted'
  <2>1. request[q].target \in Reports
    BY <1>2 DEF DeleteRow, HandlersAimed
  <2> QED
    BY <1>2, <2>1 DEF DeleteRow, TypeOK, DeletedStaysDeleted, Listed
<1>3. ASSUME NEW q \in Requests, WriteScores(q) PROVE DeletedStaysDeleted'
  BY <1>3 DEF WriteScores, DeletedStaysDeleted, Listed
<1>4. CASE UNCHANGED <<stored, deleted, cached>>
  BY <1>4 DEF DeletedStaysDeleted, Listed
<1> QED
  BY <1>1, <1>2, <1>3, <1>4 DEF Next, RequestStep, StartChange, ChangeTable, ListEntries,
     ListReports, StartDelete, Abort, vars

-----------------------------------------------------------------------------
LEMMA Invariance == Spec => []Inv
<1>1. Init => Inv
  <2> SUFFICES ASSUME Init PROVE Inv
    OBVIOUS
  <2>1. TypeOK
    BY HandlerRecords DEF Init, TypeOK
  <2>2. \A q \in Requests : request[q].step = "idle"
    BY DEF Init, IdleHandler
  <2>3. HandlersAimed /\ ReasonsHeld /\ BatchesHeld
    BY <2>2, StepNames DEF HandlersAimed, ReasonsHeld, BatchesHeld
  <2>4. accepted \subseteq ever /\ AcceptedWasTheirs /\ CacheIsScoped /\ DeletedStaysDeleted
    BY DEF Init, AcceptedWasTheirs, CacheIsScoped, DeletedStaysDeleted, Listed
  <2> QED
    BY <2>1, <2>3, <2>4 DEF Inv
<1>2. Inv /\ [Next]_vars => Inv'
  BY TypeStep, AimedStep, ReasonsStep, BatchesStep, TableStep, CacheStep, DeletedStep DEF Inv
<1> QED
  BY <1>1, <1>2, PTL DEF Spec

(* Nothing is accepted but what a report of the owner's own contained      *)
(* (routers/reports.py, _owned_finding).                                   *)
THEOREM AcceptancesAreTheirs == Spec => []AcceptedWasTheirs
<1>1. Inv => AcceptedWasTheirs
  BY DEF Inv
<1> QED
  BY <1>1, Invariance, PTL

(* No cached score leaves out what its owner never accepted for that       *)
(* repository, whatever refreshes interleave (_refresh_effective_scores).  *)
THEOREM CachesAreScoped == Spec => []CacheIsScoped
<1>1. Inv => CacheIsScoped
  BY DEF Inv
<1> QED
  BY <1>1, Invariance, PTL

(* A deleted report stays deleted, and a report that is not there has no   *)
(* cached score (store.py, delete and set_effective_scores).               *)
THEOREM DeletionIsFinal == Spec => []DeletedStaysDeleted
<1>1. Inv => DeletedStaysDeleted
  BY DEF Inv
<1> QED
  BY <1>1, Invariance, PTL

(* A refresh during which nobody changed the same account's table leaves   *)
(* listing and page of each report it covers with the same score.          *)
THEOREM UndisturbedRefreshSettles == Spec => RefreshSettles
<1>1. Inv /\ [Next]_vars =>
        \A q \in Requests :
            (/\ request[q].step = "writeScores" /\ q \notin disturbed /\ WriteScores(q))
               => \A r \in request[q].batch \cap stored' : Listed(r)' = Page(r)'
  <2> SUFFICES ASSUME Inv, NEW q \in Requests, request[q].step = "writeScores",
                      q \notin disturbed, WriteScores(q),
                      NEW r \in request[q].batch \cap stored'
               PROVE  Listed(r)' = Page(r)'
    OBVIOUS
  <2>1. r \in stored /\ r \in Reports
    BY DEF WriteScores, Inv, TypeOK
  <2>2. cached'[r] = Marked(r, request[q].reasons)
    BY <2>1 DEF WriteScores
  <2>3. KeyOf(r) = request[q].key /\ request[q].key \in Keys
    BY StepNames DEF Inv, BatchesHeld, HandlersAimed
  <2>4. request[q].reasons = Entries(KeyOf(r))
    BY <2>3, StepNames DEF Inv, ReasonsHeld
  <2>5. accepted' = accepted
    BY DEF WriteScores
  <2> QED
    BY <2>2, <2>3, <2>4, <2>5 DEF Listed, Page, Entries, Marked, KeyOf
<1> QED
  BY <1>1, Invariance, PTL DEF Spec, RefreshSettles
=============================================================================
