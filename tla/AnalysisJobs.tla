---------------------------- MODULE AnalysisJobs ----------------------------
(***************************************************************************)
(* One web process of the Vantage API running analysis jobs: the POST      *)
(* handlers and the SSE endpoint of app/routers/analyze.py, the JobManager, *)
(* the Job event log and the AnalysisRunner of app/analysis/runner.py, and  *)
(* the durable outcome table analysis_jobs of app/jobs.py.                 *)
(*                                                                         *)
(* Every await is a point where another task may run, so each action is    *)
(* the code between two awaits.  A process restart loses everything held   *)
(* in memory and keeps what was committed to the database.                 *)
(***************************************************************************)
EXTENDS Naturals, Sequences, FiniteSets

CONSTANTS
    Jobs,         \* job ids; jobs.create draws a fresh one for every POST
    Clients,      \* browsers that follow a job over Server-Sent Events
    NoJob,        \* what an idle client follows
    Kinds,        \* what is submitted: repository URLs, uploaded archives
    Rules,        \* how many rules apply to the snapshot: one event each
    HasDatabase,  \* FALSE: no DATABASE_URL, everything lives in the process
    Faults        \* the environment faults this instance allows

(* "restart": the process may stop at any point and start again.           *)
(* "bookkeeping": a write or read of analysis_jobs may fail; app/jobs.py    *)
(*   swallows the error.  The write may have been committed all the same.  *)
(* "storage": saving the report may raise, committed or not.               *)
(* "slow": a run may still be going when its 900 seconds are over.         *)
(* "workspace": mkdtemp may raise, the disk being full or /tmp read-only.  *)
FaultKinds == {"restart", "bookkeeping", "storage", "slow", "workspace"}

ASSUME NoJobAssumption    == NoJob \notin Jobs
AllKinds == {"repository", "upload"}

ASSUME KindsAssumption    == Kinds \subseteq AllKinds
ASSUME RulesAssumption    == Rules \in Nat
ASSUME DatabaseAssumption == HasDatabase \in BOOLEAN
ASSUME FaultsAssumption   == Faults \subseteq FaultKinds

VARIABLES
    kind,      \* what was submitted
    pc,        \* where the request or the runner task of the job stands
    ruleIndex, \* how many rule events the engine has emitted
    events,    \* Job.events, by stage
    finished,  \* Job.finished
    reportId,  \* Job.report_id is set (a job's report is named by the job)
    managed,   \* the keys of JobManager._jobs
    aged,      \* jobs created more than JOB_RETENTION_SECONDS ago
    accepted,  \* jobs whose id was returned to whoever submitted them
    row,       \* JobRow.status, or "none" when there is no row
    expired,   \* jobs whose row is older than JOB_RECORD_RETENTION
    reports,   \* jobs whose report was saved; its owner may delete it later
    client,    \* what each client has been sent on its current stream
    told       \* history: every verdict any client was sent about the job

jobVars    == <<kind, pc, ruleIndex, events, finished, reportId>>
memoryVars == <<managed, aged>>
storeVars  == <<row, expired, reports>>
vars == <<jobVars, memoryVars, accepted, storeVars, client, told>>

RunStages == {"fetching", "extracting", "indexing", "analysing", "scoring",
              "enriching", "persisting"}
Terminal == {"done", "failed"}
Stages == RunStages \cup Terminal
RowStatus == {"none", "running", "succeeded", "failed"}

\* The value of pc is the next thing the job's code does.
Posting == {"recordStart", "sweepRows"}
Settling == {"saveReport", "storeSource", "recordSuccess", "emitDone",
             "recordFailure", "emitFailed", "close"}
Running == RunStages \cup Settling

\* How a runner task stops: its log is closed, the process stopped, or it died
\* of an error that nothing catches.
Over == {"ended", "lost", "died"}
Steps == {"none"} \cup Over \cup Posting \cup Running

(* "none": no terminal event yet.  "interrupted" and "unknown" are the two *)
(* failures only the recovery stream reports.                              *)
Verdicts == {"none", "done", "failed", "interrupted", "unknown"}
Modes == {"idle", "reading", "waiting", "recovering", "closed"}

NewStream(mode, job) == [mode |-> mode, job |-> job, cursor |-> 0, got |-> <<>>,
                         verdict |-> "none"]
Idle == NewStream("idle", NoJob)

Streams == [mode : Modes, job : Jobs \cup {NoJob}, cursor : Nat,
            got : Seq(Stages), verdict : Verdicts]

TypeOK ==
    /\ kind \in [Jobs -> AllKinds]
    /\ pc \in [Jobs -> Steps]
    /\ ruleIndex \in [Jobs -> 0..Rules]
    /\ events \in [Jobs -> Seq(Stages)]
    /\ finished \in [Jobs -> BOOLEAN]
    /\ reportId \in [Jobs -> BOOLEAN]
    /\ managed \subseteq Jobs
    /\ aged \subseteq Jobs
    /\ accepted \subseteq Jobs
    /\ row \in [Jobs -> RowStatus]
    /\ expired \subseteq Jobs
    /\ reports \subseteq Jobs
    /\ client \in [Clients -> Streams]
    /\ told \in [Jobs -> SUBSET (Verdicts \ {"none"})]

Init ==
    /\ kind = [j \in Jobs |-> "repository"]
    /\ pc = [j \in Jobs |-> "none"]
    /\ ruleIndex = [j \in Jobs |-> 0]
    /\ events = [j \in Jobs |-> <<>>]
    /\ finished = [j \in Jobs |-> FALSE]
    /\ reportId = [j \in Jobs |-> FALSE]
    /\ managed = {}
    /\ aged = {}
    /\ accepted = {}
    /\ row = [j \in Jobs |-> "none"]
    /\ expired = {}
    /\ reports = {}
    /\ client = [c \in Clients |-> Idle]
    /\ told = [j \in Jobs |-> {}]

-----------------------------------------------------------------------------
(* Submitting an analysis: analyse_repository and analyse_upload.          *)

\* JobManager.create: sweep the jobs past retention, whatever they are doing,
\* then register the new one.
JobManagerCreate(j) ==
    managed' = (managed \ aged) \cup {j}

\* The POST arrives; the handler suspends in record_started.
Submit(j) ==
    /\ pc[j] = "none"
    /\ \E k \in Kinds : kind' = [kind EXCEPT ![j] = k]
    /\ JobManagerCreate(j)
    /\ pc' = [pc EXCEPT ![j] = "recordStart"]
    /\ UNCHANGED <<ruleIndex, events, finished, reportId, aged, accepted,
                   storeVars, client, told>>

\* run_upload has nothing to fetch.
FirstStage(k) == IF k = "repository" THEN "fetching" ELSE "extracting"

\* record_started has returned: create the task and answer with the job id.
StartTask(j) ==
    /\ pc' = [pc EXCEPT ![j] = FirstStage(kind[j])]
    /\ accepted' = accepted \cup {j}

\* Faulty variant: the task starts without waiting for the insert.
RecordStartedInBackground(j) ==
    /\ pc[j] = "recordStart"
    /\ UNCHANGED row
    /\ StartTask(j)
    /\ UNCHANGED <<kind, ruleIndex, events, finished, reportId, memoryVars,
                   expired, reports, client, told>>

\* record_started: insert the row; without a database there is nothing to do,
\* and an error is swallowed with the sweep skipped.
RecordStarted(j) ==
    /\ pc[j] = "recordStart"
    /\ \/ /\ HasDatabase
          /\ row' = [row EXCEPT ![j] = "running"]
          /\ pc' = [pc EXCEPT ![j] = "sweepRows"]
          /\ UNCHANGED accepted
       \/ /\ HasDatabase
          /\ "bookkeeping" \in Faults
          /\ row' \in {row, [row EXCEPT ![j] = "running"]}
          /\ StartTask(j)
       \/ /\ ~HasDatabase
          /\ UNCHANGED row
          /\ StartTask(j)
    /\ UNCHANGED <<kind, ruleIndex, events, finished, reportId, memoryVars,
                   expired, reports, client, told>>

\* Faulty variant: sweep the rows of finished jobs instead of the old rows.
SweepFinishedRows(j) ==
    /\ pc[j] = "sweepRows"
    /\ row' = [i \in Jobs |-> IF row[i] \in {"succeeded", "failed"} THEN "none"
                              ELSE row[i]]
    /\ StartTask(j)
    /\ UNCHANGED <<kind, ruleIndex, events, finished, reportId, memoryVars,
                   expired, reports, client, told>>

\* _sweep: delete every row past retention, whatever its status.
SweepRows(j) ==
    /\ pc[j] = "sweepRows"
    /\ \/ row' = [i \in Jobs |-> IF i \in expired THEN "none" ELSE row[i]]
       \/ "bookkeeping" \in Faults /\ UNCHANGED row
    /\ StartTask(j)
    /\ UNCHANGED <<kind, ruleIndex, events, finished, reportId, memoryVars,
                   expired, reports, client, told>>

-----------------------------------------------------------------------------
(* The runner task: run_repository or run_upload, then _analyse.           *)

\* Job.emit: append and notify.
Emit(j, stage) == events' = [events EXCEPT ![j] = Append(@, stage)]

\* What follows the emission of a stage in the path of that kind of job.
NextStage(j) ==
    CASE pc[j] = "fetching"   -> "extracting"
      [] pc[j] = "extracting" -> "indexing"
      [] pc[j] = "indexing"   -> IF Rules = 0 THEN "scoring" ELSE "analysing"
      [] pc[j] = "analysing"  -> IF ruleIndex[j] + 1 < Rules
                                 THEN "analysing" ELSE "scoring"
      [] pc[j] = "scoring"    -> IF kind[j] = "repository"
                                 THEN "enriching" ELSE "persisting"
      [] pc[j] = "enriching"  -> "persisting"
      [] pc[j] = "persisting" -> "saveReport"

\* Announce the next stage and begin its work.
EmitStage(j) ==
    /\ pc[j] \in RunStages
    /\ Emit(j, pc[j])
    /\ ruleIndex' = [ruleIndex EXCEPT
                        ![j] = IF pc[j] = "analysing" THEN @ + 1 ELSE @]
    /\ pc' = [pc EXCEPT ![j] = NextStage(j)]
    /\ UNCHANGED <<kind, finished, reportId, memoryVars, accepted, storeVars,
                   client, told>>

\* run_repository makes its workspace before its try: an error there ends the
\* task with nothing recorded, nothing emitted and the log open.  (An upload's
\* workspace is made by the request, before there is a job.)
NoWorkspace(j) ==
    /\ "workspace" \in Faults
    /\ kind[j] = "repository"
    /\ pc[j] = "fetching"
    /\ pc' = [pc EXCEPT ![j] = "died"]
    /\ UNCHANGED <<kind, ruleIndex, events, finished, reportId, memoryVars,
                   accepted, storeVars, client, told>>

\* Inside the try, any error up to the save (a bad URL, the fetch, the archive,
\* the analysis timeout, scoring) leaves through one of the two except clauses.
WorkFails(j) ==
    /\ pc[j] \in RunStages
    /\ pc' = [pc EXCEPT ![j] = "recordFailure"]
    /\ UNCHANGED <<kind, ruleIndex, events, finished, reportId, memoryVars,
                   accepted, storeVars, client, told>>

\* Faulty variant: an error of the save is swallowed like the enrichment's.
SaveReportSwallowsErrors(j) ==
    /\ pc[j] = "saveReport"
    /\ reports' \in {reports, reports \cup {j}}
    /\ pc' = [pc EXCEPT ![j] = "storeSource"]
    /\ UNCHANGED <<kind, ruleIndex, events, finished, reportId, memoryVars,
                   accepted, row, expired, client, told>>

\* ReportStore.save; an error may be raised with the report committed or not.
SaveReport(j) ==
    /\ pc[j] = "saveReport"
    /\ \/ /\ reports' = reports \cup {j}
          /\ pc' = [pc EXCEPT ![j] = "storeSource"]
       \/ /\ "storage" \in Faults
          /\ reports' \in {reports, reports \cup {j}}
          /\ pc' = [pc EXCEPT ![j] = "recordFailure"]
    /\ UNCHANGED <<kind, ruleIndex, events, finished, reportId, memoryVars,
                   accepted, row, expired, client, told>>

\* Faulty variant: job.report_id is never assigned.
StoreSourceNoReportId(j) ==
    /\ pc[j] = "storeSource"
    /\ pc' = [pc EXCEPT ![j] = "recordSuccess"]
    /\ UNCHANGED <<kind, ruleIndex, events, finished, reportId, memoryVars, accepted,
                   row, expired, reports, client, told>>

\* Faulty variant: the event is emitted and the outcome is not recorded first.
StoreSourceThenAnnounce(j) ==
    /\ pc[j] = "storeSource"
    /\ reportId' = [reportId EXCEPT ![j] = TRUE]
    /\ pc' = [pc EXCEPT ![j] = "emitDone"]
    /\ UNCHANGED <<kind, ruleIndex, events, finished, memoryVars, accepted,
                   row, expired, reports, client, told>>

\* _store_source keeps an upload's files and swallows every error; job.report_id
\* is assigned before the next await.
StoreSource(j) ==
    /\ pc[j] = "storeSource"
    /\ reportId' = [reportId EXCEPT ![j] = TRUE]
    /\ pc' = [pc EXCEPT ![j] = "recordSuccess"]
    /\ UNCHANGED <<kind, ruleIndex, events, finished, memoryVars, accepted,
                   row, expired, reports, client, told>>

\* jobs._update: UPDATE ... WHERE id, which touches no row when there is none.
UpdateRow(j, status) ==
    \/ /\ HasDatabase
       /\ row' = [row EXCEPT ![j] = IF @ = "none" THEN @ ELSE status]
    \/ /\ ~HasDatabase \/ "bookkeeping" \in Faults
       /\ UNCHANGED row

RecordSucceeded(j) ==
    /\ pc[j] = "recordSuccess"
    /\ UpdateRow(j, "succeeded")
    /\ pc' = [pc EXCEPT ![j] = "emitDone"]
    /\ UNCHANGED <<kind, ruleIndex, events, finished, reportId, memoryVars,
                   accepted, expired, reports, client, told>>

EmitDone(j) ==
    /\ pc[j] = "emitDone"
    /\ Emit(j, "done")
    /\ pc' = [pc EXCEPT ![j] = "close"]
    /\ UNCHANGED <<kind, ruleIndex, finished, reportId, memoryVars, accepted,
                   storeVars, client, told>>

\* Faulty variant: a failure is only recorded, and reported, when the job's row
\* was written.
RecordFailedNeedsRow(j) ==
    /\ pc[j] = "recordFailure"
    /\ row[j] # "none"
    /\ UpdateRow(j, "failed")
    /\ pc' = [pc EXCEPT ![j] = "emitFailed"]
    /\ UNCHANGED <<kind, ruleIndex, events, finished, reportId, memoryVars,
                   accepted, expired, reports, client, told>>

\* _fail, first half.
RecordFailed(j) ==
    /\ pc[j] = "recordFailure"
    /\ UpdateRow(j, "failed")
    /\ pc' = [pc EXCEPT ![j] = "emitFailed"]
    /\ UNCHANGED <<kind, ruleIndex, events, finished, reportId, memoryVars,
                   accepted, expired, reports, client, told>>

\* Faulty variant: a failed job is closed without a word.
EmitFailedSilently(j) ==
    /\ pc[j] = "emitFailed"
    /\ pc' = [pc EXCEPT ![j] = "close"]
    /\ UNCHANGED <<kind, ruleIndex, events, finished, reportId, memoryVars, accepted,
                   storeVars, client, told>>

\* _fail, second half.
EmitFailed(j) ==
    /\ pc[j] = "emitFailed"
    /\ Emit(j, "failed")
    /\ pc' = [pc EXCEPT ![j] = "close"]
    /\ UNCHANGED <<kind, ruleIndex, finished, reportId, memoryVars, accepted,
                   storeVars, client, told>>

\* Faulty variant: close notifies and forgets to set finished.
CloseForgetsFinished(j) ==
    /\ pc[j] = "close"
    /\ pc' = [pc EXCEPT ![j] = "ended"]
    /\ UNCHANGED <<kind, ruleIndex, events, finished, reportId, memoryVars, accepted,
                   storeVars, client, told>>

\* Job.close.
Close(j) ==
    /\ pc[j] = "close"
    /\ finished' = [finished EXCEPT ![j] = TRUE]
    /\ pc' = [pc EXCEPT ![j] = "ended"]
    /\ UNCHANGED <<kind, ruleIndex, events, reportId, memoryVars, accepted,
                   storeVars, client, told>>

RequestStep(j) == RecordStarted(j) \/ SweepRows(j)
RunnerStep(j) ==
    \/ NoWorkspace(j) \/ EmitStage(j) \/ WorkFails(j)
    \/ SaveReport(j) \/ StoreSource(j) \/ RecordSucceeded(j)
    \/ EmitDone(j) \/ RecordFailed(j) \/ EmitFailed(j) \/ Close(j)

-----------------------------------------------------------------------------
(* Following a job: stream_events.                                         *)

Log(c) == events[client[c].job]

\* GET /{job_id}/events, by someone who holds the id.
Subscribe(c, j) ==
    /\ client[c].mode \in {"idle", "closed"}
    /\ j \in accepted
    /\ client' = [client EXCEPT ![c] =
                    NewStream(IF j \in managed THEN "reading" ELSE "recovering", j)]
    /\ UNCHANGED <<jobVars, memoryVars, accepted, storeVars, told>>

\* Record that the client was sent a terminal event.
Tell(j, v) == told' = [told EXCEPT ![j] = @ \cup {v}]

\* generate(): send the event under the cursor and move the cursor.
SendEvent(c) ==
    /\ client[c].mode = "reading"
    /\ client[c].cursor < Len(Log(c))
    /\ LET event == Log(c)[client[c].cursor + 1]
       IN  /\ client' = [client EXCEPT
                            ![c].cursor = @ + 1,
                            ![c].got = Append(@, event),
                            ![c].verdict = IF event \in Terminal THEN event ELSE @]
           /\ IF event \in Terminal THEN Tell(client[c].job, event)
              ELSE UNCHANGED told
    /\ UNCHANGED <<jobVars, memoryVars, accepted, storeVars>>

\* Faulty variant: finished is looked at before the log is drained.
EndStreamUndrained(c) ==
    /\ client[c].mode = "reading"
    /\ finished[client[c].job]
    /\ client' = [client EXCEPT ![c].mode = "closed"]
    /\ UNCHANGED <<jobVars, memoryVars, accepted, storeVars, told>>

\* generate(): everything was sent and the job is over.
EndStream(c) ==
    /\ client[c].mode = "reading"
    /\ client[c].cursor >= Len(Log(c))
    /\ finished[client[c].job]
    /\ client' = [client EXCEPT ![c].mode = "closed"]
    /\ UNCHANGED <<jobVars, memoryVars, accepted, storeVars, told>>

\* generate(): everything was sent, the job goes on; wait on the condition.
AwaitEvent(c) ==
    /\ client[c].mode = "reading"
    /\ client[c].cursor >= Len(Log(c))
    /\ ~finished[client[c].job]
    /\ client' = [client EXCEPT ![c].mode = "waiting"]
    /\ UNCHANGED <<jobVars, memoryVars, accepted, storeVars, told>>

\* wait_for_event_after returns: its predicate holds, or 20 seconds passed and
\* a keep-alive comment was sent.  Both lead back to the top of the loop.
Awaited(c) == Len(Log(c)) > client[c].cursor \/ finished[client[c].job]

ResumeReading(c) ==
    /\ client[c].mode = "waiting"
    /\ client' = [client EXCEPT ![c].mode = "reading"]
    /\ UNCHANGED <<jobVars, memoryVars, accepted, storeVars, told>>

Wake(c) == ResumeReading(c) /\ Awaited(c)
KeepAlive(c) == ResumeReading(c) /\ ~Awaited(c)

\* Faulty variant: a row still marked running is reported as a failed run.
RecoveryVerdictTwoWays(status) ==
    CASE status = "none"      -> "unknown"
      [] status = "succeeded" -> "done"
      [] OTHER                -> "failed"

\* What recovered() answers from the row.  A read that fails counts as no row.
RecoveryVerdict(status) ==
    CASE status = "none"      -> "unknown"
      [] status = "succeeded" -> "done"
      [] status = "failed"    -> "failed"
      [] OTHER                -> "interrupted"

Frame(verdict) == IF verdict = "done" THEN "done" ELSE "failed"

\* recovered(): read the outcome row, send the one frame it calls for, end.
Recover(c) ==
    /\ client[c].mode = "recovering"
    /\ \E status \in {row[client[c].job]} \cup
                     (IF "bookkeeping" \in Faults THEN {"none"} ELSE {}) :
          LET verdict == RecoveryVerdict(status)
          IN  /\ client' = [client EXCEPT ![c].mode = "closed",
                                          ![c].got = Append(@, Frame(verdict)),
                                          ![c].verdict = verdict]
              /\ Tell(client[c].job, verdict)
    /\ UNCHANGED <<jobVars, memoryVars, accepted, storeVars>>

\* The client goes away before the stream is over.
Disconnect(c) ==
    /\ client[c].mode \in {"reading", "waiting", "recovering"}
    /\ client' = [client EXCEPT ![c] = Idle]
    /\ UNCHANGED <<jobVars, memoryVars, accepted, storeVars, told>>

StreamStep(c) == SendEvent(c) \/ EndStream(c) \/ AwaitEvent(c) \/ Wake(c) \/ Recover(c)

\* GET /{job_id}, the polling fallback: it changes nothing.
JobStatus(j) ==
    IF j \notin managed THEN [status |-> "unknown", report |-> FALSE]
    ELSE [status |-> IF finished[j] THEN "finished" ELSE "running",
          report |-> reportId[j]]

-----------------------------------------------------------------------------
(* Time and restarts.                                                      *)

\* 900 seconds pass since the job was created.
Age(j) ==
    /\ j \in managed \ aged
    /\ pc[j] \in Over \/ ("slow" \in Faults /\ pc[j] \in Running)
    /\ aged' = aged \cup {j}
    /\ UNCHANGED <<jobVars, managed, accepted, storeVars, client, told>>

Empty(c) == client[c].mode \in {"idle", "closed"}

\* Two days pass since the row was written: by then the job is over, if it is
\* still registered its 900 seconds are long past, and no request that was open
\* before is still open, nor any stream but one kept alive for a job that died.
Expire(j) ==
    /\ row[j] # "none"
    /\ j \notin expired
    /\ pc[j] \in Over
    /\ j \in managed => j \in aged
    /\ \A i \in Jobs : pc[i] \notin Posting
    /\ \A c \in Clients : client[c].job = j =>
          Empty(c) \/ (pc[j] = "died" /\ client[c].mode # "recovering")
    /\ expired' = expired \cup {j}
    /\ UNCHANGED <<jobVars, memoryVars, accepted, row, reports, client, told>>

\* The process stops and a new one starts.  Tasks, event logs and open streams
\* are gone; so are reports when they were in memory only.
Restart ==
    /\ "restart" \in Faults
    /\ pc' = [j \in Jobs |-> IF pc[j] = "none" THEN "none" ELSE "lost"]
    /\ events' = [j \in Jobs |-> <<>>]
    /\ finished' = [j \in Jobs |-> FALSE]
    /\ reportId' = [j \in Jobs |-> FALSE]
    /\ ruleIndex' = [j \in Jobs |-> 0]
    /\ managed' = {}
    /\ aged' = {}
    /\ client' = [c \in Clients |-> IF Empty(c) THEN client[c] ELSE Idle]
    /\ reports' = IF HasDatabase THEN reports ELSE {}
    /\ UNCHANGED <<kind, accepted, row, expired, told>>

Next ==
    \/ \E j \in Jobs : Submit(j) \/ RequestStep(j) \/ RunnerStep(j)
                       \/ Age(j) \/ Expire(j)
    \/ \E c \in Clients : \/ \E j \in Jobs : Subscribe(c, j)
                          \/ StreamStep(c) \/ KeepAlive(c) \/ Disconnect(c)
    \/ Restart

(* Every await in a request, in a runner and in a stream returns or raises, *)
(* and the event loop runs every ready task: weak fairness per task.       *)
(* Nobody is obliged to submit, to subscribe or to leave, and time and     *)
(* restarts are not fair.                                                  *)
Fairness ==
    /\ \A j \in Jobs : WF_vars(RequestStep(j)) /\ WF_vars(RunnerStep(j))
    /\ \A c \in Clients : WF_vars(StreamStep(c))

Spec == Init /\ [][Next]_vars
FairSpec == Spec /\ Fairness

-----------------------------------------------------------------------------
(* Properties.                                                             *)

\* A job's log holds at most one terminal event and nothing after it, and a
\* closed job has one: a subscriber that read the whole log of a finished job
\* has been told how it ended (Job.emit, Job.close, _analyse, _fail).
TerminalEndsLog ==
    \A j \in Jobs :
        /\ \A i \in 1..Len(events[j]) :
              events[j][i] \in Terminal => i = Len(events[j])
        /\ finished[j] => events[j] # <<>> /\ events[j][Len(events[j])] \in Terminal

\* generate() hands out the log in order, nothing twice and nothing missing,
\* however emission, waiting, keep-alives and reconnects interleave; a stream
\* that ended by itself ended with the terminal event, and with only one.
StreamIsFaithful ==
    \A c \in Clients :
        /\ client[c].mode \in {"reading", "waiting"} =>
              client[c].got = SubSeq(Log(c), 1, client[c].cursor)
        /\ client[c].mode = "closed" =>
              \A i \in 1..Len(client[c].got) :
                  client[c].got[i] \in Terminal <=> i = Len(client[c].got)

\* Nobody is sent a "done" with a report id that was never saved, live or after
\* a restart, even when bookkeeping writes are lost.  Without a database a
\* restart legitimately loses the report with the process.
DoneMeansSaved ==
    \A j \in Jobs :
        /\ \A i \in 1..Len(events[j]) : events[j][i] = "done" => j \in reports
        /\ HasDatabase /\ "done" \in told[j] => j \in reports

\* The polling endpoint never says "finished" without the report id of a
\* successful run, nor with one for a failed run.
PollMatchesLog ==
    \A j \in managed :
        JobStatus(j).status = "finished" =>
            (JobStatus(j).report <=> events[j][Len(events[j])] = "done")

\* "Recorded before the event is emitted": with bookkeeping that works, the row
\* already says what any client reading the terminal event is about to be told.
OutcomeRecordedFirst ==
    (HasDatabase /\ "bookkeeping" \notin Faults) =>
        \A j \in Jobs : \A i \in 1..Len(events[j]) :
            /\ events[j][i] = "done" => row[j] \in {"succeeded", "none"}
            /\ events[j][i] = "failed" => row[j] \in {"failed", "none"}
            /\ events[j][i] \in Terminal /\ row[j] = "none" => j \in expired

\* "a client that reconnects ... finds a job that exists": with bookkeeping that
\* works, an id that was handed out is unknown only once its record expired.
UnknownMeansExpired ==
    (HasDatabase /\ "bookkeeping" \notin Faults) =>
        \A j \in Jobs : "unknown" \in told[j] => j \in expired

\* A recorded outcome is never replaced by another one, nor made pending again;
\* it can only be swept once it is past retention.
RecordedOutcomeIsFinal ==
    [][\A j \in Jobs : row[j] \in {"succeeded", "failed"} =>
          row'[j] = row[j] \/ (row'[j] = "none" /\ j \in expired)]_vars

\* The recovery stream says of an interrupted job that "nothing was saved".
InterruptedMeansNothingSaved ==
    \A c \in Clients : client[c].verdict = "interrupted" => client[c].job \notin reports

\* The recovery stream reports a job as interrupted when "no process is running
\* it".
InterruptedMeansNotRunning ==
    \A c \in Clients : client[c].verdict = "interrupted" => pc[client[c].job] \notin Running

\* Nothing the runner's except clauses catch leaves a log open for ever: every job
\* ends with a closed log or with the process.  The one error they do not catch
\* is that there is no workspace for a repository, and then not a word is said.
DiedUnheard(j) == pc[j] = "died" /\ events[j] = <<>>

JobsEnd ==
    \A j \in Jobs : (pc[j] \in Posting \cup Running) ~>
                        (pc[j] \in {"ended", "lost"} \/ DiedUnheard(j))

\* Every stream ends: a follower is told how the job ended, or it left, or the
\* process it was connected to stopped; but for a job that died unheard.
StreamsEnd ==
    \A c \in Clients :
        ~Empty(c) ~> (Empty(c) \/ (client[c].job \in Jobs /\ DiedUnheard(client[c].job)))

\* The recovery stream speaks up rather than leave "a spinner that never
\* resolves"; of the live stream the same can be asked: every stream ends.
NoSpinnerForEver == \A c \in Clients : ~Empty(c) ~> Empty(c)

\* The one outcome of JobOutcome: as the database has it, or once the row was
\* swept, as the log in memory has it.
OutcomeOf(j) ==
    CASE pc[j] = "none"        -> "absent"
      [] row[j] = "succeeded"  -> "done"
      [] row[j] = "failed"     -> "failed"
      [] row[j] = "running"    -> IF pc[j] \in {"lost", "died"} THEN "lost"
                                     ELSE "pending"
      [] OTHER                 -> IF pc[j] = "recordStart" THEN "pending"
                                  ELSE IF pc[j] = "ended" THEN events[j][Len(events[j])]
                                  ELSE "forgotten"

Dropped == {j \in Jobs : row[j] = "none" /\ pc[j] \notin {"none", "recordStart"}}

Outcome == [j \in Jobs |-> OutcomeOf(j)]

Promise == INSTANCE JobOutcome WITH
    outcome <- Outcome, dropped <- Dropped, saved <- reports

\* With a database, working bookkeeping and no run that outlives retention, the
\* endpoints keep the promise of JobOutcome across restarts.
KeepsPromise == Promise!Spec

\* In particular no two clients are ever told different outcomes of one job.
VerdictsAgree == Promise!OneOutcome

=============================================================================
