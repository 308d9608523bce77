------------------------ MODULE AnalysisJobs_proofs ------------------------
(* Theorems about AnalysisJobs, for any jobs, clients, kinds and faults.   *)
EXTENDS AnalysisJobs, SequenceTheorems, TLAPS

USE DEF Over

-----------------------------------------------------------------------------
(* Type correctness.                                                       *)

(* Without these two TypeOK is not inductive: the rule loop stops at Rules,*)
(* and whoever reads a log reads the log of some job.                      *)
RuleInv ==
    \A j \in Jobs :
        /\ pc[j] = "analysing" => ruleIndex[j] < Rules
        /\ pc[j] \in {"none", "fetching", "extracting", "indexing"} \cup Posting =>
              ruleIndex[j] = 0
JobInv == \A c \in Clients : client[c].mode # "idle" => client[c].job \in Jobs

TypeInv == TypeOK /\ RuleInv /\ JobInv

LEMMA TypeInit == Init => TypeInv
<1> SUFFICES ASSUME Init PROVE TypeInv
  OBVIOUS
<1>1. \A j \in Jobs : events[j] \in Seq(Stages)
  BY DEF Init
<1>2. client \in [Clients -> Streams]
  BY DEF Init, Idle, NewStream, Streams, Modes, Verdicts
<1>3. ruleIndex \in [Jobs -> 0..Rules]
  BY RulesAssumption DEF Init
<1>4. QED
  BY <1>1, <1>2, <1>3 DEF Init, TypeInv, RuleInv, JobInv, Idle, NewStream, TypeOK, AllKinds, Steps, RowStatus

LEMMA TypeRequest ==
    ASSUME TypeInv, NEW j \in Jobs, Submit(j) \/ RequestStep(j)
    PROVE  TypeInv'
<1> USE DEF Posting, TypeInv, TypeOK, RuleInv, JobInv, memoryVars, storeVars
<1>1. CASE Submit(j)
  BY <1>1, KindsAssumption DEF Submit, JobManagerCreate, Steps
<1>2. CASE RecordStarted(j)
  BY <1>2 DEF RecordStarted, StartTask, FirstStage, Steps, Running, RunStages,
              RowStatus
<1>3. CASE SweepRows(j)
  BY <1>3 DEF SweepRows, StartTask, FirstStage, Steps, Running, RunStages, RowStatus
<1>4. QED
  BY <1>1, <1>2, <1>3 DEF RequestStep

LEMMA RuleStep ==
    ASSUME NEW f \in [Jobs -> 0..Rules], NEW j \in Jobs, NEW b \in BOOLEAN,
           b => f[j] < Rules
    PROVE  [f EXCEPT ![j] = IF b THEN @ + 1 ELSE @] \in [Jobs -> 0..Rules]
BY RulesAssumption

LEMMA TypeRunner ==
    ASSUME TypeInv, NEW j \in Jobs, RunnerStep(j)
    PROVE  TypeInv'
<1> USE DEF TypeInv, TypeOK, RuleInv, JobInv, memoryVars, storeVars
<1> USE RulesAssumption DEF Posting
<1>1. CASE EmitStage(j)
  <2>2. ruleIndex' \in [Jobs -> 0..Rules]
    BY <1>1, RuleStep DEF EmitStage
  <2>3. NextStage(j) \in Steps
    BY <1>1 DEF EmitStage, NextStage, Steps, Running, RunStages, Settling
  <2>4. pc' \in [Jobs -> Steps]
    BY <1>1, <2>3 DEF EmitStage
  <2>5. events' \in [Jobs -> Seq(Stages)]
    <3>1. pc[j] \in Stages
      BY <1>1 DEF EmitStage, Stages
    <3>2. QED
      BY <1>1, <3>1 DEF EmitStage, Emit
  <2>6. RuleInv'
    <3>1. NextStage(j) = "analysing" =>
              \/ pc[j] = "indexing" /\ Rules # 0
              \/ pc[j] = "analysing" /\ ruleIndex[j] + 1 < Rules
      BY <1>1 DEF EmitStage, NextStage, RunStages
    <3>2. NextStage(j) \in {"none", "fetching", "extracting", "indexing"} \cup Posting =>
              pc[j] \in {"fetching", "extracting"}
      BY <1>1 DEF EmitStage, NextStage, RunStages, Posting
    <3>3. QED
      BY <1>1, <2>2, <3>1, <3>2 DEF EmitStage
  <2>7. QED
    BY <1>1, <2>2, <2>4, <2>5, <2>6 DEF EmitStage
<1>2. CASE NoWorkspace(j) \/ WorkFails(j)
  BY <1>2 DEF NoWorkspace, WorkFails, Steps, Running, Settling
<1>3. CASE SaveReport(j)
  BY <1>3 DEF SaveReport, Steps, Running, Settling
<1>4. CASE StoreSource(j)
  BY <1>4 DEF StoreSource, Steps, Running, Settling
<1>5. CASE RecordSucceeded(j)
  BY <1>5 DEF RecordSucceeded, UpdateRow, Steps, Running, Settling, RowStatus
<1>6. CASE RecordFailed(j)
  BY <1>6 DEF RecordFailed, UpdateRow, Steps, Running, Settling, RowStatus
<1>7. CASE EmitDone(j)
  BY <1>7 DEF EmitDone, Emit, Steps, Running, Settling, Stages, Terminal
<1>8. CASE EmitFailed(j)
  BY <1>8 DEF EmitFailed, Emit, Steps, Running, Settling, Stages, Terminal
<1>9. CASE Close(j)
  BY <1>9 DEF Close, Steps
<1>10. QED
  BY <1>1, <1>2, <1>3, <1>4, <1>5, <1>6, <1>7, <1>8, <1>9 DEF RunnerStep

LEMMA TypeStream ==
    ASSUME TypeInv, NEW c \in Clients,
           \/ \E j \in Jobs : Subscribe(c, j)
           \/ StreamStep(c) \/ KeepAlive(c) \/ Disconnect(c)
    PROVE  TypeInv'
<1> USE DEF TypeInv, TypeOK, RuleInv, JobInv, jobVars, memoryVars, storeVars
<1>0. /\ client[c] \in Streams
      /\ client[c].mode \in Modes
      /\ client[c].job \in Jobs \cup {NoJob}
      /\ client[c].cursor \in Nat
      /\ client[c].got \in Seq(Stages)
      /\ client[c].verdict \in Verdicts
  BY DEF Streams
<1>1. CASE \E j \in Jobs : Subscribe(c, j)
  <2>1. PICK j \in Jobs : Subscribe(c, j)
    BY <1>1
  <2>2. PICK m \in {"reading", "recovering"} : client' = [client EXCEPT ![c] = NewStream(m, j)]
    BY <2>1 DEF Subscribe
  <2>3. NewStream(m, j) \in Streams /\ NewStream(m, j).job = j
    BY DEF NewStream, Streams, Modes, Verdicts
  <2>4. client' \in [Clients -> Streams] /\ JobInv'
    BY <2>2, <2>3
  <2>5. QED
    BY <2>1, <2>4 DEF Subscribe
<1>2. CASE SendEvent(c)
  <2> DEFINE event == Log(c)[client[c].cursor + 1]
  <2>1. client[c].job \in Jobs /\ client[c].mode = "reading"
    BY <1>2 DEF SendEvent
  <2>2. Log(c) \in Seq(Stages)
    BY <2>1 DEF Log
  <2>3. event \in Stages
    BY <1>0, <1>2, <2>2 DEF SendEvent
  <2>4. client' = [client EXCEPT ![c].cursor = @ + 1,
                                 ![c].got = Append(@, event),
                                 ![c].verdict = IF event \in Terminal THEN event ELSE @]
    BY <1>2 DEF SendEvent
  <2>5. client'[c].job = client[c].job /\ client'[c].mode = client[c].mode
    BY <1>0, <2>4 DEF Streams
  <2> HIDE DEF event
  <2>6. client'[c] \in Streams
    BY <1>0, <2>3, <2>4 DEF Streams, Verdicts, Terminal
  <2>7. told' \in [Jobs -> SUBSET (Verdicts \ {"none"})]
    <3>1. CASE event \in Terminal
      <4>1. told' = [told EXCEPT ![client[c].job] = @ \cup {event}]
        BY <1>2, <3>1 DEF SendEvent, Tell, event
      <4>2. event \in Verdicts \ {"none"}
        BY <3>1 DEF Terminal, Verdicts
      <4>3. QED
        BY <2>1, <4>1, <4>2
    <3>2. CASE event \notin Terminal
      BY <1>2, <3>2 DEF SendEvent, event
    <3>3. QED
      BY <3>1, <3>2
  <2>8. client' \in [Clients -> Streams]
    BY <2>4, <2>6
  <2>9. JobInv'
    BY <2>4, <2>5, <2>1
  <2>10. QED
    BY <1>2, <2>7, <2>8, <2>9 DEF SendEvent
<1>3. CASE EndStream(c)
  <2>1. client'[c] \in Streams
    BY <1>0, <1>3 DEF EndStream, Streams, Modes
  <2>2. QED
    BY <1>3, <2>1 DEF EndStream
<1>4. CASE AwaitEvent(c)
  <2>1. client'[c] \in Streams
    BY <1>0, <1>4 DEF AwaitEvent, Streams, Modes
  <2>2. QED
    BY <1>4, <2>1 DEF AwaitEvent
<1>5. CASE ResumeReading(c)
  <2>1. client'[c] \in Streams
    BY <1>0, <1>5 DEF ResumeReading, Streams, Modes
  <2>2. QED
    BY <1>5, <2>1 DEF ResumeReading
<1>6. CASE Recover(c)
  <2>1. PICK status : /\ client' = [client EXCEPT
                            ![c].mode = "closed",
                            ![c].got = Append(@, Frame(RecoveryVerdict(status))),
                            ![c].verdict = RecoveryVerdict(status)]
                      /\ Tell(client[c].job, RecoveryVerdict(status))
    BY <1>6 DEF Recover
  <2>2. RecoveryVerdict(status) \in Verdicts \ {"none"}
    BY DEF RecoveryVerdict, Verdicts
  <2>3. client'[c] \in Streams
    BY <1>0, <2>1, <2>2 DEF Frame, Streams, Modes, Stages, Terminal
  <2>4. told' \in [Jobs -> SUBSET (Verdicts \ {"none"})]
    BY <2>1, <2>2 DEF Tell
  <2>5. client' \in [Clients -> Streams]
    BY <2>1, <2>3
  <2>6. QED
    BY <1>6, <2>4, <2>5 DEF Recover
<1>7. CASE Disconnect(c)
  BY <1>7 DEF Disconnect, Idle, NewStream, Streams, Modes, Verdicts
<1>8. QED
  BY <1>1, <1>2, <1>3, <1>4, <1>5, <1>6, <1>7 DEF StreamStep, Wake, KeepAlive

LEMMA TypeEnvironment ==
    ASSUME TypeInv, Restart \/ \E j \in Jobs : Age(j) \/ Expire(j)
    PROVE  TypeInv'
<1> USE DEF TypeInv, TypeOK, RuleInv, JobInv, jobVars, memoryVars, storeVars
<1>1. CASE Restart
  BY <1>1, RulesAssumption DEF Restart, Steps, Idle, NewStream, Streams, Modes, Verdicts
<1>2. CASE \E j \in Jobs : Age(j)
  BY <1>2 DEF Age
<1>3. CASE \E j \in Jobs : Expire(j)
  BY <1>3 DEF Expire
<1>4. QED
  BY <1>1, <1>2, <1>3

LEMMA TypeStutter ==
    ASSUME TypeInv, UNCHANGED vars
    PROVE  TypeInv'
BY DEF TypeInv, TypeOK, RuleInv, JobInv, vars, jobVars, memoryVars, storeVars

LEMMA TypeNext ==
    ASSUME TypeInv, [Next]_vars
    PROVE  TypeInv'
BY TypeRequest, TypeRunner, TypeStream, TypeEnvironment, TypeStutter DEF Next

\* Every variable stays in its type: in particular the rule loop stops at the
\* number of rules and only verdicts the endpoints know are ever told.
THEOREM TypeCorrect == Spec => []TypeOK
<1>1. TypeInv => TypeOK
  BY DEF TypeInv
<1>2. QED
  BY <1>1, TypeInit, TypeNext, PTL DEF Spec

-----------------------------------------------------------------------------
(* The event log.                                                          *)

(* A log has no terminal event until the emission that leads to close, and *)
(* from then on ends with it.                                              *)
LogOf(j) ==
    /\ \A i \in 1..Len(events[j]) : events[j][i] \in Terminal => i = Len(events[j])
    /\ pc[j] \in {"close", "ended"} =>
          Len(events[j]) > 0 /\ events[j][Len(events[j])] \in Terminal
    /\ pc[j] \notin {"close", "ended"} =>
          \A i \in 1..Len(events[j]) : events[j][i] \notin Terminal
    /\ finished[j] => pc[j] = "ended"

LogInv == \A j \in Jobs : LogOf(j)

LEMMA LogInit == Init => LogInv
BY DEF Init, LogInv, LogOf

\* Emitting a progress stage, or the terminal event of a log that has none.
LEMMA LogEmit ==
    ASSUME TypeInv, NEW j \in Jobs, LogOf(j), pc[j] \notin {"close", "ended"},
           NEW stage \in Stages, Emit(j, stage), finished' = finished,
           stage \in Terminal <=> pc'[j] \in {"close", "ended"}
    PROVE  LogOf(j)'
<1> DEFINE s == events[j]
<1>1. s \in Seq(Stages)
  BY DEF TypeInv, TypeOK
<1>2. events'[j] = Append(s, stage)
  BY DEF Emit, TypeInv, TypeOK
<1>3. /\ Len(events'[j]) = Len(s) + 1
      /\ Len(s) \in Nat
      /\ \A i \in 1..Len(s) : events'[j][i] = s[i]
      /\ events'[j][Len(s) + 1] = stage
  BY <1>1, <1>2
<1>4. \A i \in 1..Len(s) : s[i] \notin Terminal
  BY DEF LogOf
<1>5. \A i \in 1..Len(events'[j]) : i \in 1..Len(s) \/ i = Len(s) + 1
  BY <1>3
<1>6. ~finished[j]
  BY DEF LogOf
<1> HIDE DEF s
<1>7. QED
  BY <1>3, <1>4, <1>5, <1>6 DEF LogOf

LEMMA LogRunner ==
    ASSUME TypeInv, LogInv, NEW j \in Jobs, RunnerStep(j)
    PROVE  LogInv'
<1>0. LogOf(j)
  BY DEF LogInv
<1>1. ASSUME NEW i \in Jobs, i # j PROVE LogOf(i)'
  <2>1. events'[i] = events[i] /\ finished'[i] = finished[i] /\ pc'[i] = pc[i]
    BY <1>1 DEF RunnerStep, NoWorkspace, EmitStage, WorkFails, SaveReport, StoreSource, RecordSucceeded,
                EmitDone, RecordFailed, EmitFailed, Close, Emit, TypeInv, TypeOK
  <2>2. LogOf(i)
    BY DEF LogInv
  <2>3. QED
    BY <2>1, <2>2 DEF LogOf
<1>2. LogOf(j)'
  <2>1. CASE EmitStage(j)
    <3>1. /\ pc[j] \in RunStages /\ pc[j] \in Stages /\ pc[j] \notin Terminal
          /\ Emit(j, pc[j]) /\ finished' = finished
      BY <2>1 DEF EmitStage, RunStages, Stages, Terminal
    <3>2. pc'[j] \notin {"close", "ended"}
      BY <2>1 DEF EmitStage, NextStage, RunStages, TypeInv, TypeOK
    <3>3. QED
      BY <1>0, <3>1, <3>2, LogEmit DEF RunStages
  <2>2. CASE EmitDone(j) \/ EmitFailed(j)
    <3>1. PICK stage \in Terminal : Emit(j, stage)
      BY <2>2 DEF EmitDone, EmitFailed, Terminal
    <3>2. pc'[j] = "close" /\ pc[j] \notin {"close", "ended"} /\ finished' = finished
      BY <2>2 DEF EmitDone, EmitFailed, TypeInv, TypeOK
    <3>3. QED
      BY <1>0, <3>1, <3>2, LogEmit DEF Stages
  <2>3. CASE Close(j)
    BY <1>0, <2>3 DEF Close, LogOf, TypeInv, TypeOK
  <2>4. CASE \/ NoWorkspace(j) \/ WorkFails(j) \/ SaveReport(j) \/ StoreSource(j)
             \/ RecordSucceeded(j) \/ RecordFailed(j)
    <3>1. /\ events' = events /\ finished' = finished
          /\ pc[j] \notin {"close", "ended"} /\ pc'[j] \notin {"close", "ended"}
      BY <2>4 DEF NoWorkspace, WorkFails, SaveReport, StoreSource, RecordSucceeded, RecordFailed,
                  RunStages, TypeInv, TypeOK
    <3>2. QED
      BY <1>0, <3>1 DEF LogOf
  <2>5. QED
    BY <2>1, <2>2, <2>3, <2>4 DEF RunnerStep
<1>3. QED
  BY <1>1, <1>2 DEF LogInv

LEMMA LogNext ==
    ASSUME TypeInv, LogInv, [Next]_vars
    PROVE  LogInv'
<1>1. CASE \E j \in Jobs : RunnerStep(j)
  BY <1>1, LogRunner
<1>2. CASE \E j \in Jobs : Submit(j) \/ RequestStep(j)
  <2>1. PICK j \in Jobs : Submit(j) \/ RequestStep(j)
    BY <1>2
  <2>2. /\ events' = events /\ finished' = finished
        /\ pc[j] \notin {"close", "ended"} /\ pc'[j] \notin {"close", "ended"}
        /\ \A i \in Jobs : i # j => pc'[i] = pc[i]
    BY <2>1 DEF Submit, RequestStep, RecordStarted, SweepRows, StartTask, FirstStage,
                TypeInv, TypeOK
  <2>3. QED
    BY <2>2 DEF LogInv, LogOf
<1>3. CASE Restart
  BY <1>3 DEF Restart, LogInv, LogOf
<1>4. CASE UNCHANGED jobVars
  BY <1>4 DEF jobVars, LogInv, LogOf
<1>5. QED
  BY <1>1, <1>2, <1>3, <1>4
  DEF Next, vars, Age, Expire, Subscribe, StreamStep, SendEvent, EndStream, AwaitEvent,
      Wake, KeepAlive, ResumeReading, Recover, Disconnect

\* A log holds at most one terminal event, as its last, and a finished job's log
\* has one (Job.emit, Job.close, _analyse, _fail): whatever fails, whenever the
\* process restarts, and for any number of jobs and followers.
THEOREM TerminalEnds == Spec => []TerminalEndsLog
<1>1. TypeInv /\ LogInv => TerminalEndsLog
  BY DEF LogInv, LogOf, TerminalEndsLog, TypeInv, TypeOK
<1>2. Init => TypeInv /\ LogInv
  BY TypeInit, LogInit
<1>3. TypeInv /\ LogInv /\ [Next]_vars => (TypeInv /\ LogInv)'
  BY TypeNext, LogNext
<1>4. QED
  BY <1>1, <1>2, <1>3, PTL DEF Spec

-----------------------------------------------------------------------------
(* A "done" names a report that was saved.                                 *)

(* What stands between the save and the word "done": the path of the       *)
(* runner, the row a recovering client is answered from, and what clients  *)
(* were told before.                                                       *)
SavedOf(j) ==
    /\ pc[j] \in {"storeSource", "recordSuccess", "emitDone"} => j \in reports
    /\ \A i \in 1..Len(events[j]) : events[j][i] = "done" => j \in reports
    /\ ~HasDatabase => row[j] = "none"
    /\ HasDatabase /\ row[j] = "succeeded" => j \in reports
    /\ HasDatabase /\ "done" \in told[j] => j \in reports

SavedInv == \A j \in Jobs : SavedOf(j)

LEMMA SavedInit == Init => SavedInv
BY DEF Init, SavedInv, SavedOf

LEMMA SavedEmit ==
    ASSUME TypeInv, NEW j \in Jobs, SavedOf(j), NEW stage \in Stages, Emit(j, stage),
           stage = "done" => j \in reports, UNCHANGED <<reports, row, told>>,
           pc'[j] \notin {"storeSource", "recordSuccess", "emitDone"}
    PROVE  SavedOf(j)'
<1> DEFINE s == events[j]
<1>1. s \in Seq(Stages)
  BY DEF TypeInv, TypeOK
<1>2. events'[j] = Append(s, stage)
  BY DEF Emit, TypeInv, TypeOK
<1>3. /\ Len(events'[j]) = Len(s) + 1
      /\ Len(s) \in Nat
      /\ \A i \in 1..Len(s) : events'[j][i] = s[i]
      /\ events'[j][Len(s) + 1] = stage
  BY <1>1, <1>2
<1>4. \A i \in 1..Len(s) : s[i] = "done" => j \in reports
  BY DEF SavedOf
<1>5. \A i \in 1..Len(events'[j]) : i \in 1..Len(s) \/ i = Len(s) + 1
  BY <1>3
<1>6. \A i \in 1..Len(events'[j]) : events'[j][i] = "done" => j \in reports'
  BY <1>3, <1>4, <1>5
<1> HIDE DEF s
<1>7. QED
  BY <1>6 DEF SavedOf

LEMMA SavedRunner ==
    ASSUME TypeInv, SavedInv, NEW j \in Jobs, RunnerStep(j)
    PROVE  SavedInv'
<1>0. SavedOf(j) /\ told' = told
  BY DEF SavedInv, RunnerStep, NoWorkspace, EmitStage, WorkFails, SaveReport, StoreSource,
         RecordSucceeded, EmitDone, RecordFailed, EmitFailed, Close
<1>1. ASSUME NEW i \in Jobs, i # j PROVE SavedOf(i)'
  <2>1. /\ events'[i] = events[i] /\ pc'[i] = pc[i] /\ row'[i] = row[i]
        /\ i \in reports' <=> i \in reports
    BY <1>1 DEF RunnerStep, NoWorkspace, EmitStage, WorkFails, SaveReport, StoreSource, RecordSucceeded,
                EmitDone, RecordFailed, EmitFailed, Close, Emit, UpdateRow, storeVars,
                TypeInv, TypeOK
  <2>2. SavedOf(i)
    BY DEF SavedInv
  <2>3. QED
    BY <1>0, <2>1, <2>2 DEF SavedOf
<1>2. SavedOf(j)'
  <2>1. CASE EmitStage(j)
    <3>1. /\ Emit(j, pc[j]) /\ UNCHANGED <<reports, row, told>>
          /\ pc[j] \in Stages /\ pc[j] # "done"
      BY <2>1 DEF EmitStage, storeVars, RunStages, Stages, Terminal
    <3>2. pc'[j] \notin {"storeSource", "recordSuccess", "emitDone"}
      BY <2>1 DEF EmitStage, NextStage, RunStages, TypeInv, TypeOK
    <3>3. QED
      BY <1>0, <3>1, <3>2, SavedEmit
  <2>2. CASE EmitDone(j)
    <3>1. /\ Emit(j, "done") /\ UNCHANGED <<reports, row, told>> /\ j \in reports
          /\ pc'[j] = "close" /\ "done" \in Stages
      BY <1>0, <2>2 DEF EmitDone, SavedOf, storeVars, Stages, Terminal, TypeInv, TypeOK
    <3>2. QED
      BY <1>0, <3>1, SavedEmit
  <2>3. CASE EmitFailed(j)
    <3>1. /\ Emit(j, "failed") /\ UNCHANGED <<reports, row, told>>
          /\ pc'[j] = "close" /\ "failed" \in Stages
      BY <2>3 DEF EmitFailed, storeVars, Stages, Terminal, TypeInv, TypeOK
    <3>2. QED
      BY <1>0, <3>1, SavedEmit
  <2>4. CASE SaveReport(j)
    BY <1>0, <2>4 DEF SaveReport, SavedOf, TypeInv, TypeOK
  <2>5. CASE StoreSource(j) \/ NoWorkspace(j) \/ WorkFails(j) \/ Close(j)
    BY <1>0, <2>5 DEF StoreSource, NoWorkspace, WorkFails, Close, SavedOf, storeVars, TypeInv, TypeOK
  <2>6. CASE RecordSucceeded(j)
    BY <1>0, <2>6 DEF RecordSucceeded, UpdateRow, SavedOf, TypeInv, TypeOK
  <2>7. CASE RecordFailed(j)
    BY <1>0, <2>7 DEF RecordFailed, UpdateRow, SavedOf, TypeInv, TypeOK
  <2>8. QED
    BY <2>1, <2>2, <2>3, <2>4, <2>5, <2>6, <2>7 DEF RunnerStep
<1>3. QED
  BY <1>1, <1>2 DEF SavedInv

LEMMA SavedRequest ==
    ASSUME TypeInv, SavedInv, NEW j \in Jobs, Submit(j) \/ RequestStep(j)
    PROVE  SavedInv'
<1>1. /\ UNCHANGED <<events, reports, told>>
      /\ pc'[j] \notin {"storeSource", "recordSuccess", "emitDone"}
      /\ \A i \in Jobs : i # j => pc'[i] = pc[i]
      /\ \A i \in Jobs : row'[i] \in {row[i], "none"} \/ (HasDatabase /\ row'[i] = "running")
  BY DEF Submit, RequestStep, RecordStarted, SweepRows, StartTask, FirstStage, storeVars,
         TypeInv, TypeOK
<1>2. QED
  BY <1>1 DEF SavedInv, SavedOf

LEMMA SavedStream ==
    ASSUME TypeInv, SavedInv, NEW c \in Clients, SendEvent(c) \/ Recover(c)
    PROVE  SavedInv'
<1> DEFINE j == client[c].job
<1>1. j \in Jobs /\ SavedOf(j)
  BY DEF SendEvent, Recover, TypeInv, JobInv, SavedInv
<1>2. UNCHANGED <<events, reports, row, pc>>
  BY DEF SendEvent, Recover, jobVars, storeVars
<1>3. \A i \in Jobs : HasDatabase /\ "done" \in told'[i] => i \in reports
  <2>1. CASE SendEvent(c)
    <3> DEFINE event == Log(c)[client[c].cursor + 1]
    <3>1. event = "done" => j \in reports
      <4>1. client[c].cursor \in Nat /\ events[j] \in Seq(Stages)
        BY <1>1 DEF TypeInv, TypeOK, Streams
      <4>2. client[c].cursor + 1 \in 1..Len(events[j])
        BY <2>1, <4>1 DEF SendEvent, Log
      <4>3. \A i \in 1..Len(events[j]) : events[j][i] = "done" => j \in reports
        BY <1>1 DEF SavedOf
      <4>4. event = events[j][client[c].cursor + 1]
        BY DEF Log
      <4>5. QED
        BY <4>2, <4>3, <4>4
    <3>2. told' = told \/ told' = [told EXCEPT ![j] = @ \cup {event}]
      BY <2>1 DEF SendEvent, Tell
    <3> HIDE DEF event, j
    <3>3. told \in [Jobs -> SUBSET (Verdicts \ {"none"})]
      BY DEF TypeInv, TypeOK
    <3>4. \A i \in Jobs : "done" \in told'[i] => "done" \in told[i] \/ (i = j /\ event = "done")
      BY <1>1, <3>2, <3>3
    <3>5. QED
      BY <3>1, <3>4 DEF SavedInv, SavedOf
  <2>2. CASE Recover(c)
    <3>1. PICK status \in {row[j], "none"} :
              told' = [told EXCEPT ![j] = @ \cup {RecoveryVerdict(status)}]
      BY <2>2 DEF Recover, Tell
    <3>2. HasDatabase /\ RecoveryVerdict(status) = "done" => j \in reports
      <4>1. RecoveryVerdict("none") = "unknown"
        BY DEF RecoveryVerdict
      <4>2. row[j] \in RowStatus /\ RecoveryVerdict(row[j]) = "done" => row[j] = "succeeded"
        BY DEF RecoveryVerdict, RowStatus
      <4>3. row[j] \in RowStatus
        BY <1>1 DEF TypeInv, TypeOK
      <4>4. QED
        BY <1>1, <4>1, <4>2, <4>3 DEF SavedOf
    <3> HIDE DEF j
    <3>3. QED
      BY <1>1, <3>1, <3>2 DEF SavedInv, SavedOf, TypeInv, TypeOK
  <2>3. QED
    BY <2>1, <2>2
<1> HIDE DEF j
<1>4. QED
  BY <1>2, <1>3 DEF SavedInv, SavedOf

LEMMA SavedNext ==
    ASSUME TypeInv, SavedInv, [Next]_vars
    PROVE  SavedInv'
<1>1. CASE Restart
  BY <1>1 DEF Restart, SavedInv, SavedOf, TypeInv, TypeOK
<1>2. CASE UNCHANGED <<jobVars, row, reports, told>>
  BY <1>2 DEF jobVars, SavedInv, SavedOf
<1>3. QED
  BY <1>1, <1>2, SavedRunner, SavedRequest, SavedStream
  DEF Next, vars, storeVars, Age, Expire, Subscribe, StreamStep, EndStream, AwaitEvent,
      Wake, KeepAlive, ResumeReading, Disconnect

\* A "done", read live or recovered after a restart, names a report that was saved:
\* for any number of jobs and followers and whatever bookkeeping or storage does.
THEOREM DoneIsSaved == Spec => []DoneMeansSaved
<1>1. SavedInv => DoneMeansSaved
  BY DEF SavedInv, SavedOf, DoneMeansSaved
<1>2. Init => TypeInv /\ SavedInv
  BY TypeInit, SavedInit
<1>3. TypeInv /\ SavedInv /\ [Next]_vars => (TypeInv /\ SavedInv)'
  BY TypeNext, SavedNext
<1>4. QED
  BY <1>1, <1>2, <1>3, PTL DEF Spec

-----------------------------------------------------------------------------
(* A recorded outcome is final.                                            *)

\* The runner and the request handler of a job with a recorded outcome are past
\* every statement that writes the row.
RecordedInv ==
    \A j \in Jobs : row[j] \in {"succeeded", "failed"} =>
        pc[j] \in {"emitDone", "emitFailed", "close", "ended", "lost", "died"}

\* One step of the row of one job.
RowStep(j) == row'[j] = row[j] \/ (row'[j] = "none" /\ j \in expired)

LEMMA RecordedRunner ==
    ASSUME TypeInv, RecordedInv, NEW j \in Jobs, RunnerStep(j)
    PROVE  RecordedInv' /\ \A i \in Jobs : row[i] \in {"succeeded", "failed"} => RowStep(i)
<1>1. \A i \in Jobs : i # j => pc'[i] = pc[i] /\ row'[i] = row[i]
  BY DEF RunnerStep, NoWorkspace, EmitStage, WorkFails, SaveReport, StoreSource, RecordSucceeded,
         EmitDone, RecordFailed, EmitFailed, Close, UpdateRow, storeVars, TypeInv, TypeOK
<1>2. /\ row'[j] \in {"succeeded", "failed"} =>
           pc'[j] \in {"emitDone", "emitFailed", "close", "ended", "lost", "died"}
      /\ row[j] \in {"succeeded", "failed"} => row'[j] = row[j]
  <2>1. CASE EmitStage(j) \/ NoWorkspace(j) \/ WorkFails(j) \/ SaveReport(j) \/ StoreSource(j)
    BY <2>1 DEF EmitStage, NoWorkspace, WorkFails, SaveReport, StoreSource, RunStages, storeVars,
                RecordedInv
  <2>2. CASE RecordSucceeded(j) \/ RecordFailed(j)
    BY <2>2 DEF RecordSucceeded, RecordFailed, UpdateRow, RecordedInv, TypeInv, TypeOK
  <2>3. CASE EmitDone(j) \/ EmitFailed(j) \/ Close(j)
    BY <2>3 DEF EmitDone, EmitFailed, Close, storeVars, TypeInv, TypeOK
  <2>4. QED
    BY <2>1, <2>2, <2>3 DEF RunnerStep
<1>3. QED
  BY <1>1, <1>2 DEF RecordedInv, RowStep

LEMMA RecordedRequest ==
    ASSUME TypeInv, RecordedInv, NEW j \in Jobs, Submit(j) \/ RequestStep(j)
    PROVE  RecordedInv' /\ \A i \in Jobs : row[i] \in {"succeeded", "failed"} => RowStep(i)
<1>1. pc[j] \in {"none", "recordStart", "sweepRows"} /\ row[j] \notin {"succeeded", "failed"}
  BY DEF Submit, RequestStep, RecordStarted, SweepRows, RecordedInv
<1>2. \A i \in Jobs : i # j => pc'[i] = pc[i]
  BY DEF Submit, RequestStep, RecordStarted, SweepRows, StartTask, TypeInv, TypeOK
<1>3. /\ \A i \in Jobs : i # j => RowStep(i)
      /\ row'[j] \in {row[j], "none", "running"}
  BY DEF Submit, RequestStep, RecordStarted, SweepRows, storeVars, RowStep, TypeInv, TypeOK
<1>4. \A i \in Jobs : i # j /\ row'[i] \in {"succeeded", "failed"} => row'[i] = row[i]
  BY <1>3 DEF RowStep
<1>5. QED
  BY <1>1, <1>2, <1>3, <1>4 DEF RecordedInv

LEMMA RecordedNext ==
    ASSUME TypeInv, RecordedInv, [Next]_vars
    PROVE  RecordedInv' /\ \A i \in Jobs : row[i] \in {"succeeded", "failed"} => RowStep(i)
<1>1. CASE Restart
  BY <1>1 DEF Restart, RecordedInv, RowStep, TypeInv, TypeOK
<1>2. CASE UNCHANGED <<pc, row>>
  BY <1>2 DEF RecordedInv, RowStep
<1>3. QED
  BY <1>1, <1>2, RecordedRunner, RecordedRequest
  DEF Next, vars, jobVars, storeVars, Age, Expire, Subscribe, StreamStep, SendEvent,
      EndStream, AwaitEvent, Wake, KeepAlive, ResumeReading, Recover, Disconnect

\* A recorded outcome is never replaced by another or made pending again; it only
\* goes when it is past retention (record_started, _update, _sweep): whatever the
\* bookkeeping loses and whenever the process restarts.
THEOREM OutcomeIsFinal == Spec => RecordedOutcomeIsFinal
<1>1. Init => TypeInv /\ RecordedInv
  BY TypeInit DEF Init, RecordedInv
<1>2. TypeInv /\ RecordedInv /\ [Next]_vars => (TypeInv /\ RecordedInv)'
  BY TypeNext, RecordedNext
<1>3. TypeInv /\ RecordedInv /\ [Next]_vars =>
        [\A j \in Jobs : row[j] \in {"succeeded", "failed"} =>
            row'[j] = row[j] \/ (row'[j] = "none" /\ j \in expired)]_vars
  BY RecordedNext DEF RowStep
<1>4. QED
  BY <1>1, <1>2, <1>3, PTL DEF Spec, RecordedOutcomeIsFinal

-----------------------------------------------------------------------------
(* What the polling endpoint says.                                         *)

(* The report id is set on the way to "done" and on no other way, and the  *)
(* last event of a log that is closed says which way it was.               *)
PolledOf(j) ==
    /\ pc[j] \in {"recordSuccess", "emitDone"} => reportId[j]
    /\ pc[j] \in RunStages \cup {"none", "saveReport", "storeSource", "recordFailure",
                                 "emitFailed", "recordStart", "sweepRows"} => ~reportId[j]
    /\ pc[j] \in {"close", "ended"} => (reportId[j] <=> events[j][Len(events[j])] = "done")

PolledInv == \A j \in Jobs : PolledOf(j)

LEMMA PolledRunner ==
    ASSUME TypeInv, PolledInv, NEW j \in Jobs, RunnerStep(j)
    PROVE  PolledInv'
<1>0. PolledOf(j)
  BY DEF PolledInv
<1>1. ASSUME NEW i \in Jobs, i # j PROVE PolledOf(i)'
  <2>1. events'[i] = events[i] /\ reportId'[i] = reportId[i] /\ pc'[i] = pc[i]
    BY <1>1 DEF RunnerStep, NoWorkspace, EmitStage, WorkFails, SaveReport, StoreSource, RecordSucceeded,
                EmitDone, RecordFailed, EmitFailed, Close, Emit, TypeInv, TypeOK
  <2>2. PolledOf(i)
    BY DEF PolledInv
  <2>3. QED
    BY <2>1, <2>2 DEF PolledOf
<1>2. PolledOf(j)'
  <2>1. CASE EmitStage(j)
    <3>1. /\ pc[j] \in RunStages /\ pc'[j] \in RunStages \cup {"saveReport"}
          /\ reportId' = reportId
      BY <2>1 DEF EmitStage, NextStage, RunStages, TypeInv, TypeOK
    <3>2. QED
      BY <1>0, <3>1 DEF PolledOf, RunStages
  <2>2. CASE EmitDone(j) \/ EmitFailed(j)
    <3>1. PICK stage \in Terminal :
             /\ events'[j] = Append(events[j], stage)
             /\ reportId[j] <=> stage = "done"
      BY <1>0, <2>2 DEF EmitDone, EmitFailed, Emit, Terminal, PolledOf, TypeInv, TypeOK
    <3>2. events'[j][Len(events'[j])] = stage
      <4>1. events[j] \in Seq(Stages) /\ stage \in Stages
        BY DEF TypeInv, TypeOK, Stages
      <4>2. QED
        BY <3>1, <4>1
    <3>3. pc'[j] = "close" /\ reportId' = reportId
      BY <2>2 DEF EmitDone, EmitFailed, TypeInv, TypeOK
    <3>4. QED
      BY <3>1, <3>2, <3>3 DEF PolledOf, RunStages
  <2>3. CASE Close(j)
    BY <1>0, <2>3 DEF Close, PolledOf, RunStages, TypeInv, TypeOK
  <2>4. CASE StoreSource(j)
    BY <1>0, <2>4 DEF StoreSource, PolledOf, RunStages, TypeInv, TypeOK
  <2>5. CASE NoWorkspace(j) \/ WorkFails(j) \/ SaveReport(j) \/ RecordSucceeded(j) \/ RecordFailed(j)
    <3>1. /\ reportId' = reportId
          /\ \/ /\ pc[j] \in RunStages \cup {"saveReport", "recordFailure"}
                /\ pc'[j] \in {"storeSource", "recordFailure", "emitFailed", "died"}
             \/ pc[j] = "recordSuccess" /\ pc'[j] = "emitDone"
      BY <2>5 DEF NoWorkspace, WorkFails, SaveReport, RecordSucceeded, RecordFailed, RunStages,
                  TypeInv, TypeOK
    <3>2. QED
      BY <1>0, <3>1 DEF PolledOf, RunStages
  <2>6. QED
    BY <2>1, <2>2, <2>3, <2>4, <2>5 DEF RunnerStep
<1>3. QED
  BY <1>1, <1>2 DEF PolledInv

LEMMA PolledRequest ==
    ASSUME TypeInv, PolledInv, NEW j \in Jobs, Submit(j) \/ RequestStep(j)
    PROVE  PolledInv'
<1>1. /\ events' = events /\ reportId' = reportId
      /\ pc[j] \in {"none", "recordStart", "sweepRows"}
      /\ pc'[j] \in {"recordStart", "sweepRows", "fetching", "extracting"}
      /\ \A i \in Jobs : i # j => pc'[i] = pc[i]
  BY DEF Submit, RequestStep, RecordStarted, SweepRows, StartTask, FirstStage, TypeInv, TypeOK
<1>2. QED
  BY <1>1 DEF PolledInv, PolledOf, RunStages

\* GET /{job_id} never says "finished" without the report id of a successful run,
\* nor with one for a failed run (job_status; _analyse, _fail, Job.close).
THEOREM PollsMatchLog == Spec => []PollMatchesLog
<1>1. TypeInv /\ LogInv /\ PolledInv => PollMatchesLog
  BY DEF LogInv, LogOf, PolledInv, PolledOf, PollMatchesLog, JobStatus, TypeInv, TypeOK
<1>2. Init => TypeInv /\ LogInv /\ PolledInv
  <2>1. Init => PolledInv
    BY DEF Init, PolledInv, PolledOf, RunStages
  <2>2. QED
    BY <2>1, TypeInit, LogInit
<1>3. TypeInv /\ LogInv /\ PolledInv /\ [Next]_vars => (TypeInv /\ LogInv /\ PolledInv)'
  <2>1. ASSUME TypeInv, PolledInv, [Next]_vars PROVE PolledInv'
    <3>1. CASE Restart
      BY <3>1 DEF Restart, PolledInv, PolledOf, RunStages
    <3>2. CASE UNCHANGED jobVars
      BY <2>1, <3>2 DEF jobVars, PolledInv, PolledOf
    <3>3. QED
      BY <2>1, <3>1, <3>2, PolledRunner, PolledRequest
      DEF Next, vars, Age, Expire, Subscribe, StreamStep, SendEvent, EndStream, AwaitEvent,
          Wake, KeepAlive, ResumeReading, Recover, Disconnect
  <2>2. QED
    BY <2>1, TypeNext, LogNext
<1>4. QED
  BY <1>1, <1>2, <1>3, PTL DEF Spec

-----------------------------------------------------------------------------
(* The books, when bookkeeping works: a row is there from before the id is *)
(* handed out until it is past retention, and it says what the log says.   *)
Working == HasDatabase /\ "bookkeeping" \notin Faults

Last(j) == events[j][Len(events[j])]

BookedOf(j) ==
    /\ j \in expired => pc[j] \in Over
    /\ pc[j] = "sweepRows" => row[j] = "running"
    /\ pc[j] \notin {"none", "recordStart", "sweepRows", "lost"} => j \in accepted
    /\ j \in accepted /\ row[j] = "none" => j \in expired
    /\ pc[j] = "emitDone" => row[j] \in {"succeeded", "none"}
    /\ pc[j] = "emitFailed" => row[j] \in {"failed", "none"}
    /\ pc[j] \in {"close", "ended"} /\ Last(j) = "done" => row[j] \in {"succeeded", "none"}
    /\ pc[j] \in {"close", "ended"} /\ Last(j) = "failed" => row[j] \in {"failed", "none"}
    /\ "unknown" \in told[j] => j \in expired

BookedInv ==
    /\ \A j \in Jobs : BookedOf(j)
    /\ \A c \in Clients : client[c].mode = "recovering" => client[c].job \in accepted

LEMMA BookedRunner ==
    ASSUME Working, TypeInv, BookedInv, NEW j \in Jobs, RunnerStep(j)
    PROVE  BookedInv'
<1>0. BookedOf(j) /\ pc[j] \in Running /\ j \in accepted
  BY DEF BookedInv, BookedOf, RunnerStep, NoWorkspace, EmitStage, WorkFails, SaveReport, StoreSource,
         RecordSucceeded, EmitDone, RecordFailed, EmitFailed, Close, Running, Settling, RunStages
<1>1. UNCHANGED <<accepted, expired, told, client>>
  BY DEF RunnerStep, NoWorkspace, EmitStage, WorkFails, SaveReport, StoreSource, RecordSucceeded,
         EmitDone, RecordFailed, EmitFailed, Close, storeVars
<1>2. ASSUME NEW i \in Jobs, i # j PROVE BookedOf(i)'
  <2>1. events'[i] = events[i] /\ row'[i] = row[i] /\ pc'[i] = pc[i]
    BY <1>2 DEF RunnerStep, NoWorkspace, EmitStage, WorkFails, SaveReport, StoreSource, RecordSucceeded,
                EmitDone, RecordFailed, EmitFailed, Close, Emit, UpdateRow, storeVars,
                TypeInv, TypeOK
  <2>2. BookedOf(i)
    BY DEF BookedInv
  <2>3. QED
    BY <1>1, <2>1, <2>2 DEF BookedOf, Last
<1>3. BookedOf(j)'
  <2>0. j \notin expired /\ row[j] # "none" /\ "unknown" \notin told[j]
    BY <1>0 DEF BookedOf, Running, Settling, RunStages
  <2>1. CASE EmitStage(j) \/ NoWorkspace(j) \/ WorkFails(j) \/ SaveReport(j) \/ StoreSource(j)
    <3>1. /\ row' = row
          /\ pc'[j] \in RunStages \cup {"saveReport", "storeSource", "recordSuccess",
                                        "recordFailure", "died"}
      BY <2>1 DEF EmitStage, NextStage, NoWorkspace, WorkFails, SaveReport, StoreSource, RunStages,
                  storeVars, TypeInv, TypeOK
    <3>2. QED
      BY <1>0, <1>1, <2>0, <3>1 DEF BookedOf, RunStages
  <2>2. CASE RecordSucceeded(j)
    <3>1. row'[j] = "succeeded" /\ pc'[j] = "emitDone"
      BY <2>0, <2>2 DEF RecordSucceeded, UpdateRow, Working, TypeInv, TypeOK
    <3>2. QED
      BY <1>0, <1>1, <2>0, <3>1 DEF BookedOf
  <2>3. CASE RecordFailed(j)
    <3>1. row'[j] = "failed" /\ pc'[j] = "emitFailed"
      BY <2>0, <2>3 DEF RecordFailed, UpdateRow, Working, TypeInv, TypeOK
    <3>2. QED
      BY <1>0, <1>1, <2>0, <3>1 DEF BookedOf
  <2>4. CASE EmitDone(j) \/ EmitFailed(j)
    <3>1. PICK stage \in Terminal :
             /\ events'[j] = Append(events[j], stage)
             /\ stage = "done" => row[j] \in {"succeeded", "none"}
             /\ stage = "failed" => row[j] \in {"failed", "none"}
      BY <1>0, <2>4 DEF EmitDone, EmitFailed, Emit, Terminal, BookedOf, TypeInv, TypeOK
    <3>2. events'[j][Len(events'[j])] = stage
      <4>1. events[j] \in Seq(Stages) /\ stage \in Stages
        BY DEF TypeInv, TypeOK, Stages
      <4>2. QED
        BY <3>1, <4>1
    <3>3. pc'[j] = "close" /\ row' = row
      BY <2>4 DEF EmitDone, EmitFailed, storeVars, TypeInv, TypeOK
    <3>4. QED
      BY <1>0, <1>1, <2>0, <3>1, <3>2, <3>3 DEF BookedOf, Last
  <2>5. CASE Close(j)
    <3>1. pc[j] = "close" /\ pc'[j] = "ended" /\ row' = row /\ events' = events
      BY <2>5 DEF Close, storeVars, TypeInv, TypeOK
    <3>2. QED
      BY <1>0, <1>1, <3>1 DEF BookedOf, Last
  <2>6. QED
    BY <2>1, <2>2, <2>3, <2>4, <2>5 DEF RunnerStep
<1>4. QED
  BY <1>1, <1>2, <1>3 DEF BookedInv

LEMMA BookedRequest ==
    ASSUME Working, TypeInv, BookedInv, NEW j \in Jobs, Submit(j) \/ RequestStep(j)
    PROVE  BookedInv'
<1>0. /\ UNCHANGED <<events, expired, told, client>>
      /\ \A i \in Jobs : i # j => pc'[i] = pc[i]
      /\ accepted \subseteq accepted' /\ accepted' \subseteq accepted \cup {j}
  BY DEF Submit, RequestStep, RecordStarted, SweepRows, StartTask, storeVars, TypeInv, TypeOK
<1>1. /\ pc[j] \in {"none", "recordStart", "sweepRows"} /\ j \notin expired
      /\ "unknown" \notin told[j]
  BY DEF Submit, RequestStep, RecordStarted, SweepRows, BookedInv, BookedOf
<1>2. ASSUME NEW i \in Jobs, i # j PROVE BookedOf(i)'
  <2>1. row'[i] = row[i] \/ (row'[i] = "none" /\ i \in expired)
    BY <1>2 DEF Submit, RequestStep, RecordStarted, SweepRows, storeVars, TypeInv, TypeOK
  <2>2. BookedOf(i)
    BY DEF BookedInv
  <2>3. pc'[i] = pc[i] /\ (i \in accepted' <=> i \in accepted)
    BY <1>0, <1>2
  <2>4. QED
    BY <1>0, <2>1, <2>2, <2>3 DEF BookedOf, Last
<1>3. BookedOf(j)'
  <2>1. CASE Submit(j)
    <3>1. pc'[j] = "recordStart" /\ row' = row /\ accepted' = accepted
      BY <2>1 DEF Submit, storeVars, TypeInv, TypeOK
    <3>2. QED
      BY <1>0, <1>1, <3>1 DEF BookedInv, BookedOf
  <2>2. CASE RecordStarted(j)
    <3>1. pc'[j] = "sweepRows" /\ row'[j] = "running"
      BY <2>2 DEF RecordStarted, Working, TypeInv, TypeOK
    <3>2. QED
      BY <1>0, <1>1, <3>1 DEF BookedInv, BookedOf
  <2>3. CASE SweepRows(j)
    <3>1. pc'[j] \in {"fetching", "extracting"} /\ j \in accepted' /\ pc[j] = "sweepRows"
      BY <2>3 DEF SweepRows, StartTask, FirstStage, TypeInv, TypeOK
    <3>2. row[j] = "running"
      BY <3>1 DEF BookedInv, BookedOf
    <3>3. row'[j] = "running"
      BY <1>1, <2>3, <3>2 DEF SweepRows
    <3>4. QED
      BY <1>0, <1>1, <3>1, <3>3 DEF BookedInv, BookedOf
  <2>4. QED
    BY <2>1, <2>2, <2>3 DEF RequestStep
<1>4. QED
  BY <1>0, <1>2, <1>3 DEF BookedInv

\* A step of an open stream never turns it into one that is answered from the table.
LEMMA QuietStream ==
    ASSUME TypeInv, NEW c \in Clients, StreamStep(c) \/ KeepAlive(c) \/ Disconnect(c)
    PROVE  client'[c].mode # "recovering"
<1>0. client \in [Clients -> Streams]
  BY DEF TypeInv, TypeOK
<1>1. CASE SendEvent(c)
  <2>1. client[c].mode = "reading"
    BY <1>1 DEF SendEvent
  <2>2. PICK n, g, v : client' = [client EXCEPT ![c].cursor = n, ![c].got = g, ![c].verdict = v]
    BY <1>1 DEF SendEvent
  <2>3. QED
    BY <1>0, <2>1, <2>2 DEF Streams
<1>2. CASE EndStream(c)
  BY <1>0, <1>2 DEF EndStream, Streams
<1>3. CASE AwaitEvent(c)
  BY <1>0, <1>3 DEF AwaitEvent, Streams
<1>4. CASE ResumeReading(c)
  BY <1>0, <1>4 DEF ResumeReading, Streams
<1>5. CASE Recover(c)
  <2>1. PICK g, v : client' = [client EXCEPT ![c].mode = "closed", ![c].got = g, ![c].verdict = v]
    BY <1>5 DEF Recover
  <2>2. QED
    BY <1>0, <2>1 DEF Streams
<1>6. CASE Disconnect(c)
  BY <1>0, <1>6 DEF Disconnect, Idle, NewStream
<1>7. QED
  BY <1>1, <1>2, <1>3, <1>4, <1>5, <1>6 DEF StreamStep, Wake, KeepAlive

LEMMA BookedStream ==
    ASSUME Working, TypeInv, BookedInv, NEW c \in Clients,
           StreamStep(c) \/ KeepAlive(c) \/ Disconnect(c) \/ \E j \in Jobs : Subscribe(c, j)
    PROVE  BookedInv'
<1>0. UNCHANGED <<events, pc, accepted, row, expired>>
  BY DEF StreamStep, SendEvent, EndStream, AwaitEvent, Wake, KeepAlive, ResumeReading, Recover,
         Disconnect, Subscribe, jobVars, storeVars
<1>1. \A j \in Jobs : "unknown" \in told'[j] => j \in expired
  <2>0. /\ \A j \in Jobs : "unknown" \in told[j] => j \in expired
        /\ told \in [Jobs -> SUBSET (Verdicts \ {"none"})]
    BY DEF BookedInv, BookedOf, TypeInv, TypeOK
  <2>1. CASE SendEvent(c)
    <3>1. \/ told' = told
          \/ \E event \in Terminal : told' = [told EXCEPT ![client[c].job] = @ \cup {event}]
      BY <2>1 DEF SendEvent, Tell
    <3>2. "unknown" \notin Terminal
      BY DEF Terminal
    <3>3. QED
      BY <2>0, <3>1, <3>2
  <2>2. CASE Recover(c)
    <3> DEFINE k == client[c].job
    <3>1. k \in Jobs /\ k \in accepted
      BY <2>2 DEF Recover, TypeInv, JobInv, BookedInv
    <3>2. told' = [told EXCEPT ![k] = @ \cup {RecoveryVerdict(row[k])}]
      BY <2>2 DEF Recover, Tell, Working
    <3>3. RecoveryVerdict(row[k]) = "unknown" => k \in expired
      <4>1. row[k] \in RowStatus
        BY <3>1 DEF TypeInv, TypeOK
      <4>2. RecoveryVerdict(row[k]) = "unknown" => row[k] = "none"
        BY <4>1 DEF RecoveryVerdict, RowStatus
      <4>3. QED
        BY <3>1, <4>2 DEF BookedInv, BookedOf
    <3> HIDE DEF k
    <3>4. QED
      BY <2>0, <3>1, <3>2, <3>3
  <2>3. CASE told' = told
    BY <2>0, <2>3
  <2>4. QED
    BY <2>1, <2>2, <2>3 DEF StreamStep, EndStream, AwaitEvent, Wake, KeepAlive, ResumeReading,
                            Disconnect, Subscribe
<1>2. \A d \in Clients : client'[d].mode = "recovering" => client'[d].job \in accepted
  <2>0. client \in [Clients -> Streams]
    BY DEF TypeInv, TypeOK
  <2>1. ASSUME NEW d \in Clients, d # c PROVE client'[d] = client[d]
    BY <2>0, <2>1 DEF StreamStep, SendEvent, EndStream, AwaitEvent, Wake, KeepAlive,
                      ResumeReading, Recover, Disconnect, Subscribe
  <2>2. CASE \E j \in Jobs : Subscribe(c, j)
    <3>1. client'[c].job \in accepted
      BY <2>0, <2>2 DEF Subscribe, NewStream
    <3>2. QED
      BY <2>1, <3>1 DEF BookedInv
  <2>3. CASE StreamStep(c) \/ KeepAlive(c) \/ Disconnect(c)
    <3>1. client'[c].mode # "recovering"
      BY <2>3, QuietStream
    <3>2. QED
      BY <2>1, <3>1 DEF BookedInv
  <2>4. QED
    BY <2>2, <2>3
<1>3. QED
  BY <1>0, <1>1, <1>2 DEF BookedInv, BookedOf, Last

LEMMA BookedNext ==
    ASSUME Working, TypeInv, BookedInv, [Next]_vars
    PROVE  BookedInv'
<1>1. CASE Restart
  <2>1. /\ \A j \in Jobs : pc'[j] \in {"none", "lost"} /\ (pc'[j] = "none" <=> pc[j] = "none")
        /\ UNCHANGED <<accepted, row, expired, told>>
    BY <1>1 DEF Restart
  <2>2. \A c \in Clients : client'[c].mode = "recovering" => client'[c] = client[c]
    BY <1>1 DEF Restart, Idle, NewStream
  <2>3. QED
    BY <2>1, <2>2 DEF BookedInv, BookedOf
<1>2. ASSUME NEW j \in Jobs, Expire(j) PROVE BookedInv'
  BY <1>2 DEF Expire, jobVars, memoryVars, BookedInv, BookedOf, Last
<1>3. ASSUME NEW j \in Jobs, Age(j) PROVE BookedInv'
  BY <1>3 DEF Age, jobVars, storeVars, BookedInv, BookedOf, Last
<1>4. CASE UNCHANGED vars
  BY <1>4 DEF vars, jobVars, storeVars, BookedInv, BookedOf, Last
<1>5. QED
  BY <1>1, <1>2, <1>3, <1>4, BookedRunner, BookedRequest, BookedStream DEF Next

LEMMA Booked == Working /\ Spec => [](TypeInv /\ LogInv /\ BookedInv)
<1>1. Init => TypeInv /\ LogInv /\ BookedInv
  <2>1. Init => BookedInv
    BY DEF Init, BookedInv, BookedOf, Idle, NewStream
  <2>2. QED
    BY <2>1, TypeInit, LogInit
<1>2. Working /\ TypeInv /\ LogInv /\ BookedInv /\ [Next]_vars => (TypeInv /\ LogInv /\ BookedInv)'
  BY TypeNext, LogNext, BookedNext
<1>3. Working => []Working
  <2>1. Working => Working'
    BY DEF Working
  <2>2. QED
    BY <2>1, PTL
<1>4. QED
  BY <1>1, <1>2, <1>3, PTL DEF Spec

\* With bookkeeping that works, a log says "done" or "failed" only when the row
\* says the same, or is gone because it was past retention (_analyse and _fail
\* record before they emit).
THEOREM RowSaysItFirst == Spec => []OutcomeRecordedFirst
<1>1. TypeInv /\ LogInv /\ BookedInv => OutcomeRecordedFirst
  <2> SUFFICES ASSUME TypeInv, LogInv, BookedInv, NEW j \in Jobs,
                      NEW i \in 1..Len(events[j]), events[j][i] \in Terminal
               PROVE  /\ events[j][i] = "done" => row[j] \in {"succeeded", "none"}
                      /\ events[j][i] = "failed" => row[j] \in {"failed", "none"}
                      /\ row[j] = "none" => j \in expired
    BY DEF OutcomeRecordedFirst, Terminal
  <2>1. pc[j] \in {"close", "ended"} /\ i = Len(events[j])
    BY DEF LogInv, LogOf
  <2>2. j \in accepted
    BY <2>1 DEF BookedInv, BookedOf
  <2>3. QED
    BY <2>1, <2>2 DEF BookedInv, BookedOf, Last
<1>2. ~Working => OutcomeRecordedFirst
  BY DEF Working, OutcomeRecordedFirst
<1>3. ~Working => []~Working
  <2>1. ~Working => ~Working'
    BY DEF Working
  <2>2. QED
    BY <2>1, PTL
<1>4. QED
  BY <1>1, <1>2, <1>3, Booked, PTL

\* With bookkeeping that works, an id that was handed out is called unknown only
\* once its record is past retention (record_started before the task; recovered).
THEOREM UnknownIsExpired == Spec => []UnknownMeansExpired
<1>1. BookedInv => UnknownMeansExpired
  BY DEF BookedInv, BookedOf, UnknownMeansExpired
<1>2. ~Working => UnknownMeansExpired
  BY DEF Working, UnknownMeansExpired
<1>3. ~Working => []~Working
  <2>1. ~Working => ~Working'
    BY DEF Working
  <2>2. QED
    BY <2>1, PTL
<1>4. QED
  BY <1>1, <1>2, <1>3, Booked, PTL
-----------------------------------------------------------------------------
(* Streams are faithful.                                                   *)

\* What a stream has sent is what its log had up to the cursor; a recovery has
\* sent nothing yet; what a closed stream has sent ends with its one terminal
\* event.
Follows(s, log) ==
    /\ s.mode \in {"reading", "waiting"} =>
          /\ s.cursor <= Len(log) /\ Len(s.got) = s.cursor
          /\ \A i \in 1..s.cursor : s.got[i] = log[i]
    /\ s.mode = "recovering" => s.got = <<>>
    /\ s.mode = "closed" => \A i \in 1..Len(s.got) : s.got[i] \in Terminal <=> i = Len(s.got)

FollowInv == \A c \in Clients : Follows(client[c], events[client[c].job])

\* A log that grows is still the log that was followed.
LEMMA FollowsGrowth ==
    ASSUME NEW s \in Streams, NEW log \in Seq(Stages), NEW stage \in Stages, Follows(s, log)
    PROVE  Follows(s, Append(log, stage))
<1>1. /\ Len(log) \in Nat /\ s.cursor \in Nat
      /\ Len(Append(log, stage)) = Len(log) + 1
      /\ \A i \in 1..Len(log) : Append(log, stage)[i] = log[i]
  BY AppendProperties, LenProperties DEF Streams
<1>2. QED
  BY <1>1 DEF Follows

\* The runner only ever appends to a log.
LEMMA RunnerGrows ==
    ASSUME TypeInv, NEW j \in Jobs, RunnerStep(j), NEW k \in Jobs
    PROVE  \/ events'[k] = events[k]
           \/ \E stage \in Stages : events'[k] = Append(events[k], stage)
<1>1. CASE EmitStage(j)
  <2>1. pc[j] \in Stages /\ events' = [events EXCEPT ![j] = Append(@, pc[j])]
    BY <1>1 DEF EmitStage, Emit, RunStages, Stages
  <2>2. QED
    BY <2>1 DEF TypeInv, TypeOK
<1>2. CASE EmitDone(j) \/ EmitFailed(j)
  <2>1. PICK stage \in Stages : events' = [events EXCEPT ![j] = Append(@, stage)]
    BY <1>2 DEF EmitDone, EmitFailed, Emit, Stages, Terminal
  <2>2. QED
    BY <2>1 DEF TypeInv, TypeOK
<1>3. CASE \/ NoWorkspace(j) \/ WorkFails(j) \/ SaveReport(j) \/ StoreSource(j) \/ RecordSucceeded(j)
           \/ RecordFailed(j) \/ Close(j)
  BY <1>3 DEF NoWorkspace, WorkFails, SaveReport, StoreSource, RecordSucceeded, RecordFailed, Close
<1>4. QED
  BY <1>1, <1>2, <1>3 DEF RunnerStep

\* An idle client follows nothing, whatever log that is.
LEMMA IdleFollows == \A log : Follows(Idle, log)
  BY DEF Follows, Idle, NewStream

LEMMA FollowClient ==
    ASSUME TypeInv, LogInv, FollowInv, NEW c \in Clients,
           StreamStep(c) \/ KeepAlive(c) \/ Disconnect(c) \/ \E j \in Jobs : Subscribe(c, j)
    PROVE  FollowInv'
<1> DEFINE s == client[c]
           log == events[client[c].job]
<1>0. /\ client \in [Clients -> Streams] /\ s \in Streams
      /\ s.mode # "idle" => s.job \in Jobs /\ log \in Seq(Stages) /\ Len(log) \in Nat
      /\ s.cursor \in Nat /\ s.got \in Seq(Stages) /\ Len(s.got) \in Nat
      /\ Follows(s, log)
      /\ events' = events
  BY LenProperties
  DEF TypeInv, TypeOK, JobInv, Streams, FollowInv, StreamStep, SendEvent, EndStream, AwaitEvent,
      Wake, KeepAlive, ResumeReading, Recover, Disconnect, Subscribe, jobVars
<1>1. ASSUME NEW d \in Clients, d # c PROVE client'[d] = client[d]
  BY <1>0, <1>1 DEF StreamStep, SendEvent, EndStream, AwaitEvent, Wake, KeepAlive,
                    ResumeReading, Recover, Disconnect, Subscribe
<1>2. SUFFICES Follows(client'[c], events[client'[c].job])
  BY <1>0, <1>1, <1>2 DEF FollowInv
<1>3. CASE \E j \in Jobs : Subscribe(c, j)
  <2>1. PICK j \in Jobs, m \in {"reading", "recovering"} : client'[c] = NewStream(m, j)
    BY <1>0, <1>3 DEF Subscribe
  <2>2. Len(events[j]) \in Nat
    BY LenProperties DEF TypeInv, TypeOK
  <2>3. QED
    BY <2>1, <2>2 DEF Follows, NewStream
<1>4. CASE SendEvent(c)
  <2>1. /\ s.mode = "reading" /\ s.cursor < Len(log) /\ s.cursor + 1 \in 1..Len(log)
    BY <1>0, <1>4 DEF SendEvent, Log
  <2> DEFINE event == log[s.cursor + 1]
  <2>2. event \in Stages
    BY <1>0, <2>1, LenProperties
  <2>3. PICK v : client' = [client EXCEPT ![c].cursor = @ + 1, ![c].got = Append(@, event),
                                          ![c].verdict = v]
    BY <1>4 DEF SendEvent, Log
  <2>4. /\ client'[c].mode = "reading" /\ client'[c].job = s.job
        /\ client'[c].cursor = s.cursor + 1 /\ client'[c].got = Append(s.got, event)
    BY <1>0, <2>1, <2>3 DEF Streams
  <2>5. /\ Len(Append(s.got, event)) = Len(s.got) + 1
        /\ \A i \in 1..Len(s.got) : Append(s.got, event)[i] = s.got[i]
        /\ Append(s.got, event)[Len(s.got) + 1] = event
    BY <1>0, <2>2, AppendProperties
  <2>6. /\ Len(s.got) = s.cursor
        /\ \A i \in 1..s.cursor : s.got[i] = log[i]
    BY <1>0, <2>1 DEF Follows
  <2>7. \A i \in 1..(s.cursor + 1) : Append(s.got, event)[i] = log[i]
    BY <1>0, <2>5, <2>6
  <2>8. QED
    BY <1>0, <2>1, <2>4, <2>5, <2>6, <2>7 DEF Follows
<1>5. CASE EndStream(c)
  <2>1. /\ s.mode = "reading" /\ s.cursor >= Len(log) /\ finished[s.job]
    BY <1>5 DEF EndStream, Log
  <2>2. /\ client'[c].mode = "closed" /\ client'[c].got = s.got
    BY <1>0, <1>5 DEF EndStream, Streams
  <2>3. /\ Len(s.got) = Len(log)
        /\ \A i \in 1..Len(log) : s.got[i] = log[i]
    BY <1>0, <2>1 DEF Follows
  <2>4. /\ Len(log) > 0 /\ log[Len(log)] \in Terminal
        /\ \A i \in 1..Len(log) : log[i] \in Terminal => i = Len(log)
    BY <1>0, <2>1 DEF LogInv, LogOf
  <2>5. QED
    BY <1>0, <2>2, <2>3, <2>4 DEF Follows
<1>6. CASE AwaitEvent(c) \/ ResumeReading(c)
  <2>1. PICK m \in {"reading", "waiting"} : client' = [client EXCEPT ![c].mode = m]
    BY <1>6 DEF AwaitEvent, ResumeReading
  <2>2. /\ s.mode \in {"reading", "waiting"} /\ client'[c].mode = m /\ client'[c].job = s.job
        /\ client'[c].cursor = s.cursor /\ client'[c].got = s.got
    BY <1>0, <1>6, <2>1 DEF AwaitEvent, ResumeReading, Streams
  <2>3. QED
    BY <1>0, <2>2 DEF Follows
<1>7. CASE Recover(c)
  <2>1. PICK v : client' = [client EXCEPT ![c].mode = "closed", ![c].got = Append(@, Frame(v)),
                                          ![c].verdict = v]
    BY <1>7 DEF Recover
  <2>2. s.got = <<>> /\ Frame(v) \in Terminal /\ Terminal \subseteq Stages
    BY <1>0, <1>7 DEF Recover, Follows, Frame, Terminal, Stages
  <2>3. client'[c].mode = "closed" /\ client'[c].got = Append(<<>>, Frame(v))
    BY <1>0, <2>1, <2>2 DEF Streams
  <2>4. /\ Len(Append(<<>>, Frame(v))) = 1
        /\ Append(<<>>, Frame(v))[1] = Frame(v)
    BY <2>2, AppendProperties, EmptySeq
  <2>5. QED
    BY <2>2, <2>3, <2>4 DEF Follows
<1>8. CASE Disconnect(c)
  BY <1>0, <1>8, IdleFollows DEF Disconnect
<1>9. QED
  BY <1>3, <1>4, <1>5, <1>6, <1>7, <1>8 DEF StreamStep, Wake, KeepAlive

LEMMA FollowNext ==
    ASSUME TypeInv, LogInv, FollowInv, [Next]_vars
    PROVE  FollowInv'
<1>1. CASE \E j \in Jobs : RunnerStep(j)
  <2>1. PICK j \in Jobs : RunnerStep(j)
    BY <1>1
  <2>2. client' = client
    BY <2>1 DEF RunnerStep, NoWorkspace, EmitStage, WorkFails, SaveReport, StoreSource, RecordSucceeded,
                EmitDone, RecordFailed, EmitFailed, Close
  <2>3. ASSUME NEW c \in Clients PROVE Follows(client[c], events'[client[c].job])
    <3>1. CASE client[c].mode = "idle"
      BY <3>1 DEF Follows
    <3>2. CASE client[c].mode # "idle"
      <4>1. /\ client[c].job \in Jobs /\ client[c] \in Streams
            /\ events[client[c].job] \in Seq(Stages)
        BY <3>2 DEF TypeInv, TypeOK, JobInv
      <4>2. Follows(client[c], events[client[c].job])
        BY DEF FollowInv
      <4>3. QED
        BY <2>1, <4>1, <4>2, RunnerGrows, FollowsGrowth
    <3>3. QED
      BY <3>1, <3>2
  <2>4. QED
    BY <2>2, <2>3 DEF FollowInv
<1>2. CASE Restart
  <2>1. ASSUME NEW c \in Clients PROVE Follows(client'[c], events'[client'[c].job])
    <3>1. client'[c] = Idle \/ (client'[c] = client[c] /\ Empty(c))
      BY <1>2 DEF Restart
    <3>2. Empty(c) => \A log : Follows(client[c], log)
      BY DEF Empty, Follows, FollowInv
    <3>3. QED
      BY <3>1, <3>2, IdleFollows
  <2>2. QED
    BY <2>1 DEF FollowInv
<1>3. CASE UNCHANGED <<client, events>>
  BY <1>3 DEF FollowInv
<1>4. CASE \E j \in Jobs : Submit(j) \/ RequestStep(j) \/ Age(j) \/ Expire(j)
  <2>1. UNCHANGED <<client, events>>
    BY <1>4 DEF Submit, RequestStep, RecordStarted, SweepRows, StartTask, Age, Expire, jobVars
  <2>2. QED
    BY <1>3, <2>1
<1>5. CASE UNCHANGED vars
  BY <1>3, <1>5 DEF vars, jobVars
<1>6. QED
  BY <1>1, <1>2, <1>4, <1>5, FollowClient DEF Next

\* A stream sends its log in order, without a gap and without a repetition, and
\* one that ended by itself ended with the one terminal event (generate and
\* recovered, however emission, waiting, leaving and restarts interleave).
THEOREM StreamsAreFaithful == Spec => []StreamIsFaithful
<1>1. TypeInv /\ FollowInv => StreamIsFaithful
  <2> SUFFICES ASSUME TypeInv, FollowInv, NEW c \in Clients
               PROVE  /\ client[c].mode \in {"reading", "waiting"} =>
                            client[c].got = SubSeq(Log(c), 1, client[c].cursor)
                      /\ client[c].mode = "closed" =>
                            \A i \in 1..Len(client[c].got) :
                                client[c].got[i] \in Terminal <=> i = Len(client[c].got)
    BY DEF StreamIsFaithful
  <2>1. Follows(client[c], Log(c))
    BY DEF FollowInv, Log
  <2>2. ASSUME client[c].mode \in {"reading", "waiting"}
        PROVE  client[c].got = SubSeq(Log(c), 1, client[c].cursor)
    <3> DEFINE s == client[c]
               sent == SubSeq(Log(c), 1, s.cursor)
    <3>1. /\ s.cursor \in Nat /\ s.got \in Seq(Stages)
          /\ Log(c) \in Seq(Stages)
      BY <2>2 DEF TypeInv, TypeOK, JobInv, Streams, Log
    <3>2. /\ s.cursor <= Len(Log(c)) /\ Len(s.got) = s.cursor
          /\ \A i \in 1..s.cursor : s.got[i] = Log(c)[i]
      BY <2>1, <2>2 DEF Follows
    <3>3. \A i \in 1..s.cursor : Log(c)[i] \in Stages
      BY <3>1, <3>2, LenProperties
    <3>4. /\ sent \in Seq(Stages)
          /\ Len(sent) = IF 1 <= s.cursor THEN s.cursor - 1 + 1 ELSE 0
          /\ \A i \in 1..(s.cursor - 1 + 1) : sent[i] = Log(c)[1 + i - 1]
      BY <3>1, <3>3, SubSeqProperties
    <3>5. Len(sent) = Len(s.got) /\ \A i \in 1..Len(s.got) : s.got[i] = sent[i]
      BY <3>1, <3>2, <3>4
    <3> HIDE DEF s, sent
    <3>6. s.got = sent
      BY <3>1, <3>4, <3>5, SeqEqual
    <3>7. QED
      BY <3>6 DEF s, sent
  <2>3. QED
    BY <2>1, <2>2 DEF Follows
<1>2. Init => TypeInv /\ LogInv /\ FollowInv
  <2>1. Init => FollowInv
    BY IdleFollows DEF Init, FollowInv
  <2>2. QED
    BY <2>1, TypeInit, LogInit
<1>3. TypeInv /\ LogInv /\ FollowInv /\ [Next]_vars => (TypeInv /\ LogInv /\ FollowInv)'
  BY TypeNext, LogNext, FollowNext
<1>4. QED
  BY <1>1, <1>2, <1>3, PTL DEF Spec

-----------------------------------------------------------------------------
(* The promise of JobOutcome: with a database, bookkeeping that works and no *)
(* run that outlives its retention, every step is one of its steps.        *)
Promising == Working /\ "slow" \notin Faults

\* A job is in memory for as long as its request or its runner lasts, its row is
\* there only after its first insert, and its id is known only after its task
\* was started.
ManagedOf(j) ==
    /\ pc[j] \in {"none", "recordStart"} => row[j] = "none"
    /\ pc[j] \in Posting \cup Running => j \in managed
    /\ j \in aged => pc[j] \in Over
    /\ j \in accepted => pc[j] \notin {"none", "recordStart", "sweepRows"}

\* So whoever is answered from the table asks about a job that nobody runs.
ManagedInv ==
    /\ \A j \in Jobs : ManagedOf(j)
    /\ \A c \in Clients : client[c].mode = "recovering" =>
                              pc[client[c].job] \in Over

LEMMA ManagedRunner ==
    ASSUME TypeInv, ManagedInv, NEW j \in Jobs, RunnerStep(j)
    PROVE  ManagedInv'
<1>1. /\ UNCHANGED <<managed, aged, accepted, client>>
      /\ \A i \in Jobs : i # j => pc'[i] = pc[i] /\ row'[i] = row[i]
  BY DEF RunnerStep, NoWorkspace, EmitStage, WorkFails, SaveReport, StoreSource, RecordSucceeded,
         EmitDone, RecordFailed, EmitFailed, Close, UpdateRow, memoryVars, storeVars,
         TypeInv, TypeOK
<1>2. pc[j] \in Running
  BY DEF RunnerStep, NoWorkspace, EmitStage, WorkFails, SaveReport, StoreSource, RecordSucceeded,
         EmitDone, RecordFailed, EmitFailed, Close, Running, RunStages, Settling
<1>3. pc'[j] \in (Running \ {"fetching"}) \cup {"ended", "died"}
  BY DEF RunnerStep, NoWorkspace, EmitStage, NextStage, WorkFails, SaveReport, StoreSource,
         RecordSucceeded, EmitDone, RecordFailed, EmitFailed, Close, Running, RunStages,
         Settling, TypeInv, TypeOK
<1>4. /\ \A k \in Running \cup {"ended", "died"} : k \notin {"none", "recordStart", "sweepRows"}
      /\ \A k \in Running : k \notin Over
  BY DEF Running, RunStages, Settling
<1>5. ManagedOf(j)'
  BY <1>1, <1>2, <1>3, <1>4 DEF ManagedInv, ManagedOf
<1>6. \A i \in Jobs : ManagedOf(i)'
  BY <1>1, <1>5 DEF ManagedInv, ManagedOf
<1>7. \A c \in Clients : client[c].mode = "recovering" => pc'[client[c].job] \in Over
  BY <1>1, <1>2, <1>4 DEF ManagedInv, TypeInv, JobInv
<1>8. QED
  BY <1>1, <1>6, <1>7 DEF ManagedInv

LEMMA ManagedRequest ==
    ASSUME Working, TypeInv, ManagedInv, NEW j \in Jobs, Submit(j) \/ RequestStep(j)
    PROVE  ManagedInv'
<1>1. /\ UNCHANGED <<aged, client>>
      /\ pc[j] \in {"none", "recordStart", "sweepRows"}
      /\ \A i \in Jobs : i # j => /\ pc'[i] = pc[i]
                                  /\ row'[i] \in {row[i], "none"}
                                  /\ i \in accepted' <=> i \in accepted
      /\ managed \ aged \subseteq managed'
  BY DEF Submit, JobManagerCreate, RequestStep, RecordStarted, SweepRows, StartTask,
         memoryVars, storeVars, TypeInv, TypeOK
<1>2. j \notin accepted /\ j \notin aged
  BY <1>1 DEF ManagedInv, ManagedOf
<1>3. ManagedOf(j)'
  <2>1. CASE Submit(j)
    <3>1. pc'[j] = "recordStart" /\ row' = row /\ accepted' = accepted /\ j \in managed'
      BY <2>1 DEF Submit, JobManagerCreate, storeVars, TypeInv, TypeOK
    <3>2. row[j] = "none"
      BY <2>1 DEF Submit, ManagedInv, ManagedOf
    <3>3. QED
      BY <1>1, <1>2, <3>1, <3>2 DEF ManagedOf
  <2>2. CASE RecordStarted(j)
    <3>1. pc'[j] = "sweepRows" /\ accepted' = accepted
      BY <2>2 DEF RecordStarted, Working, TypeInv, TypeOK
    <3>2. j \in managed'
      BY <1>1, <1>2, <2>2 DEF RecordStarted, ManagedInv, ManagedOf, Posting
    <3>3. QED
      BY <1>1, <1>2, <3>1, <3>2 DEF ManagedOf
  <2>3. CASE SweepRows(j)
    <3>1. pc'[j] \in {"fetching", "extracting"}
      BY <2>3 DEF SweepRows, StartTask, FirstStage, TypeInv, TypeOK
    <3>2. j \in managed'
      BY <1>1, <1>2, <2>3 DEF SweepRows, ManagedInv, ManagedOf, Posting
    <3>3. QED
      BY <1>1, <1>2, <3>1, <3>2 DEF ManagedOf
  <2>4. QED
    BY <2>1, <2>2, <2>3 DEF RequestStep
<1>4. ASSUME NEW i \in Jobs, i # j PROVE ManagedOf(i)'
  <2>1. ManagedOf(i) /\ (pc[i] \in Posting \cup Running => i \notin aged)
    BY DEF ManagedInv, ManagedOf, Posting, Running, RunStages, Settling
  <2>2. QED
    BY <1>1, <1>4, <2>1 DEF ManagedOf
<1>5. \A c \in Clients : client[c].mode = "recovering" => pc'[client[c].job] \in Over
  BY <1>1 DEF ManagedInv, TypeInv, JobInv
<1>6. QED
  BY <1>1, <1>3, <1>4, <1>5 DEF ManagedInv

LEMMA ManagedStream ==
    ASSUME TypeInv, ManagedInv, NEW c \in Clients,
           StreamStep(c) \/ KeepAlive(c) \/ Disconnect(c) \/ \E j \in Jobs : Subscribe(c, j)
    PROVE  ManagedInv'
<1>1. UNCHANGED <<pc, row, managed, aged, accepted>>
  BY DEF StreamStep, SendEvent, EndStream, AwaitEvent, Wake, KeepAlive, ResumeReading, Recover,
         Disconnect, Subscribe, jobVars, memoryVars, storeVars
<1>2. client \in [Clients -> Streams]
  BY DEF TypeInv, TypeOK
<1>3. ASSUME NEW d \in Clients, client'[d].mode = "recovering"
      PROVE  pc[client'[d].job] \in Over
  <2>1. CASE \E j \in Jobs : Subscribe(c, j) /\ d = c
    <3>1. PICK j \in Jobs : Subscribe(c, j) /\ d = c
      BY <2>1
    <3>2. client'[c] = NewStream(IF j \in managed THEN "reading" ELSE "recovering", j)
      BY <1>2, <3>1 DEF Subscribe
    <3>3. client'[c].job = j /\ j \notin managed /\ j \in accepted
      BY <1>3, <3>1, <3>2 DEF Subscribe, NewStream
    <3>4. pc[j] \in Steps \ (Posting \cup Running \cup {"none"})
      BY <3>3 DEF ManagedInv, ManagedOf, TypeInv, TypeOK
    <3>5. QED
      BY <3>1, <3>3, <3>4 DEF Steps
  <2>2. CASE ~\E j \in Jobs : Subscribe(c, j) /\ d = c
    <3>1. client'[d] = client[d]
      <4>1. CASE d # c
        BY <1>2, <4>1 DEF StreamStep, SendEvent, EndStream, AwaitEvent, Wake, KeepAlive,
                          ResumeReading, Recover, Disconnect, Subscribe
      <4>2. CASE d = c
        <5>1. StreamStep(c) \/ KeepAlive(c) \/ Disconnect(c)
          BY <2>2, <4>2
        <5>2. client'[c].mode # "recovering"
          BY <5>1, QuietStream
        <5>3. QED
          BY <1>3, <4>2, <5>2
      <4>3. QED
        BY <4>1, <4>2
    <3>2. QED
      BY <1>3, <3>1 DEF ManagedInv
  <2>3. QED
    BY <2>1, <2>2
<1>4. QED
  BY <1>1, <1>3 DEF ManagedInv, ManagedOf

LEMMA ManagedNext ==
    ASSUME Promising, TypeInv, ManagedInv, [Next]_vars
    PROVE  ManagedInv'
<1>1. CASE Restart
  <2>1. /\ \A j \in Jobs : pc'[j] \in {"none", "lost"} /\ (pc'[j] = "none" <=> pc[j] = "none")
        /\ UNCHANGED <<accepted, row>> /\ aged' = {}
    BY <1>1 DEF Restart
  <2>2. \A c \in Clients : client'[c].mode # "recovering"
    BY <1>1 DEF Restart, Empty, Idle, NewStream
  <2>3. QED
    BY <2>1, <2>2 DEF ManagedInv, ManagedOf, Posting, Running, RunStages, Settling
<1>2. ASSUME NEW j \in Jobs, Expire(j) PROVE ManagedInv'
  BY <1>2 DEF Expire, jobVars, memoryVars, ManagedInv, ManagedOf
<1>3. ASSUME NEW j \in Jobs, Age(j) PROVE ManagedInv'
  BY <1>3 DEF Age, Promising, jobVars, storeVars, ManagedInv, ManagedOf
<1>4. CASE UNCHANGED vars
  BY <1>4 DEF vars, jobVars, memoryVars, storeVars, ManagedInv, ManagedOf
<1>5. Working
  BY DEF Promising
<1>6. QED
  BY <1>1, <1>2, <1>3, <1>4, <1>5, ManagedRunner, ManagedRequest, ManagedStream DEF Next

\* The status a terminal event is recorded under.
Recorded(event) == IF event = "done" THEN "succeeded" ELSE "failed"

\* What the parts of the invariant say together: the row of an unfinished run is
\* pending until the run records how it ended, and a run that is over has a row
\* that says what its log says, or none.
PendingOf(j) ==
    /\ pc[j] \in {"none", "recordStart"} => row[j] = "none"
    /\ pc[j] \in {"sweepRows", "recordFailure", "saveReport", "storeSource", "recordSuccess"}
                 \cup RunStages => row[j] = "running"
    /\ pc[j] = "emitDone" => row[j] = "succeeded"
    /\ pc[j] = "emitFailed" => row[j] = "failed"
    /\ pc[j] = "close" => row[j] = Recorded(Last(j))
    /\ pc[j] = "ended" => row[j] \in {"none", Recorded(Last(j))} /\ Last(j) \in Terminal
    /\ row[j] = "none" => pc[j] \in {"none", "recordStart", "ended", "lost", "died"}

PromiseInv == TypeInv /\ LogInv /\ SavedInv /\ RecordedInv /\ BookedInv /\ ManagedInv

LEMMA Pending ==
    ASSUME PromiseInv, NEW j \in Jobs
    PROVE  PendingOf(j)
<1> USE DEF PromiseInv
<1>1. row[j] \in RowStatus /\ pc[j] \in Steps
  BY DEF TypeInv, TypeOK
<1>2. pc[j] \in Running => row[j] # "none"
  BY DEF BookedInv, BookedOf, Running, RunStages, Settling
<1>3. pc[j] \in {"close", "ended"} => Last(j) \in Terminal
  BY DEF LogInv, LogOf, Last
<1>4. row[j] \in {"succeeded", "failed"} =>
          pc[j] \in {"emitDone", "emitFailed", "close", "ended", "lost", "died"}
  BY DEF RecordedInv
<1>5. pc[j] \in {"none", "recordStart"} => row[j] = "none"
  BY DEF ManagedInv, ManagedOf
<1>6. BookedOf(j)
  BY DEF BookedInv
<1>7. pc[j] \in {"sweepRows", "recordFailure", "saveReport", "storeSource", "recordSuccess"}
                \cup RunStages => row[j] = "running"
  BY <1>1, <1>2, <1>4, <1>6 DEF BookedOf, Running, RunStages, Settling, RowStatus
<1>8. pc[j] = "emitDone" => row[j] = "succeeded"
  BY <1>1, <1>2, <1>6 DEF BookedOf, Running, Settling
<1>9. pc[j] = "emitFailed" => row[j] = "failed"
  BY <1>1, <1>2, <1>6 DEF BookedOf, Running, Settling
<1>10. pc[j] \in {"close", "ended"} => row[j] \in {"none", Recorded(Last(j))}
  BY <1>3, <1>6 DEF BookedOf, Recorded, Terminal
<1>11. pc[j] = "close" => row[j] = Recorded(Last(j))
  BY <1>2, <1>10 DEF Running, Settling
<1>12. row[j] = "none" => pc[j] \in {"none", "recordStart", "ended", "lost", "died"}
  BY <1>1, <1>2, <1>6 DEF BookedOf, Steps, Posting
<1>13. QED
  BY <1>3, <1>5, <1>7, <1>8, <1>9, <1>10, <1>11, <1>12 DEF PendingOf

\* The outcome that JobOutcome sees, case by case.
CaseOf(j) ==
    /\ pc[j] = "none" => OutcomeOf(j) = "absent"
    /\ pc[j] = "recordStart" => OutcomeOf(j) = "pending"
    /\ row[j] = "running" => OutcomeOf(j) = IF pc[j] \in {"lost", "died"} THEN "lost"
                                              ELSE "pending"
    /\ row[j] = "succeeded" => OutcomeOf(j) = "done"
    /\ row[j] = "failed" => OutcomeOf(j) = "failed"
    /\ row[j] = "none" /\ pc[j] = "ended" => OutcomeOf(j) = Last(j)
    /\ row[j] = "none" /\ pc[j] \in {"lost", "died"} => OutcomeOf(j) = "forgotten"

CaseInv == \A j \in Jobs : row[j] \in RowStatus /\ PendingOf(j) /\ CaseOf(j)

LEMMA Cases == PromiseInv => CaseInv
<1> SUFFICES ASSUME PromiseInv, NEW j \in Jobs PROVE row[j] \in RowStatus /\ PendingOf(j) /\ CaseOf(j)
  BY DEF CaseInv
<1>1. PendingOf(j)
  BY Pending
<1>2. row[j] \in RowStatus
  BY DEF PromiseInv, TypeInv, TypeOK
<1>3. CaseOf(j)
  BY <1>1, <1>2 DEF PendingOf, CaseOf, OutcomeOf, Last, RowStatus
<1>4. QED
  BY <1>1, <1>2, <1>3

LEMMA CasesNext == PromiseInv' => CaseInv'
  BY Cases, PTL

LEMMA PromiseStutters ==
    ASSUME \A i \in Jobs : OutcomeOf(i)' = OutcomeOf(i), Dropped' = Dropped,
           UNCHANGED <<reports, told>>
    PROVE  UNCHANGED Promise!vars
  BY DEF Promise!vars, Outcome

LEMMA SimulateSubmit ==
    ASSUME CaseInv, CaseInv', NEW j \in Jobs, Submit(j), TypeInv
    PROVE  Promise!Accept(j)
<1>1. /\ pc[j] = "none" /\ pc' = [pc EXCEPT ![j] = "recordStart"]
      /\ UNCHANGED <<events, row, reports, told>>
  BY DEF Submit, storeVars
<1>2. OutcomeOf(j) = "absent" /\ OutcomeOf(j)' = "pending"
  BY <1>1 DEF CaseInv, CaseOf, TypeInv, TypeOK
<1>3. \A i \in Jobs : i # j => OutcomeOf(i)' = OutcomeOf(i)
  BY <1>1 DEF OutcomeOf, TypeInv, TypeOK
<1>4. Dropped' = Dropped
  BY <1>1 DEF Dropped, TypeInv, TypeOK
<1>5. QED
  BY <1>1, <1>2, <1>3, <1>4 DEF Promise!Accept, Outcome

LEMMA SimulateRequest ==
    ASSUME Working, PromiseInv, CaseInv, CaseInv', NEW j \in Jobs, RequestStep(j)
    PROVE  UNCHANGED Promise!vars \/ Promise!Forget
<1> USE DEF PromiseInv, TypeInv, TypeOK
<1>1. CASE RecordStarted(j)
  <2>1. /\ pc[j] = "recordStart" /\ pc' = [pc EXCEPT ![j] = "sweepRows"]
        /\ row' = [row EXCEPT ![j] = "running"]
        /\ UNCHANGED <<events, reports, told>>
    BY <1>1 DEF RecordStarted, Working
  <2>2. OutcomeOf(j) = "pending" /\ OutcomeOf(j)' = "pending"
    BY <2>1 DEF CaseInv, CaseOf
  <2>3. \A i \in Jobs : i # j => OutcomeOf(i)' = OutcomeOf(i)
    BY <2>1 DEF OutcomeOf
  <2>4. Dropped' = Dropped
    BY <2>1 DEF Dropped
  <2>5. QED
    BY <2>1, <2>2, <2>3, <2>4, PromiseStutters
<1>2. CASE SweepRows(j)
  <2> DEFINE old  == {i \in Jobs : row[i] # "none" /\ i \in expired}
             gone == {i \in old : pc[i] \in {"lost", "died"}}
  <2>1. /\ pc[j] = "sweepRows" /\ pc'[j] \in {"fetching", "extracting"}
        /\ \A i \in Jobs : i # j => pc'[i] = pc[i]
        /\ row' = [i \in Jobs |-> IF i \in expired THEN "none" ELSE row[i]]
        /\ UNCHANGED <<events, reports, told>>
    BY <1>2 DEF SweepRows, StartTask, FirstStage, Working
  <2>2. \A i \in Jobs : i \in expired => pc[i] \in Over
    BY DEF BookedInv, BookedOf
  <2>3. ASSUME NEW i \in old
        PROVE  /\ OutcomeOf(i) \in {"done", "failed", "lost"}
               /\ OutcomeOf(i)' = IF i \in gone THEN "forgotten" ELSE OutcomeOf(i)
    <3>1. row'[i] = "none" /\ pc'[i] = pc[i] /\ i # j /\ row[i] \in RowStatus
      BY <2>1, <2>2
    <3>2. CASE pc[i] \in {"lost", "died"}
      BY <3>1, <3>2 DEF CaseInv, CaseOf, RowStatus
    <3>3. CASE pc[i] = "ended"
      <4>1. row[i] = Recorded(Last(i)) /\ Last(i) \in Terminal
        BY <3>3 DEF CaseInv, PendingOf
      <4>2. OutcomeOf(i) = Last(i)
        BY <4>1 DEF Recorded, Terminal, CaseInv, CaseOf
      <4>3. OutcomeOf(i)' = Last(i)
        BY <2>1, <3>1, <3>3 DEF CaseInv, CaseOf, Last
      <4>4. QED
        BY <3>3, <4>1, <4>2, <4>3 DEF Terminal
    <3>4. QED
      BY <2>2, <3>2, <3>3
  <2>4. ASSUME NEW i \in Jobs, i \notin old PROVE OutcomeOf(i)' = OutcomeOf(i)
    <3>1. row'[i] = row[i]
      BY <2>1, <2>4
    <3>2. CASE i = j
      BY <2>1, <3>1, <3>2 DEF CaseInv, CaseOf, PendingOf, RunStages
    <3>3. CASE i # j
      BY <2>1, <3>1, <3>3 DEF OutcomeOf
    <3>4. QED
      BY <3>2, <3>3
  <2>5. Dropped' = Dropped \cup old
    <3>1. row[j] = "running" /\ row'[j] = "running" /\ j \notin old
      BY <2>1, <2>2 DEF CaseInv, PendingOf
    <3>2. QED
      BY <2>1, <2>2, <3>1 DEF Dropped
  <2>6. /\ old \subseteq Jobs /\ gone \subseteq old
        /\ \A i \in Jobs : OutcomeOf(i)' = IF i \in gone THEN "forgotten" ELSE OutcomeOf(i)
    BY <2>3, <2>4
  <2> HIDE DEF old, gone
  <2>7. old \in SUBSET {i \in Jobs : OutcomeOf(i) \in {"done", "failed", "lost"}}
    BY <2>3, <2>6
  <2>8. Promise!Forget
    <3> DEFINE out == [i \in Jobs |-> OutcomeOf(i)]
    <3>1. out' = [i \in Jobs |-> IF i \in gone THEN "forgotten" ELSE out[i]]
      BY <2>6
    <3>2. old \in SUBSET {i \in Jobs : out[i] \in {"done", "failed", "lost"}}
      BY <2>7
    <3>3. gone \in SUBSET old /\ Dropped' = Dropped \cup old /\ UNCHANGED <<reports, told>>
      BY <2>1, <2>5, <2>6
    <3> HIDE DEF out
    <3>4. \E old_1 \in SUBSET {i \in Jobs : out[i] \in {"done", "failed", "lost"}} :
             /\ Dropped' = Dropped \cup old_1
             /\ \E gone_1 \in SUBSET old_1 :
                   out' = [i \in Jobs |-> IF i \in gone_1 THEN "forgotten" ELSE out[i]]
      BY <3>1, <3>2, <3>3
    <3>5. QED
      BY <3>3, <3>4 DEF out, Promise!Forget, Outcome, Promise!Settled
  <2>9. QED
    BY <2>8
<1>3. QED
  BY <1>1, <1>2 DEF RequestStep

LEMMA SimulateRunner ==
    ASSUME Working, PromiseInv, CaseInv, CaseInv', NEW j \in Jobs, RunnerStep(j)
    PROVE  UNCHANGED Promise!vars \/ Promise!Save(j) \/ Promise!Settle(j) \/ Promise!Abandon(j)
<1> USE DEF PromiseInv, TypeInv, TypeOK
<1>0. /\ \A i \in Jobs : i # j => OutcomeOf(i)' = OutcomeOf(i)
      /\ UNCHANGED told
  <2>1. \A i \in Jobs : i # j => /\ pc'[i] = pc[i] /\ row'[i] = row[i]
                                 /\ events'[i] = events[i]
    BY DEF RunnerStep, NoWorkspace, EmitStage, WorkFails, SaveReport, StoreSource, RecordSucceeded,
           EmitDone, RecordFailed, EmitFailed, Close, Emit, UpdateRow, storeVars
  <2>2. QED
    BY <2>1 DEF OutcomeOf, RunnerStep, NoWorkspace, EmitStage, WorkFails, SaveReport, StoreSource,
                RecordSucceeded, EmitDone, RecordFailed, EmitFailed, Close
<1>1. Dropped' = Dropped
  <2>1. /\ pc[j] \in Running \/ pc[j] = "close"
        /\ pc'[j] \notin {"none", "recordStart"}
        /\ \A i \in Jobs : i # j => pc'[i] = pc[i]
        /\ \A i \in Jobs : row'[i] = "none" <=> row[i] = "none"
    BY DEF RunnerStep, NoWorkspace, EmitStage, NextStage, WorkFails, SaveReport, StoreSource, RecordSucceeded,
           EmitDone, RecordFailed, EmitFailed, Close, UpdateRow, storeVars, Running, RunStages,
           Settling
  <2>2. pc[j] \notin {"none", "recordStart"}
    BY <2>1 DEF Running, RunStages, Settling
  <2>3. QED
    BY <2>1, <2>2 DEF Dropped
<1>2. CASE EmitStage(j) \/ WorkFails(j) \/ StoreSource(j)
  <2>1. /\ UNCHANGED <<row, reports>>
        /\ pc[j] \in RunStages \cup {"storeSource"}
        /\ pc'[j] \notin {"lost", "died"}
    BY <1>2 DEF EmitStage, NextStage, WorkFails, StoreSource, storeVars, RunStages
  <2>2. OutcomeOf(j) = "pending" /\ OutcomeOf(j)' = "pending"
    BY <2>1 DEF CaseInv, CaseOf, PendingOf, RunStages
  <2>3. QED
    BY <1>0, <1>1, <2>1, <2>2, PromiseStutters
<1>3. CASE SaveReport(j)
  <2>1. /\ pc[j] = "saveReport" /\ pc'[j] \notin {"lost", "died"} /\ UNCHANGED row
        /\ reports' \in {reports, reports \cup {j}}
    BY <1>3 DEF SaveReport
  <2>2. OutcomeOf(j) = "pending" /\ OutcomeOf(j)' = "pending"
    BY <2>1 DEF CaseInv, CaseOf, PendingOf
  <2>3. CASE reports' = reports
    BY <1>0, <1>1, <2>2, <2>3, PromiseStutters
  <2>4. CASE reports' = reports \cup {j}
    BY <1>0, <1>1, <2>2, <2>4 DEF Promise!Save, Outcome
  <2>5. QED
    BY <2>1, <2>3, <2>4
<1>4. CASE RecordSucceeded(j)
  <2>1. /\ pc[j] = "recordSuccess" /\ UNCHANGED reports
        /\ row' = [row EXCEPT ![j] = IF @ = "none" THEN @ ELSE "succeeded"]
    BY <1>4 DEF RecordSucceeded, UpdateRow, Working
  <2>2. row[j] = "running" /\ row'[j] = "succeeded" /\ j \in reports
    BY <2>1 DEF CaseInv, PendingOf, SavedInv, SavedOf
  <2>3. OutcomeOf(j) = "pending" /\ OutcomeOf(j)' = "done"
    BY <2>1, <2>2 DEF CaseInv, CaseOf
  <2>4. QED
    BY <1>0, <1>1, <2>1, <2>2, <2>3 DEF Promise!Settle, Outcome
<1>5. CASE RecordFailed(j)
  <2>1. /\ pc[j] = "recordFailure" /\ UNCHANGED reports
        /\ row' = [row EXCEPT ![j] = IF @ = "none" THEN @ ELSE "failed"]
    BY <1>5 DEF RecordFailed, UpdateRow, Working
  <2>2. row[j] = "running" /\ row'[j] = "failed"
    BY <2>1 DEF CaseInv, PendingOf
  <2>3. OutcomeOf(j) = "pending" /\ OutcomeOf(j)' = "failed"
    BY <2>1, <2>2 DEF CaseInv, CaseOf
  <2>4. QED
    BY <1>0, <1>1, <2>1, <2>3 DEF Promise!Settle, Outcome
<1>6. CASE EmitDone(j) \/ EmitFailed(j) \/ Close(j)
  <2>1. UNCHANGED <<row, reports>> /\ pc[j] \in {"emitDone", "emitFailed", "close"}
    BY <1>6 DEF EmitDone, EmitFailed, Close, storeVars
  <2>2. row[j] \in {"succeeded", "failed"}
    BY <2>1 DEF CaseInv, PendingOf, Recorded
  <2>3. OutcomeOf(j)' = OutcomeOf(j)
    BY <2>1, <2>2 DEF CaseInv, CaseOf
  <2>4. QED
    BY <1>0, <1>1, <2>1, <2>3, PromiseStutters
<1>7. CASE NoWorkspace(j)
  <2>1. UNCHANGED <<row, reports>> /\ pc[j] = "fetching" /\ pc'[j] = "died"
    BY <1>7 DEF NoWorkspace, storeVars
  <2>2. OutcomeOf(j) = "pending" /\ OutcomeOf(j)' = "lost"
    BY <2>1 DEF CaseInv, CaseOf, PendingOf, RunStages
  <2>3. QED
    BY <1>0, <1>1, <2>1, <2>2 DEF Promise!Abandon, Outcome
<1>8. QED
  BY <1>2, <1>3, <1>4, <1>5, <1>6, <1>7 DEF RunnerStep

LEMMA Unmoved ==
    ASSUME UNCHANGED <<pc, row, events>>
    PROVE  (\A i \in Jobs : OutcomeOf(i)' = OutcomeOf(i)) /\ Dropped' = Dropped
  BY DEF OutcomeOf, Dropped

LEMMA SimulateAnswer ==
    ASSUME UNCHANGED <<pc, row, events, reports>>, NEW j \in Jobs, NEW v,
           told' = [told EXCEPT ![j] = @ \cup {v}],
           \/ OutcomeOf(j) = "done" /\ v = "done"
           \/ OutcomeOf(j) = "failed" /\ v = "failed"
           \/ OutcomeOf(j) = "lost" /\ v = "interrupted"
           \/ j \in Dropped /\ v = "unknown"
    PROVE  Promise!Answer(j)
<1>1. v \in Promise!Answers(j)
  BY DEF Promise!Answers, Outcome
<1>2. QED
  BY <1>1, Unmoved DEF Promise!Answer, Outcome

LEMMA SimulateStream ==
    ASSUME Working, PromiseInv, CaseInv, NEW c \in Clients,
           StreamStep(c) \/ KeepAlive(c) \/ Disconnect(c) \/ \E j \in Jobs : Subscribe(c, j)
    PROVE  UNCHANGED Promise!vars \/ \E j \in Jobs : Promise!Answer(j)
<1> DEFINE k == client[c].job
<1>0. UNCHANGED <<pc, row, events, reports>>
  BY DEF StreamStep, SendEvent, EndStream, AwaitEvent, Wake, KeepAlive, ResumeReading, Recover,
         Disconnect, Subscribe, jobVars, storeVars
<1>1. CASE told' = told
  BY <1>0, <1>1, Unmoved, PromiseStutters
<1>2. CASE SendEvent(c)
  <2> DEFINE event == events[k][client[c].cursor + 1]
  <2>1. k \in Jobs /\ client[c].cursor \in Nat /\ Len(events[k]) \in Nat
    BY <1>2 DEF SendEvent, PromiseInv, TypeInv, TypeOK, JobInv, Streams
  <2>2. client[c].cursor + 1 \in 1..Len(events[k])
    BY <1>2, <2>1 DEF SendEvent, Log
  <2>3. told' = IF event \in Terminal THEN [told EXCEPT ![k] = @ \cup {event}] ELSE told
    BY <1>2 DEF SendEvent, Log, Tell
  <2>4. ASSUME event \in Terminal PROVE Promise!Answer(k)
    <3>1. pc[k] \in {"close", "ended"} /\ event = Last(k)
      BY <2>1, <2>2, <2>4 DEF PromiseInv, LogInv, LogOf, Last
    <3>2. row[k] \in {"none", Recorded(event)} /\ (row[k] = "none" => pc[k] = "ended")
      BY <2>1, <3>1 DEF CaseInv, PendingOf
    <3>3. OutcomeOf(k) = event
      BY <2>1, <2>4, <3>1, <3>2 DEF CaseInv, CaseOf, Recorded, Terminal
    <3> HIDE DEF event, k
    <3>4. QED
      BY <1>0, <2>1, <2>3, <2>4, <3>3, SimulateAnswer DEF Terminal
  <2>5. QED
    BY <1>1, <2>1, <2>3, <2>4
<1>3. CASE Recover(c)
  <2> DEFINE v == RecoveryVerdict(row[k])
  <2>1. k \in Jobs /\ k \in accepted /\ pc[k] \in Over
    BY <1>3 DEF Recover, PromiseInv, TypeInv, JobInv, BookedInv, ManagedInv
  <2>2. told' = [told EXCEPT ![k] = @ \cup {v}]
    BY <1>3 DEF Recover, Tell, Working
  <2>3. row[k] \in RowStatus /\ PendingOf(k) /\ CaseOf(k)
    BY <2>1 DEF CaseInv
  <2>4. CASE row[k] = "none"
    <3>1. v = "unknown" /\ k \in Dropped
      BY <2>1, <2>4 DEF RecoveryVerdict, Dropped
    <3> HIDE DEF k, v
    <3>2. QED
      BY <1>0, <2>1, <2>2, <3>1, SimulateAnswer
  <2>5. CASE row[k] = "running"
    <3>1. pc[k] \in {"lost", "died"}
      BY <2>1, <2>3, <2>5 DEF PendingOf, Recorded
    <3>2. v = "interrupted" /\ OutcomeOf(k) = "lost"
      BY <2>3, <2>5, <3>1 DEF RecoveryVerdict, CaseOf
    <3> HIDE DEF k, v
    <3>3. QED
      BY <1>0, <2>1, <2>2, <3>2, SimulateAnswer
  <2>6. CASE row[k] \in {"succeeded", "failed"}
    <3>1. \/ v = "done" /\ OutcomeOf(k) = "done"
          \/ v = "failed" /\ OutcomeOf(k) = "failed"
      BY <2>3, <2>6 DEF RecoveryVerdict, CaseOf
    <3> HIDE DEF k, v
    <3>2. QED
      BY <1>0, <2>1, <2>2, <3>1, SimulateAnswer
  <2>7. QED
    BY <2>3, <2>4, <2>5, <2>6 DEF RowStatus
<1>4. QED
  BY <1>1, <1>2, <1>3 DEF StreamStep, EndStream, AwaitEvent, Wake, KeepAlive, ResumeReading,
                          Disconnect, Subscribe

LEMMA SimulateRestart ==
    ASSUME Working, CaseInv, CaseInv', Restart
    PROVE  Promise!Interrupt
<1> DEFINE gone == {j \in Jobs : row[j] = "none" /\ pc[j] # "none"}
           out  == [j \in Jobs |-> OutcomeOf(j)]
<1>1. /\ \A j \in Jobs : pc'[j] = IF pc[j] = "none" THEN "none" ELSE "lost"
      /\ UNCHANGED <<row, reports, told>>
  BY DEF Restart, Working
<1>2. ASSUME NEW j \in Jobs
      PROVE  /\ j \in gone => OutcomeOf(j) = "pending" \/ j \in Dropped
             /\ OutcomeOf(j)' = IF j \in gone THEN "forgotten"
                                ELSE IF OutcomeOf(j) = "pending" THEN "lost"
                                ELSE OutcomeOf(j)
  <2>1. /\ row[j] \in RowStatus /\ PendingOf(j) /\ CaseOf(j)
        /\ CaseOf(j)'
    BY DEF CaseInv
  <2>2. CASE row[j] = "none" /\ pc[j] # "none"
    <3>1. pc[j] = "recordStart" \/ j \in Dropped
      BY <2>2 DEF Dropped
    <3>2. OutcomeOf(j)' = "forgotten"
      BY <1>1, <2>1, <2>2 DEF CaseOf
    <3>3. QED
      BY <2>1, <2>2, <3>1, <3>2 DEF CaseOf
  <2>3. CASE pc[j] = "none"
    BY <1>1, <2>1, <2>3 DEF CaseOf
  <2>4. CASE row[j] # "none" /\ pc[j] # "none"
    BY <1>1, <2>1, <2>4 DEF CaseOf, RowStatus
  <2>5. QED
    BY <2>2, <2>3, <2>4
<1>3. Dropped' = Dropped \cup gone
  BY <1>1 DEF Dropped
<1>4. out' = [j \in Jobs |-> IF j \in gone THEN "forgotten"
                             ELSE IF out[j] = "pending" THEN "lost"
                             ELSE out[j]]
  BY <1>2
<1>5. gone \in SUBSET {j \in Jobs : out[j] = "pending" \/ j \in Dropped}
  BY <1>2
<1> HIDE DEF gone, out
<1>6. \E gone_1 \in SUBSET {j \in Jobs : out[j] = "pending" \/ j \in Dropped} :
         /\ out' = [j \in Jobs |-> IF j \in gone_1 THEN "forgotten"
                                   ELSE IF out[j] = "pending" THEN "lost"
                                   ELSE out[j]]
         /\ Dropped' = Dropped \cup gone_1
  BY <1>3, <1>4, <1>5
<1>7. QED
  BY <1>1, <1>6 DEF out, Promise!Interrupt, Outcome

LEMMA PromiseStep ==
    ASSUME Promising, PromiseInv, PromiseInv', [Next]_vars
    PROVE  [Promise!Next]_(Promise!vars)
<1>0. Working /\ CaseInv /\ CaseInv'
  BY Cases, CasesNext DEF Promising
<1>1. CASE Restart
  BY <1>0, <1>1, SimulateRestart DEF Promise!Next
<1>2. ASSUME NEW j \in Jobs, Submit(j) PROVE Promise!Next
  BY <1>0, <1>2, SimulateSubmit DEF Promise!Next, PromiseInv
<1>3. ASSUME NEW j \in Jobs, RequestStep(j) PROVE [Promise!Next]_(Promise!vars)
  BY <1>0, <1>3, SimulateRequest DEF Promise!Next
<1>4. ASSUME NEW j \in Jobs, RunnerStep(j) PROVE [Promise!Next]_(Promise!vars)
  BY <1>0, <1>4, SimulateRunner DEF Promise!Next
<1>5. ASSUME NEW j \in Jobs, Age(j) \/ Expire(j) PROVE UNCHANGED Promise!vars
  <2>1. UNCHANGED <<pc, row, events, reports, told>>
    BY <1>5 DEF Age, Expire, jobVars, storeVars
  <2>2. QED
    BY <2>1, Unmoved, PromiseStutters
<1>6. ASSUME NEW c \in Clients,
             StreamStep(c) \/ KeepAlive(c) \/ Disconnect(c) \/ \E j \in Jobs : Subscribe(c, j)
      PROVE  [Promise!Next]_(Promise!vars)
  BY <1>0, <1>6, SimulateStream DEF Promise!Next
<1>7. CASE UNCHANGED vars
  <2>1. UNCHANGED <<pc, row, events, reports, told>>
    BY <1>7 DEF vars, jobVars, storeVars
  <2>2. QED
    BY <2>1, Unmoved, PromiseStutters
<1>8. QED
  BY <1>1, <1>2, <1>3, <1>4, <1>5, <1>6, <1>7 DEF Next

\* With a database, bookkeeping that works and no run that outlives retention, the
\* endpoints keep the promise of JobOutcome across restarts: one outcome, decided
\* once, told to everyone until its record is dropped (analyse_*, _analyse, _fail,
\* recovered, record_started, _sweep).
THEOREM PromiseIsKept == Promising /\ Spec => KeepsPromise
<1>1. Init => PromiseInv /\ Promise!Init
  <2>1. Init => ManagedInv
    BY DEF Init, ManagedInv, ManagedOf, Posting, Running, RunStages, Settling, Idle, NewStream
  <2>2. Init => BookedInv /\ RecordedInv
    BY DEF Init, BookedInv, BookedOf, RecordedInv, Idle, NewStream
  <2>3. Init => Promise!Init
    BY DEF Init, Promise!Init, Outcome, OutcomeOf, Dropped
  <2>4. QED
    BY <2>1, <2>2, <2>3, TypeInit, LogInit, SavedInit DEF PromiseInv
<1>2. Promising /\ PromiseInv /\ [Next]_vars => PromiseInv'
  BY TypeNext, LogNext, SavedNext, RecordedNext, BookedNext, ManagedNext DEF PromiseInv, Promising
<1>3. Promising /\ PromiseInv /\ PromiseInv' /\ [Next]_vars => [Promise!Next]_(Promise!vars)
  BY PromiseStep
<1>4. Promising => []Promising
  <2>1. Promising => Promising'
    BY DEF Promising, Working
  <2>2. QED
    BY <2>1, PTL
<1>5. QED
  BY <1>1, <1>2, <1>3, <1>4, PTL DEF Spec, KeepsPromise, Promise!Spec

-----------------------------------------------------------------------------
(* What the promise amounts to.  This is an argument about the actions of   *)
(* JobOutcome alone: nothing the service does is looked at.                *)
Decided == [o \in Promise!Settled |-> IF o = "lost" THEN "interrupted" ELSE o]

\* Before it is decided nothing is said of a job, afterwards one thing, and a
\* forgotten job is one of the two that nothing more is said of.
SaidInv ==
    /\ Outcome \in [Jobs -> Promise!Outcomes]
    /\ told \in [Jobs -> SUBSET Promise!Told]
    /\ \A j \in Jobs : Outcome[j] \in {"absent", "pending"} => told[j] \subseteq {"unknown"}
    /\ \A j \in Jobs : Outcome[j] \in Promise!Settled => told[j] \subseteq {"unknown", Decided[Outcome[j]]}
    /\ Promise!OneOutcome

\* "done" is decided, and said, only of jobs that are saved.
HadInv ==
    /\ \A j \in Jobs : Outcome[j] = "done" => j \in reports
    /\ Promise!DoneIsSaved

LEMMA SaidInit == Promise!Init => SaidInv
  BY DEF Promise!Init, SaidInv, Promise!Outcomes, Promise!Told, Promise!Settled, Promise!OneOutcome

LEMMA HadInit == Promise!Init => HadInv
  BY DEF Promise!Init, HadInv, Promise!DoneIsSaved

LEMMA SaidStep == SaidInv /\ [Promise!Next]_(Promise!vars) => SaidInv'
  <1> SUFFICES ASSUME SaidInv, [Promise!Next]_(Promise!vars) PROVE SaidInv'
    OBVIOUS
  <1>1. ASSUME NEW j \in Jobs, Promise!Accept(j) PROVE SaidInv'
    BY <1>1 DEF Promise!Accept, SaidInv, Promise!Outcomes, Promise!Settled, Promise!OneOutcome
  <1>2. ASSUME NEW j \in Jobs, Promise!Save(j) PROVE SaidInv'
    BY <1>2 DEF Promise!Save, SaidInv, Promise!OneOutcome
  <1>3. ASSUME NEW j \in Jobs, Promise!Settle(j) PROVE SaidInv'
    BY <1>3 DEF Promise!Settle, SaidInv, Promise!Outcomes, Promise!Settled, Promise!OneOutcome
  <1>4. ASSUME NEW j \in Jobs, Promise!Answer(j) PROVE SaidInv'
    <2>1. PICK v \in Promise!Answers(j) : told' = [told EXCEPT ![j] = @ \cup {v}]
      BY <1>4 DEF Promise!Answer
    <2>2. UNCHANGED Outcome
      BY <1>4 DEF Promise!Answer
    <2>3. v = "unknown" \/ (Outcome[j] \in Promise!Settled /\ v = Decided[Outcome[j]])
      BY <2>1 DEF Promise!Answers, Promise!Settled, Decided, SaidInv
    <2>4. v \in Promise!Told
      BY <2>3 DEF Promise!Told, Promise!Settled, Decided
    <2>5. \A i \in Jobs \ {j} : told'[i] = told[i]
      BY <2>1 DEF SaidInv
    <2>6. told'[j] = told[j] \cup {v} /\ told' \in [Jobs -> SUBSET Promise!Told]
      BY <2>1, <2>4 DEF SaidInv
    <2>7. \A i \in Jobs : Outcome[i] \in Promise!Settled =>
                             told'[i] \subseteq {"unknown", Decided[Outcome[i]]}
      BY <2>3, <2>5, <2>6 DEF SaidInv
    <2>8. \A i \in Jobs : Outcome[i] \in {"absent", "pending"} => told'[i] \subseteq {"unknown"}
      BY <2>3, <2>5, <2>6 DEF SaidInv, Promise!Settled
    <2>9. \A i \in Jobs : \A u, w \in told'[i] \ {"unknown"} : u = w
      <3>1. CASE Outcome[j] \in Promise!Settled
        BY <3>1, <2>5, <2>7 DEF SaidInv, Promise!OneOutcome
      <3>2. CASE Outcome[j] \notin Promise!Settled
        BY <3>2, <2>3, <2>5, <2>6 DEF SaidInv, Promise!OneOutcome
      <3> QED BY <3>1, <3>2
    <2> QED BY <2>2, <2>6, <2>7, <2>8, <2>9 DEF SaidInv, Promise!OneOutcome
  <1>5. CASE Promise!Interrupt
    <2>1. UNCHANGED told
      BY <1>5 DEF Promise!Interrupt
    <2>2. Outcome' \in [Jobs -> Promise!Outcomes]
      BY <1>5 DEF Promise!Interrupt, SaidInv, Promise!Outcomes
    <2>3. \A j \in Jobs : Outcome'[j] \in {Outcome[j], "forgotten"}
                          \/ (Outcome[j] = "pending" /\ Outcome'[j] = "lost")
      BY <1>5 DEF Promise!Interrupt, SaidInv
    <2> QED BY <2>1, <2>2, <2>3 DEF SaidInv, Promise!OneOutcome, Promise!Settled
  <1>6. CASE Promise!Forget
    <2>1. UNCHANGED told
      BY <1>6 DEF Promise!Forget
    <2>2. Outcome' \in [Jobs -> Promise!Outcomes]
      BY <1>6 DEF Promise!Forget, SaidInv, Promise!Outcomes
    <2>3. \A j \in Jobs : Outcome'[j] \in {Outcome[j], "forgotten"}
      BY <1>6 DEF Promise!Forget, SaidInv
    <2> QED BY <2>1, <2>2, <2>3 DEF SaidInv, Promise!OneOutcome, Promise!Settled
  <1>7. ASSUME NEW j \in Jobs, Promise!Abandon(j) PROVE SaidInv'
    BY <1>7 DEF Promise!Abandon, SaidInv, Promise!Outcomes, Promise!Settled, Promise!OneOutcome
  <1>8. CASE UNCHANGED Promise!vars
    BY <1>8 DEF Promise!vars, SaidInv, Promise!OneOutcome
  <1> QED BY <1>1, <1>2, <1>3, <1>4, <1>5, <1>6, <1>7, <1>8 DEF Promise!Next

LEMMA HadStep == SaidInv /\ HadInv /\ [Promise!Next]_(Promise!vars) => HadInv'
  <1> SUFFICES ASSUME SaidInv, HadInv, [Promise!Next]_(Promise!vars) PROVE HadInv'
    OBVIOUS
  <1>1. ASSUME NEW j \in Jobs, Promise!Accept(j) \/ Promise!Save(j) \/ Promise!Settle(j) PROVE HadInv'
    BY <1>1 DEF Promise!Accept, Promise!Save, Promise!Settle, SaidInv, HadInv, Promise!DoneIsSaved
  <1>2. ASSUME NEW j \in Jobs, Promise!Answer(j) PROVE HadInv'
    BY <1>2 DEF Promise!Answer, Promise!Answers, SaidInv, HadInv, Promise!DoneIsSaved
  <1>3. CASE Promise!Interrupt \/ Promise!Forget
    BY <1>3 DEF Promise!Interrupt, Promise!Forget, SaidInv, HadInv, Promise!DoneIsSaved
  <1>4. ASSUME NEW j \in Jobs, Promise!Abandon(j) PROVE HadInv'
    BY <1>4 DEF Promise!Abandon, SaidInv, HadInv, Promise!DoneIsSaved
  <1>5. CASE UNCHANGED Promise!vars
    BY <1>5 DEF Promise!vars, HadInv, Promise!DoneIsSaved
  <1> QED BY <1>1, <1>2, <1>3, <1>4, <1>5 DEF Promise!Next

\* Nobody is told two different outcomes of the same job, in any behaviour that
\* keeps the promise.
THEOREM PromiseMeansOneOutcome == KeepsPromise => []VerdictsAgree
  <1>1. SaidInv => VerdictsAgree
    BY DEF SaidInv, VerdictsAgree
  <1> QED BY <1>1, SaidInit, SaidStep, PTL DEF KeepsPromise, Promise!Spec

\* Whoever is told "done", in any behaviour that keeps the promise, can have the
\* report.
THEOREM PromiseMeansSaved == KeepsPromise => []Promise!DoneIsSaved
  <1>1. HadInv => Promise!DoneIsSaved
    BY DEF HadInv
  <1> QED BY <1>1, SaidInit, SaidStep, HadInit, HadStep, PTL DEF KeepsPromise, Promise!Spec

\* So no two clients, whenever they ask and whatever was restarted in between, are
\* told different outcomes of one job (generate, recovered).
THEOREM NobodyContradicted == Promising /\ Spec => []VerdictsAgree
  BY PromiseIsKept, PromiseMeansOneOutcome, PTL

\* And whoever is told "done" can have the report (generate, SaveReport).
THEOREM DoneIsHad == Promising /\ Spec => []Promise!DoneIsSaved
  BY PromiseIsKept, PromiseMeansSaved, PTL
=============================================================================
