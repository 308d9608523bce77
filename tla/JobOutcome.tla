----------------------------- MODULE JobOutcome -----------------------------
(***************************************************************************)
(* What the job endpoints promise whoever holds a job id: a job has one    *)
(* outcome, it is decided once, and everyone who asks is told that outcome *)
(* until the record of it is dropped.  AnalysisJobs implements this when   *)
(* there is a database, its bookkeeping writes succeed and no run outlives *)
(* the retention of its event log; restarts are allowed at any moment.     *)
(***************************************************************************)
CONSTANT Jobs

VARIABLES
    outcome,  \* what became of the job
    dropped,  \* jobs whose record is past retention, or was never made
    saved,    \* jobs whose report is in the report store
    told      \* every verdict anyone was told about the job

vars == <<outcome, dropped, saved, told>>

Outcomes == {"absent", "pending", "done", "failed", "lost", "forgotten"}
Settled == {"done", "failed", "lost"}
Told == {"done", "failed", "interrupted", "unknown"}

\* What may be said of a job: how it ended, or that there is no record of it.
Answers(j) ==
    (CASE outcome[j] = "done"   -> {"done"}
       [] outcome[j] = "failed" -> {"failed"}
       [] outcome[j] = "lost"   -> {"interrupted"}
       [] OTHER                 -> {})
    \cup (IF j \in dropped THEN {"unknown"} ELSE {})

Init ==
    /\ outcome = [j \in Jobs |-> "absent"]
    /\ dropped = {}
    /\ saved = {}
    /\ told = [j \in Jobs |-> {}]

Accept(j) ==
    /\ outcome[j] = "absent"
    /\ outcome' = [outcome EXCEPT ![j] = "pending"]
    /\ UNCHANGED <<dropped, saved, told>>

Save(j) ==
    /\ outcome[j] = "pending"
    /\ saved' = saved \cup {j}
    /\ UNCHANGED <<outcome, dropped, told>>

Settle(j) ==
    /\ outcome[j] = "pending"
    /\ \E o \in {"done", "failed"} :
          /\ o = "done" => j \in saved
          /\ outcome' = [outcome EXCEPT ![j] = o]
    /\ UNCHANGED <<dropped, saved, told>>

\* A restart: what was undecided stays undecided for good, unless its start was
\* never recorded; what was only remembered in memory is forgotten.
Interrupt ==
    /\ \E gone \in SUBSET {j \in Jobs : outcome[j] = "pending" \/ j \in dropped} :
          /\ outcome' = [j \in Jobs |-> IF j \in gone THEN "forgotten"
                                        ELSE IF outcome[j] = "pending" THEN "lost"
                                        ELSE outcome[j]]
          /\ dropped' = dropped \cup gone
    /\ UNCHANGED <<saved, told>>

\* The run comes to nothing and nobody notes it: the same, for one job.
Abandon(j) ==
    /\ outcome[j] = "pending"
    /\ outcome' = [outcome EXCEPT ![j] = "lost"]
    /\ UNCHANGED <<dropped, saved, told>>

\* Records past retention are dropped; a log still in memory can outlast them.
Forget ==
    /\ \E old \in SUBSET {j \in Jobs : outcome[j] \in Settled} :
          /\ dropped' = dropped \cup old
          /\ \E gone \in SUBSET old :
                outcome' = [j \in Jobs |-> IF j \in gone THEN "forgotten" ELSE outcome[j]]
    /\ UNCHANGED <<saved, told>>

Answer(j) ==
    /\ \E v \in Answers(j) : told' = [told EXCEPT ![j] = @ \cup {v}]
    /\ UNCHANGED <<outcome, dropped, saved>>

Next ==
    \/ \E j \in Jobs : Accept(j) \/ Save(j) \/ Settle(j) \/ Abandon(j) \/ Answer(j)
    \/ Interrupt
    \/ Forget

Spec == Init /\ [][Next]_vars

\* Nobody is told two different outcomes of the same job; "unknown" only says
\* that the record is gone.
OneOutcome ==
    \A j \in Jobs : \A v, w \in told[j] \ {"unknown"} : v = w

\* Whoever was told that a report exists can have it.
DoneIsSaved == \A j \in Jobs : "done" \in told[j] => j \in saved
=============================================================================
