\* Two jobs, so that submitting one sweeps the other out of memory and out of
\* the table; bookkeeping works and no run outlives its retention.
CONSTANTS
    Jobs = {j1, j2}
    Clients = {c1}
    NoJob = NoJob
    Kinds = {"repository", "upload"}
    Rules = 0
    HasDatabase = TRUE
    Faults = {"restart", "storage", "workspace"}
SPECIFICATION Spec
INVARIANTS
    OutcomeRecordedFirst
    UnknownMeansExpired
PROPERTIES
    KeepsPromise
