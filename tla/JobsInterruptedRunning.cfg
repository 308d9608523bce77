\* A run that outlives the retention of its event log.
CONSTANTS
    Jobs = {j1, j2}
    Clients = {c1}
    NoJob = NoJob
    Kinds = {"upload"}
    Rules = 0
    HasDatabase = TRUE
    Faults = {"slow"}
SPECIFICATION Spec
INVARIANTS
    InterruptedMeansNotRunning
