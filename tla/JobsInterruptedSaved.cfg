\* A restart between the save and the record of it.
CONSTANTS
    Jobs = {j1}
    Clients = {c1}
    NoJob = NoJob
    Kinds = {"upload"}
    Rules = 0
    HasDatabase = TRUE
    Faults = {"restart"}
SPECIFICATION Spec
INVARIANTS
    InterruptedMeansNothingSaved
