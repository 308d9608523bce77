\* No workspace can be made for a repository: its task dies, its log stays open.
CONSTANTS
    Jobs = {j1}
    Clients = {c1}
    NoJob = NoJob
    Kinds = {"repository"}
    Rules = 1
    HasDatabase = TRUE
    Faults = {"workspace"}
SPECIFICATION FairSpec
PROPERTIES
    NoSpinnerForEver
