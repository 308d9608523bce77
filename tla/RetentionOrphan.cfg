\* A report that is deleted while its source is being stored.
CONSTANTS
    small = small
    other = other
    big = big
    Uploads = {small, other, big}
    SizeOf <- MCSizeOf
    Budget = 4
    MayFail = FALSE
SPECIFICATION Spec
INVARIANTS
    NothingOrphaned
CHECK_DEADLOCK FALSE
