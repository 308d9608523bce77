\* Two uploads that prune at the same time.
CONSTANTS
    small = small
    other = other
    big = big
    Uploads = {small, other, big}
    SizeOf <- SameSize
    Budget = 1
    MayFail = FALSE
SPECIFICATION Spec
INVARIANTS
    NewestIsKept
CHECK_DEADLOCK FALSE
