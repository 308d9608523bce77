\* Three uploads of two sizes, any of which may fail or be deleted.
CONSTANTS
    small = small
    other = other
    big = big
    Uploads = {small, other, big}
    SizeOf <- MCSizeOf
    Budget = 2
    MayFail = TRUE
SPECIFICATION Spec
SYMMETRY SmallSymmetry
INVARIANTS
    FitsWhenQuiet
    DeleteTakesSource
PROPERTIES
    PruneIsExact
CHECK_DEADLOCK FALSE
