\* Three threads, one call each, any operation on the fields or on the entries.
CONSTANTS
    Threads = {t1, t2, t3}
    MaxCalls = 1
    Types = {1, 2}
    WordMax = 2
    Malloc = {"memory", "null"}
    Reorder = FALSE
    First = First
    NULL = NULL
SYMMETRY ThreadSymmetry
SPECIFICATION Spec
INVARIANTS
    TypeOK
    ForwardChain
    BackwardChain
    TypesUnique
    NeverGetsHere
    FoundAtOffset
    FoundByType
    LockHeldInCall
CHECK_DEADLOCK FALSE
