\* The stores of a writer become visible in any order to a reader without lock.
CONSTANTS
    Threads = {t1, t2}
    MaxCalls = 1
    Types = {1, 2}
    WordMax = 2
    Malloc = {"memory"}
    Reorder = TRUE
    First = First
    NULL = NULL
SPECIFICATION Spec
INVARIANT NeverGetsHere
CHECK_DEADLOCK FALSE
