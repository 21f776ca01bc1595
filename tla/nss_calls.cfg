\* Two threads in lookups and enumerations of both databases.
CONSTANTS
    Threads = {t1, t2}
    Databases = {"passwd", "aliases"}
    Sent = {"NAME", "GECOS", "MEMBERS", "LOCAL"}
    Raw = {"LOCAL"}
    Sizes = {2}
    BufferSizes = {4, 6}
    PointerSize = 2
    WordMax = 1
    Gecos = FALSE
    MaxCallers = 1
    MaxOffset = 2
    MaxFields = 2
    MaxMembers = 2
    NULL = NULL
SYMMETRY ThreadSymmetry
SPECIFICATION Spec
INVARIANTS
    TypeOK
    RegionsInBuffer
    EnumerationExact
    SuccessIsWhole
    SlotsInArray
    RangeMeansTooSmall
CHECK_DEADLOCK FALSE
