\* Arbitrary headers and bodies, malloc may fail.
CONSTANTS
    WordMax = 3
    Version = 1
    Types = {1, 2}
    NONE = 0
    Malloc = {"memory", "null"}
    MaxBody = 21
    MaxFields = 0
    MaxEntries = 0
    MaxSize = 0
    Headers <- AnyHeaders
    Packets <- NoPackets
SPECIFICATION Spec
INVARIANT LinkedFieldsAlive
CHECK_DEADLOCK FALSE
