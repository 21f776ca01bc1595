\* Arbitrary headers and bodies, and the bodies serialize writes for packets
\* built through the API; malloc may fail.
CONSTANTS
    WordMax = 3
    Version = 1
    Types = {1, 2, 3}
    NONE = 0
    Malloc = {"memory", "null"}
    MaxBody = 21
    MaxFields = 3
    MaxEntries = 2
    MaxSize = 2
    Headers <- AnyHeaders
    Packets <- BuiltPackets
SPECIFICATION FairSpec
INVARIANTS
    TypeOK
    EntriesWithinBody
    StoredRangesDisjoint
    ReadOverhangBounded
    TypesUnique
    NothingSkipped
    RoundTrip
PROPERTY Terminates
CHECK_DEADLOCK FALSE
