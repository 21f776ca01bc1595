\* Two threads in query while the file is edited twice in three seconds.
CONSTANTS
    Threads = {t1, t2}
    Texts <- MCTexts
    Bad = Bad
    Cut = Cut
    Current = Current
    p1 = p1
    p2 = p2
    MaxEdits = 2
    MaxTime = 3
    MallocFails = TRUE
    NULL = NULL
SPECIFICATION FairSpec
INVARIANTS
    TypeOK
    OneReading
    Fresh
    ConfigurationStays
PROPERTIES
    LockGivenBack
