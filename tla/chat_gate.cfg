SPECIFICATION Spec
CONSTANTS
    r1 = r1
    r2 = r2
    r3 = r3
    Nobody = Nobody
    Requests <- Three
    Watched <- TheFirst
    MaxConcurrent = 2
    MaxMessages = 5
    Threshold = 3
    KeepRaw = 1
SYMMETRY Symmetry
CHECK_DEADLOCK FALSE
INVARIANTS
    TypeOK
    OneAtATime
    NothingLeaks
PROPERTIES
    NotesKept
    SummariesKept
    ClearedStaysCleared
