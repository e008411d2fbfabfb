SPECIFICATION FairSpec
CONSTANTS
    c1 = c1
    c2 = c2
    c3 = c3
    Nobody = Nobody
    Callers <- MCCallers
    Threshold = 2
    HalfOpenMax = 2
INVARIANTS
    TypeOK
    TripsAtThreshold
    SlotsAccounted
PROPERTIES
    HalfOpenDecides
CHECK_DEADLOCK FALSE
