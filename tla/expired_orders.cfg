SPECIFICATION FairSpec
CONSTANTS
    s1 = s1
    s2 = s2
    Nobody = Nobody
    Orders <- MCOrders
    Instances <- TwoInstances
    BatchSize = 2
    Broken <- FirstBroken
    MaxFaults = 1
INVARIANTS
    TypeOK
    ReleasedOnce
PROPERTIES
    PaidIsKept
    OnlyExpiredCancelled
    RoundsAreAtomic
    OthersNotAffected
    RoundsEnd
