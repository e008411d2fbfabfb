SPECIFICATION Spec
CONSTANTS
    o1 = o1
    o2 = o2
    o3 = o3
    w1 = w1
    w2 = w2
    u1 = u1
    u2 = u2
    k1 = k1
    NoIntent = NoIntent
    NoWorker = NoWorker
    NoTarget = NoTarget
    NotLoaded = NotLoaded
    Orders <- MCOrders
    Products <- OneProduct
    Users <- OneUser
    Owner <- AllOfOne
    Intent <- FirstKeyed
    Restocks <- SmallRestocks
    Workers <- TwoWorkers
    Qty <- SameProduct
    InitialStock <- OnePiece
    Kinds <- AdminTraffic
    LockRefreshes = FALSE
SYMMETRY WorkerSymmetry
INVARIANTS
    TypeOK
    StockNotNegative
PROPERTIES
    RestoreOnlyWithCancel
    CreationTakesStock
    RevivedByStaleCopies
    RequestsAreAtomic
