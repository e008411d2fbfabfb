SPECIFICATION Spec
CONSTANTS
    o1 = o1
    o2 = o2
    o3 = o3
    w1 = w1
    w2 = w2
    u1 = u1
    u2 = u2
    k1 = k1
    NoIntent = NoIntent
    NoWorker = NoWorker
    NoTarget = NoTarget
    NotLoaded = NotLoaded
    Orders <- MCOrders
    Products <- MCProducts
    Users <- OneUser
    Owner <- AllOfOne
    Intent <- FirstKeyed
    Restocks <- SmallRestocks
    Workers <- TwoWorkers
    Qty <- BothOrders
    InitialStock <- Ample
    Kinds <- CreateCancelPay
    LockRefreshes = FALSE
PROPERTIES
    CancelledIsFinal
