SPECIFICATION Spec
CONSTANTS
    t1 = t1
    h1 = h1
    h2 = h2
    Idle = Idle
    Tokens <- OneToken
    Offered <- OnlyOrders
    Handlers <- OneHandler
    Exclusive = TRUE
    Reconfigures = TRUE
INVARIANTS
    AbandonedIsUnsent
