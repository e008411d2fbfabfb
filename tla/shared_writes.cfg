SPECIFICATION Spec
CONSTANTS
    t1 = t1
    h1 = h1
    h2 = h2
    Idle = Idle
    Tokens <- OneToken
    Offered <- AllWrites
    Handlers <- TwoHandlers
    Exclusive = FALSE
    Reconfigures = TRUE
SYMMETRY HandlerSymmetry
INVARIANTS
    TypeOK
    SentOnce
    JournalTruthful
    AnswersTruthful
PROPERTIES
    VerdictIsFinal
    ImplementsPromise
