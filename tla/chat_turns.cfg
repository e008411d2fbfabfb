SPECIFICATION Spec
CONSTANTS
    Things = {t1, t2}
    Nothing = Nothing
    Alike <- MCAlike
    MaxOps <- MCMaxOps
INVARIANTS
    TypeOK
    WritesAsked
PROPERTIES
    UnknownEndsTurn
    TypedNewest
SYMMETRY Symmetry
