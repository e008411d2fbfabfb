SPECIFICATION Spec
CONSTANTS
    Things = {t1, t2}
    Nothing = Nothing
    Alike <- MCAlike
    MaxOps <- MCMaxOps
INVARIANTS
    DenialsObeyed
