------------------------- MODULE MCOperationJournal -------------------------
(* Small instances of OperationJournal for TLC. *)
EXTENDS OperationJournal, TLC

CONSTANTS t1, h1, h2

OneToken  == {t1}
OneHandler  == {h1}
TwoHandlers == {h1, h2}

AllWrites   == Classes
OnlyOrders  == {"order"}

\* Handlers differ in nothing but their name.
HandlerSymmetry == Permutations(Handlers)
=============================================================================
