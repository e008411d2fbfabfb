------------------------- MODULE MCTimeoutScheduler -------------------------
(* A small instance of TimeoutScheduler for TLC. *)
EXTENDS TimeoutScheduler, TLC

CONSTANTS s1, s2

MCOrders == 1..3
TwoInstances == {s1, s2}

\* The order that expires first cannot be cancelled; one place in the batch
\* is left.
FirstBroken == {1}
=============================================================================
