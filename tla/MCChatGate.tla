----------------------------- MODULE MCChatGate -----------------------------
(* A small instance of ChatGate: three requests, room for two at a time.    *)
EXTENDS ChatGate, TLC

CONSTANTS r1, r2, r3

Three == {r1, r2, r3}
TheFirst == {r1}

\* Requests that are not watched differ in nothing but their name.
Symmetry == Permutations(Requests \ Watched)
=============================================================================
