----------------------------- MODULE MCChatTurn -----------------------------
(* A small instance of ChatTurn: all names share a word; two confirmations  *)
(* where a conversation is about orders, one where it is about buying.      *)
EXTENDS ChatTurn, TLC

MCAlike == Things \X Things
MCMaxOps == [buying |-> 1, adding |-> 0, cart |-> 0, order |-> 2]
Symmetry == Permutations(Things)
=============================================================================
