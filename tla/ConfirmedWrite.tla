--------------------------- MODULE ConfirmedWrite ---------------------------
(***************************************************************************)
(* What the agent service promises of a write it asks the user to confirm: *)
(* the write is offered, taken by one confirmation, committed to by one    *)
(* executor, sent at most once, and concluded with a verdict that is true  *)
(* of the business backend.  OperationJournal implements it.               *)
(***************************************************************************)
CONSTANTS Tokens

VARIABLES phase,    \* how far each confirmation got
          effect,   \* what became of its one write request
          held      \* has the state it aims at ever held at the backend?

vars == <<phase, effect, held>>

Phases  == {"absent", "offered", "taken", "committed", "executed", "notDone", "forgotten"}
Effects == {"unsent", "sent", "applied", "refused", "ignored", "lost"}

Init ==
    /\ phase = [t \in Tokens |-> "absent"]
    /\ effect = [t \in Tokens |-> "unsent"]
    /\ held = [t \in Tokens |-> FALSE]

Move(t, from, to) ==
    /\ phase[t] \in from
    /\ phase' = [phase EXCEPT ![t] = to]
    /\ UNCHANGED <<effect, held>>

Offer(t)  == Move(t, {"absent"}, "offered")
Take(t)   == Move(t, {"offered"}, "taken")
Commit(t) == Move(t, {"taken"}, "committed")
Forget(t) == Move(t, {"executed", "notDone"}, "forgotten")

\* A success is declared only of a state that has held ...
Succeed(t) == held[t] /\ Move(t, {"committed"}, "executed")

\* ... a failure only of a write that is not, and will not be, applied.
Decline(t) ==
    \/ Move(t, {"offered", "taken"}, "notDone")
    \/ effect[t] \in {"unsent", "refused", "ignored"} /\ Move(t, {"committed"}, "notDone")

\* The one request leaves.  Its executor may have been overtaken by somebody
\* who found the aim already reached.
Send(t) ==
    /\ phase[t] \in {"committed", "executed"}
    /\ effect[t] = "unsent"
    /\ effect' = [effect EXCEPT ![t] = "sent"]
    /\ UNCHANGED <<phase, held>>

Arrive(t, fate) ==
    /\ effect[t] = "sent"
    /\ effect' = [effect EXCEPT ![t] = fate]
    /\ held' = [held EXCEPT ![t] = held[t] \/ fate = "applied"]
    /\ UNCHANGED phase

\* Other clients of the backend may bring about the same state.
ReachedByOthers(t) ==
    /\ held' = [held EXCEPT ![t] = TRUE]
    /\ UNCHANGED <<phase, effect>>

TokenStep(t) ==
    \/ Offer(t) \/ Take(t) \/ Commit(t) \/ Forget(t) \/ Succeed(t) \/ Decline(t)
    \/ Send(t) \/ ReachedByOthers(t)
    \/ \E fate \in {"applied", "refused", "ignored", "lost"} : Arrive(t, fate)

\* Sweeps (clearing a conversation, the hourly maintenance) decline or forget
\* several at once, always for a reason that holds of each.
Swept(p) == IF p = "offered" THEN "notDone" ELSE "forgotten"

Sweep(S) ==
    /\ \A t \in S : phase[t] \in {"offered", "executed", "notDone"}
    /\ phase' = [t \in Tokens |-> IF t \notin S THEN phase[t] ELSE Swept(phase[t])]
    /\ UNCHANGED <<effect, held>>

Next ==
    \/ \E t \in Tokens : TokenStep(t)
    \/ \E S \in SUBSET Tokens : Sweep(S)

Spec == Init /\ [][Next]_vars
=============================================================================
