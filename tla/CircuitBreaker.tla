--------------------------- MODULE CircuitBreaker ---------------------------
(***************************************************************************)
(* AsyncCircuitBreaker (circuit_breaker.py), which guards the calls of the *)
(* language model.  Callers are the tasks inside `call`; each may be       *)
(* cancelled at an await (60 s request budget, client gone), and a         *)
(* CancelledError is not an Exception: no handler of `call` sees it.       *)
(***************************************************************************)
EXTENDS Naturals, FiniteSets

CONSTANTS
    Callers,        \* tasks that may call at the same time
    Threshold,      \* failure_threshold
    HalfOpenMax,    \* half_open_max_calls
    Nobody          \* owner of the free lock

ASSUME BreakerAssumption ==
    /\ Threshold \in Nat \ {0}
    /\ HalfOpenMax \in Nat \ {0}
    /\ Nobody \notin Callers

VARIABLES
    state,      \* closed, open or half_open
    failures,   \* _failure_count, which matters up to Threshold only
    slots,      \* _half_open_calls
    elapsed,    \* has the recovery timeout passed since it opened?
    lock,       \* the asyncio.Lock, while its owner awaits the alert webhook
    pc,         \* where each caller is
    probing,    \* callers let through by the present half-open state
    lost        \* how many more it let through, which were cancelled

vars == <<state, failures, slots, elapsed, lock, pc, probing, lost>>

States == {"closed", "open", "half_open"}
Steps  == {"idle", "calling", "succeeded", "failed", "alerting"}

TypeOK ==
    /\ state \in States
    /\ failures \in 0..Threshold
    /\ slots \in 0..HalfOpenMax
    /\ elapsed \in BOOLEAN
    /\ lock \in Callers \cup {Nobody}
    /\ pc \in [Callers -> Steps]
    /\ probing \subseteq Callers
    /\ lost \in 0..HalfOpenMax

Init ==
    /\ state = "closed"
    /\ failures = 0
    /\ slots = 0
    /\ elapsed = FALSE
    /\ lock = Nobody
    /\ pc = [c \in Callers |-> "idle"]
    /\ probing = {}
    /\ lost = 0

Free == lock = Nobody
Goto(c, step) == pc' = [pc EXCEPT ![c] = step]
OneMore == IF failures < Threshold THEN failures + 1 ELSE failures

-----------------------------------------------------------------------------
(* Admission.  A refused call raises CircuitBreakerOpenError and changes    *)
(* nothing.                                                                 *)

Admit(c) ==
    /\ pc[c] = "idle" /\ Free
    /\ state = "closed"
    /\ Goto(c, "calling")
    /\ UNCHANGED <<state, failures, slots, elapsed, lock, probing, lost>>

\* Mutant of StartProbing: the slots of the last half-open state still count.
StartWithOldSlots(c) ==
    /\ pc[c] = "idle" /\ Free
    /\ state = "open" /\ elapsed /\ slots < HalfOpenMax
    /\ state' = "half_open"
    /\ slots' = slots + 1
    /\ probing' = {c}
    /\ lost' = 0
    /\ Goto(c, "calling")
    /\ UNCHANGED <<failures, elapsed, lock>>

\* The first call after the timeout turns the breaker half-open and probes.
StartProbing(c) ==
    /\ pc[c] = "idle" /\ Free
    /\ state = "open" /\ elapsed
    /\ state' = "half_open"
    /\ slots' = 1
    /\ probing' = {c}
    /\ lost' = 0
    /\ Goto(c, "calling")
    /\ UNCHANGED <<failures, elapsed, lock>>

\* Mutant of JoinProbing: refuses with > where the code has >=.
JoinOneMore(c) ==
    /\ pc[c] = "idle" /\ Free
    /\ state = "half_open" /\ slots <= HalfOpenMax
    /\ slots' = slots + 1
    /\ probing' = probing \cup {c}
    /\ Goto(c, "calling")
    /\ UNCHANGED <<state, failures, elapsed, lock, lost>>

JoinProbing(c) ==
    /\ pc[c] = "idle" /\ Free
    /\ state = "half_open" /\ slots < HalfOpenMax
    /\ slots' = slots + 1
    /\ probing' = probing \cup {c}
    /\ Goto(c, "calling")
    /\ UNCHANGED <<state, failures, elapsed, lock, lost>>

-----------------------------------------------------------------------------
(* The guarded call, and what its outcome does                              *)

Return(c) ==
    /\ pc[c] = "calling"
    /\ \E outcome \in {"succeeded", "failed"} : Goto(c, outcome)
    /\ UNCHANGED <<state, failures, slots, elapsed, lock, probing, lost>>

\* Mutant of OnSuccess: closes without forgetting earlier failures.
CloseOnly(c) ==
    /\ pc[c] = "succeeded" /\ Free
    /\ state' = IF state = "half_open" THEN "closed" ELSE state
    /\ slots' = IF state = "half_open" THEN 0 ELSE slots
    /\ probing' = {}
    /\ lost' = 0
    /\ Goto(c, "idle")
    /\ UNCHANGED <<failures, elapsed, lock>>

\* _on_success.  The outcome of a call let through while the breaker was
\* closed counts in whatever state it finds.
OnSuccess(c) ==
    /\ pc[c] = "succeeded" /\ Free
    /\ state' = IF state = "half_open" THEN "closed" ELSE state
    /\ failures' = IF state = "open" THEN failures ELSE 0
    /\ slots' = IF state = "half_open" THEN 0 ELSE slots
    /\ probing' = {}
    /\ lost' = 0
    /\ Goto(c, "idle")
    /\ UNCHANGED <<elapsed, lock>>

\* Mutant of OnFailure: a failed probe is counted like any other failure.
CountOnly(c) ==
    /\ pc[c] = "failed" /\ Free
    /\ failures' = OneMore
    /\ state' = IF state = "closed" /\ OneMore = Threshold THEN "open" ELSE state
    /\ elapsed' = (elapsed /\ state' = state)
    /\ probing' = probing \ {c}
    /\ Goto(c, "idle")
    /\ UNCHANGED <<slots, lock, lost>>

\* _on_failure; an alert that is due is sent before the lock is given back.
OnFailure(c) ==
    /\ pc[c] = "failed" /\ Free
    /\ failures' = OneMore
    /\ state' = IF state = "half_open" \/ (state = "closed" /\ OneMore = Threshold)
                THEN "open" ELSE state
    /\ elapsed' = (elapsed /\ state' = state)
    /\ probing' = {}
    /\ lost' = 0
    /\ \/ Goto(c, "idle") /\ UNCHANGED lock
       \/ state = "closed" /\ state' = "open" /\ Goto(c, "alerting") /\ lock' = c
    /\ UNCHANGED slots

Alerted(c) ==
    /\ pc[c] = "alerting"
    /\ Goto(c, "idle")
    /\ lock' = Nobody
    /\ UNCHANGED <<state, failures, slots, elapsed, probing, lost>>

\* CancelledError at an await: leaves the lock, but gives back no slot.
Cancel(c) ==
    /\ pc[c] # "idle"
    /\ Goto(c, "idle")
    /\ lock' = IF lock = c THEN Nobody ELSE lock
    /\ probing' = probing \ {c}
    /\ lost' = IF c \in probing THEN lost + 1 ELSE lost
    /\ UNCHANGED <<state, failures, slots, elapsed>>

Elapse ==
    /\ state = "open" /\ ~elapsed
    /\ elapsed' = TRUE
    /\ UNCHANGED <<state, failures, slots, lock, pc, probing, lost>>

-----------------------------------------------------------------------------
\* What a running call does by itself: the model call times out after 20 s,
\* the webhook after 5 s.
Progress(c) == Return(c) \/ OnSuccess(c) \/ OnFailure(c) \/ Alerted(c)

Arrive(c) == Admit(c) \/ StartProbing(c) \/ JoinProbing(c)

Next == Elapse \/ \E c \in Callers : Arrive(c) \/ Progress(c) \/ Cancel(c)

Spec == Init /\ [][Next]_vars

\* asyncio runs every ready task and wakes the waiters of a lock in order;
\* time passes.  Nothing says that calls keep arriving.
FairSpec == Spec /\ WF_vars(Elapse) /\ \A c \in Callers : SF_vars(Progress(c))

-----------------------------------------------------------------------------
(* Properties *)

\* A closed breaker never lets the failures reach the threshold: whatever
\* late outcomes arrive, the failure that reaches it opens the breaker.
TripsAtThreshold == state = "closed" => failures < Threshold

\* Half-open, no more than half_open_max_calls probes run.
ProbeBudget == Cardinality(probing) <= HalfOpenMax

\* Half-open, every slot handed out belongs to a probe that is still under way
\* or to one that was cancelled: no other end of a call keeps its slot, and no
\* late outcome frees one while its probe runs.
SlotsAccounted == state = "half_open" => slots = Cardinality(probing) + lost

\* Half-open lasts only if a probe was cancelled; otherwise an outcome comes and
\* decides, the probe's or that of a call let through earlier.
HalfOpenDecides == state = "half_open" ~> state # "half_open" \/ lost > 0

\* Half-open does not last: the probe decides ("超时后半开探测").
HalfOpenEnds == state = "half_open" ~> state # "half_open"
=============================================================================
