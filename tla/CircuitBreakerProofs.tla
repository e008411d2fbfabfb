------------------------ MODULE CircuitBreakerProofs ------------------------
(***************************************************************************)
(* Proofs about CircuitBreaker, for any callers, threshold and number of   *)
(* half-open slots.                                                        *)
(***************************************************************************)
EXTENDS CircuitBreaker, FiniteSetTheorems, TLAPS

\* Each slot handed out is that of a probe that runs or was cancelled, and
\* outside half-open there are neither.
ProbesHaveSlots ==
    /\ IsFiniteSet(probing)
    /\ SlotsAccounted
    /\ state # "half_open" => probing = {} /\ lost = 0

\* A caller that probes is on its way to report: only a cancellation ends a
\* call between its admission and OnSuccess or OnFailure.
ProbersReport == \A c \in probing : pc[c] \in {"calling", "succeeded", "failed"}

BreakerInvariant == TypeOK /\ TripsAtThreshold /\ ProbesHaveSlots /\ ProbersReport

\* The slots of cancelled probes are some of those handed out.
LEMMA LostBounded ==
    ASSUME TypeOK, ProbesHaveSlots, state = "half_open"
    PROVE  /\ Cardinality(probing) \in Nat
           /\ lost + Cardinality(probing) = slots
           /\ slots <= HalfOpenMax
BY BreakerAssumption, FS_CardinalityType DEF TypeOK, ProbesHaveSlots, SlotsAccounted

LEMMA InitBreaker == Init => BreakerInvariant
<1> SUFFICES ASSUME Init PROVE BreakerInvariant
  OBVIOUS
<1>1. TripsAtThreshold
  BY BreakerAssumption DEF Init, TripsAtThreshold
<1>2. 0 \in 0..Threshold /\ 0 \in 0..HalfOpenMax
  BY BreakerAssumption
<1>3. TypeOK
  BY <1>2 DEF Init, TypeOK, States, Steps
<1>4. ProbesHaveSlots /\ ProbersReport
  BY FS_EmptySet DEF Init, ProbesHaveSlots, SlotsAccounted, ProbersReport
<1> QED BY <1>1, <1>3, <1>4 DEF BreakerInvariant

\* A cancelled probe is one of the probes that held a slot.
LEMMA CancelCounts ==
    ASSUME BreakerInvariant, NEW c \in Callers, Cancel(c)
    PROVE  lost' \in 0..HalfOpenMax /\ ProbesHaveSlots'
<1> USE DEF BreakerInvariant, ProbesHaveSlots
<1>1. CASE c \in probing
  <2>1. state = "half_open"
    BY <1>1
  <2>2. /\ Cardinality(probing) \in Nat
        /\ lost + Cardinality(probing) = slots
        /\ slots <= HalfOpenMax
    BY <2>1, LostBounded
  <2>3. /\ IsFiniteSet(probing \ {c})
        /\ Cardinality(probing \ {c}) = Cardinality(probing) - 1
        /\ Cardinality(probing \ {c}) \in Nat
    BY <1>1, FS_RemoveElement, FS_CardinalityType
  <2>4. lost' = lost + 1 /\ probing' = probing \ {c} /\ slots' = slots /\ state' = state
    BY <1>1 DEF Cancel
  <2>5. lost \in Nat /\ slots \in Nat /\ HalfOpenMax \in Nat
    BY BreakerAssumption DEF TypeOK
  <2> QED BY <2>1, <2>2, <2>3, <2>4, <2>5 DEF SlotsAccounted
<1>2. CASE c \notin probing
  <2>1. probing \ {c} = probing
    BY <1>2
  <2> QED BY <1>2, <2>1 DEF Cancel, TypeOK, SlotsAccounted
<1> QED BY <1>1, <1>2

\* Types and the count of failures.
LEMMA NextTypes ==
    ASSUME BreakerInvariant, [Next]_vars
    PROVE  TypeOK' /\ TripsAtThreshold'
<1>0. TypeOK /\ TripsAtThreshold
  BY DEF BreakerInvariant
<1>00. 0 \in 0..HalfOpenMax
  BY BreakerAssumption
<1> USE <1>0, <1>00, BreakerAssumption DEF TypeOK, TripsAtThreshold, States, Steps, Goto
<1>1. ASSUME NEW c \in Callers, Arrive(c) PROVE TypeOK' /\ TripsAtThreshold'
  BY <1>1 DEF Arrive, Admit, StartProbing, JoinProbing
<1>2. ASSUME NEW c \in Callers, Return(c) \/ Alerted(c) PROVE TypeOK' /\ TripsAtThreshold'
  BY <1>2 DEF Return, Alerted
<1>3. ASSUME NEW c \in Callers, OnSuccess(c) PROVE TypeOK' /\ TripsAtThreshold'
  BY <1>3 DEF OnSuccess
<1>4. ASSUME NEW c \in Callers, OnFailure(c) PROVE TypeOK' /\ TripsAtThreshold'
  BY <1>4 DEF OnFailure, OneMore
<1>5. ASSUME NEW c \in Callers, Cancel(c) PROVE TypeOK' /\ TripsAtThreshold'
  <2>1. lost' \in 0..HalfOpenMax
    BY <1>5, CancelCounts
  <2>2. /\ state' = state /\ failures' = failures /\ slots' = slots /\ elapsed' = elapsed
        /\ pc' = [pc EXCEPT ![c] = "idle"]
        /\ lock' \in {lock, Nobody}
        /\ probing' \subseteq probing
    BY <1>5 DEF Cancel
  <2> QED BY <2>1, <2>2
<1>6. CASE Elapse
  BY <1>6 DEF Elapse
<1>7. CASE UNCHANGED vars
  BY <1>7 DEF vars
<1> QED BY <1>1, <1>2, <1>3, <1>4, <1>5, <1>6, <1>7 DEF Next, Progress

LEMMA NextProbes ==
    ASSUME BreakerInvariant, [Next]_vars
    PROVE  ProbesHaveSlots' /\ ProbersReport'
<1>0. TypeOK /\ ProbesHaveSlots /\ ProbersReport
  BY DEF BreakerInvariant
<1> USE <1>0 DEF ProbesHaveSlots, SlotsAccounted, ProbersReport
<1>1. ASSUME NEW c \in Callers, Admit(c) \/ Return(c) \/ Alerted(c)
      PROVE  ProbesHaveSlots' /\ ProbersReport'
  BY <1>1 DEF Admit, Return, Alerted, Goto, TypeOK
<1>2. ASSUME NEW c \in Callers, StartProbing(c) PROVE ProbesHaveSlots' /\ ProbersReport'
  <2>1. IsFiniteSet({c}) /\ Cardinality({c}) = 1
    BY FS_Singleton
  <2> QED BY <1>2, <2>1 DEF StartProbing, Goto, TypeOK
<1>3. ASSUME NEW c \in Callers, JoinProbing(c) PROVE ProbesHaveSlots' /\ ProbersReport'
  <2>1. c \notin probing /\ state = "half_open"
    BY <1>3 DEF JoinProbing
  <2>2. /\ IsFiniteSet(probing \cup {c})
        /\ Cardinality(probing \cup {c}) = Cardinality(probing) + 1
    BY <2>1, FS_AddElement
  <2>3. Cardinality(probing) \in Nat /\ lost \in Nat /\ slots \in Nat
    BY BreakerAssumption, FS_CardinalityType DEF TypeOK
  <2> QED BY <1>3, <2>1, <2>2, <2>3 DEF JoinProbing, Goto, TypeOK
<1>4. ASSUME NEW c \in Callers, OnSuccess(c) \/ OnFailure(c)
      PROVE  ProbesHaveSlots' /\ ProbersReport'
  <2>1. probing' = {} /\ lost' = 0 /\ state' # "half_open"
    BY <1>4 DEF OnSuccess, OnFailure
  <2> QED BY <2>1, FS_EmptySet
<1>5. ASSUME NEW c \in Callers, Cancel(c) PROVE ProbesHaveSlots' /\ ProbersReport'
  <2>1. ProbesHaveSlots'
    BY <1>5, CancelCounts
  <2>2. ProbersReport'
    BY <1>5 DEF Cancel, Goto, TypeOK
  <2> QED BY <2>1, <2>2
<1>6. CASE Elapse
  BY <1>6 DEF Elapse
<1>7. CASE UNCHANGED vars
  BY <1>7 DEF vars
<1> QED BY <1>1, <1>2, <1>3, <1>4, <1>5, <1>6, <1>7 DEF Next, Arrive, Progress

LEMMA BreakerKept == Spec => []BreakerInvariant
<1>1. BreakerInvariant /\ [Next]_vars => BreakerInvariant'
  BY NextTypes, NextProbes DEF BreakerInvariant
<1> QED BY <1>1, InitBreaker, PTL DEF Spec

\* Whatever late outcomes arrive, the breaker opens at its threshold.
THEOREM Trips == Spec => []TripsAtThreshold
<1>1. BreakerInvariant => TripsAtThreshold
  BY DEF BreakerInvariant
<1> QED BY <1>1, BreakerKept, PTL

\* Half-open, every slot is that of a probe that runs or was cancelled: only a
\* cancellation takes a slot away for good, and none comes back too early.
THEOREM SlotsHeld == Spec => []SlotsAccounted
<1>1. BreakerInvariant => SlotsAccounted
  BY DEF BreakerInvariant, ProbesHaveSlots
<1> QED BY <1>1, BreakerKept, PTL

\* No more probes run than half_open_max_calls, cancelled ones included.
THEOREM ProbesBounded == Spec => []ProbeBudget
<1>1. ASSUME BreakerInvariant
      PROVE  ProbeBudget
  <2>1. CASE state = "half_open"
    BY <1>1, <2>1, LostBounded, BreakerAssumption DEF BreakerInvariant, TypeOK, ProbeBudget
  <2>2. CASE state # "half_open"
    BY <1>1, <2>2, FS_EmptySet, BreakerAssumption
       DEF BreakerInvariant, ProbesHaveSlots, ProbeBudget
  <2> QED BY <2>1, <2>2
<1>2. BreakerInvariant => ProbeBudget
  BY <1>1
<1> QED BY <1>2, BreakerKept, PTL

\* Every state is one the constructor's limits allow: no more slots handed out
\* than half_open_max_calls, no failures counted beyond the threshold.
THEOREM BreakerTypes == Spec => []TypeOK
<1>1. BreakerInvariant => TypeOK
  BY DEF BreakerInvariant
<1> QED BY <1>1, BreakerKept, PTL
=============================================================================
