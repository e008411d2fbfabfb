--------------------------- MODULE ChatGateProofs ---------------------------
(***************************************************************************)
(* Theorems about ChatGate, for any requests, any room in the quota, with  *)
(* or without Redis, in a demo or not.                                     *)
(***************************************************************************)
EXTENDS ChatGate, TLAPS

GateTypes ==
    /\ shared \in BOOLEAN /\ demo \in BOOLEAN
    /\ kind \in [Requests -> Kinds] /\ pc \in [Requests -> Steps]
    /\ lock \in Requests \cup {Nobody}
    /\ late \subseteq Requests /\ lapsed \subseteq Requests /\ slots \subseteq Requests

\* Who works and keeps to its lease owns the lock.
Owners == \A r \in Requests : pc[r] \in Working => r \in lapsed \/ lock = r

\* A release that may still arrive is that of a request that has left.
Late == \A r \in late : shared /\ pc[r] \in {"settling", "done"}

GateInvariant == GateTypes /\ Owners /\ Late /\ NothingLeaks

LEMMA InitGate == Init => GateInvariant
BY GateAssumption DEF Init, GateInvariant, GateTypes, Owners, Late, NothingLeaks, Counted,
   InFlight, Kinds, Steps, Working

\* A request that leaves the lock behind it: what it must know of the lock.
LEMMA Left ==
    ASSUME NEW r \in Requests, GateInvariant, Outside(r), UNCHANGED <<late, slots, lapsed>>,
           pc[r] \in {"locking", "unlocking"},
           lock' \in Requests \cup {Nobody},
           \A q \in Requests \ {r} : lock = q => lock' = q,
           ~shared => lock' = IF lock = r THEN Nobody ELSE lock
    PROVE  GateInvariant'
<1> USE GateAssumption DEF GateInvariant, GateTypes, Kinds, Steps, Working, Talking
<1>1. pc' = [pc EXCEPT ![r] = pc'[r]] /\ pc'[r] \in {"settling", "done"}
  BY DEF Outside, Over, Goto
<1>2. GateTypes' /\ UNCHANGED <<shared, demo>>
  BY DEF Outside, Over, Goto, Passing
<1>3. Owners' /\ Late'
  BY <1>1, <1>2 DEF Owners, Late
<1>4. Counted' = Counted
  <2>1. \A q \in Requests \ {r} : pc'[q] = pc[q] /\ kind'[q] = kind[q]
    BY DEF Outside, Over, Goto, Passing
  <2>2. r \in Counted <=> r \in Counted'
    BY ZenonT(40) DEF Outside, Over, Goto, Passing, Counted, InFlight
  <2>3. QED
    BY <1>2, <2>1, <2>2 DEF Counted, InFlight
<1>5. NothingLeaks'
  <2> SUFFICES ASSUME ~shared
               PROVE  slots' = Counted' /\ \A q \in Requests :
                          lock' = q <=> pc'[q] \in Working \cup {"unlocking"}
    BY <1>2 DEF NothingLeaks
  <2>1. slots' = Counted'
    BY <1>4 DEF NothingLeaks
  <2>2. ASSUME NEW q \in Requests, q # r
        PROVE  lock' = q <=> pc'[q] \in Working \cup {"unlocking"}
    BY <1>1, <2>2 DEF NothingLeaks
  <2>3. lock' # r /\ pc'[r] \notin Working \cup {"unlocking"}
    BY <1>1
  <2>4. QED
    BY <2>1, <2>2, <2>3
<1>6. QED
  BY <1>2, <1>3, <1>5

LEMMA NextGate == GateInvariant /\ [Next]_vars => GateInvariant'
<1> SUFFICES ASSUME GateInvariant, [Next]_vars PROVE GateInvariant'
  OBVIOUS
<1> USE GateAssumption DEF GateInvariant, GateTypes, Kinds, Steps, Working, Talking
<1>1. ASSUME NEW r \in Requests, NEW k \in Kinds, Arrive(r, k) PROVE GateInvariant'
  BY <1>1, ZenonT(40) DEF Arrive, Owners, Late, NothingLeaks, Counted, InFlight, At, Goto
<1>2. ASSUME NEW r \in Requests, NeverOpened(r) PROVE GateInvariant'
  BY <1>2 DEF NeverOpened, Owners, Late, NothingLeaks, Counted, InFlight, At, Goto, Passing, gate
<1>3. ASSUME NEW r \in Requests, Lock(r) PROVE GateInvariant'
  BY <1>3 DEF Lock, Owners, Late, NothingLeaks, Counted, InFlight, At, Goto, Passing
<1>4. ASSUME NEW r \in Requests, LockFails(r) PROVE GateInvariant'
  <2>1. ASSUME UNCHANGED lock PROVE GateInvariant'
    BY <1>4, <2>1, Left DEF LockFails, At, NothingLeaks
  <2>2. ASSUME shared, lock = Nobody, lock' = r PROVE GateInvariant'
    BY <1>4, <2>2, Left DEF LockFails, At, Owners
  <2>3. QED
    BY <1>4, <2>1, <2>2 DEF LockFails
<1>5. ASSUME NEW r \in Requests, Unlock(r) PROVE GateInvariant'
  BY <1>5, Left DEF Unlock, Release, Owners, At, NothingLeaks
<1>6. ASSUME NEW r \in Requests, UnlockFails(r) PROVE GateInvariant'
  BY <1>6, ZenonT(40) DEF UnlockFails, Outside, Over, Owners, Late, NothingLeaks, Counted, InFlight, At, Goto, Passing
<1>7. ASSUME NEW r \in Requests, Settle(r) PROVE GateInvariant'
  BY <1>7 DEF Settle, HandBack, Over, Owners, Late, NothingLeaks, Counted, InFlight, At
<1>8. ASSUME NEW r \in Requests, NEW from \in Working, NEW to \in Working \cup {"unlocking"},
             WorkStep(r, from, to)
      PROVE  GateInvariant'
  BY <1>8, ZenonT(40) DEF WorkStep, Owners, Late, NothingLeaks, Counted, InFlight, At, Goto, Passing, gate
<1>9. ASSUME NEW r \in Requests, ReadHistory(r) \/ Compress(r) \/ Note(r) \/ Finish(r) \/ Interrupt(r)
      PROVE  GateInvariant'
  <2>1. \E from \in Working, to \in Working \cup {"unlocking"} : WorkStep(r, from, to)
    BY <1>9 DEF ReadHistory, Compress, Note, Finish, Interrupt
  <2>2. QED
    BY <2>1, <1>8
<1>10. ASSUME NEW r \in Requests, CountedInVain(r) PROVE GateInvariant'
  BY <1>10 DEF CountedInVain, Over, Owners, Late, NothingLeaks, Counted, InFlight, At
<1>11. ASSUME NEW r \in Requests, SlotExpires(r) PROVE GateInvariant'
  BY <1>11 DEF SlotExpires, Passing, Owners, Late, NothingLeaks
<1>12. ASSUME NEW r \in Requests, UnlockLate(r) PROVE GateInvariant'
  BY <1>12 DEF UnlockLate, Release, Passing, Owners, Late, NothingLeaks
<1>13. ASSUME NEW r \in Requests, Die(r) PROVE GateInvariant'
  BY <1>13 DEF Die, Over, Owners, Late, NothingLeaks, InFlight, gate
<1>14. CASE LockExpires
  BY <1>14 DEF LockExpires, Passing, Owners, Late, NothingLeaks
<1>15. CASE HistoryExpires
  BY <1>15 DEF HistoryExpires, Passing, gate, Owners, Late, NothingLeaks, Counted, InFlight
<1>16. CASE Restart
  BY <1>16 DEF Restart, Over, Owners, Late, NothingLeaks, Counted, InFlight
<1>17. CASE UNCHANGED vars
  BY <1>17 DEF vars, gate, Owners, Late, NothingLeaks, Counted, InFlight
<1>18. QED
  BY <1>1, <1>2, <1>3, <1>4, <1>5, <1>6, <1>7, <1>9, <1>10, <1>11, <1>12, <1>13, <1>14, <1>15,
     <1>16, <1>17 DEF Next, Progress, Environment

LEMMA AlwaysGate == Spec => []GateInvariant
BY InitGate, NextGate, PTL DEF Spec

\* SessionCoordinator.hold, whatever becomes of its calls: two requests work
\* on a session at once only when one of them has outlived its lease.
THEOREM SessionsExclude == Spec => []OneAtATime
<1>1. GateInvariant => OneAtATime
  BY DEF GateInvariant, Owners, OneAtATime
<1>2. QED
  BY <1>1, AlwaysGate, PTL

\* The way back through `finally`: in one process no way out of a request
\* forgets its slot of the quota or its session.
THEOREM EverythingReturned == Spec => []NothingLeaks
<1>1. GateInvariant => NothingLeaks
  BY DEF GateInvariant
<1>2. QED
  BY <1>1, AlwaysGate, PTL
=============================================================================
