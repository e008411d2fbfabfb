----------------------- MODULE TimeoutSchedulerProofs -----------------------
(***************************************************************************)
(* Proofs about TimeoutScheduler, for any orders, instances, batch size,   *)
(* broken orders and number of faults.                                     *)
(***************************************************************************)
EXTENDS TimeoutScheduler, FiniteSetTheorems, TLAPS

RowTypes ==
    /\ status \in [Orders -> Statuses]
    /\ released \in [Orders -> Nat]
    /\ lock \in [Orders -> Instances \cup {Nobody}]

\* A scheduler holds only orders that it may cancel: cancelIfPending found the
\* row pending, and nobody changes a row that another transaction has locked.
LockedIsPending == \A o \in Orders : lock[o] # Nobody => status[o] = "pending"

\* A payment has read an order that exists.
PayingExists == \A o \in paying : o \in Orders /\ status[o] # "none"

RowInvariant == RowTypes /\ LockedIsPending /\ PayingExists /\ ReleasedOnce

LEMMA InitRows == Init => RowInvariant
BY SchedulerAssumption DEF Init, RowInvariant, RowTypes, LockedIsPending, PayingExists, ReleasedOnce, Statuses

\* Giving locks back, with the rows unchanged, keeps the invariant.
LEMMA Unlocking ==
    ASSUME RowInvariant, NEW s \in Instances, Unlock(s), UNCHANGED <<status, released, paying>>
    PROVE  RowInvariant'
BY DEF RowInvariant, RowTypes, LockedIsPending, PayingExists, ReleasedOnce, Unlock

\* A transaction that has the row, or finds it free, and finishes the order.
LEMMA Cancelling ==
    ASSUME RowInvariant, NEW o \in Orders, status[o] = "pending",
           status' = [status EXCEPT ![o] = "cancelled"],
           released' = [released EXCEPT ![o] = @ + 1],
           lock' = [lock EXCEPT ![o] = Nobody], UNCHANGED paying
    PROVE  RowInvariant'
<1> USE DEF RowInvariant
<1>1. RowTypes'
  BY DEF RowTypes, Statuses
<1>2. LockedIsPending'
  BY DEF RowTypes, LockedIsPending
<1>3. PayingExists'
  BY DEF RowTypes, PayingExists
<1>4. ReleasedOnce'
  BY DEF RowTypes, ReleasedOnce
<1> QED BY <1>1, <1>2, <1>3, <1>4

LEMMA UserSteps ==
    ASSUME RowInvariant, NEW o \in Orders,
           Place(o) \/ Expire(o) \/ ReadToPay(o) \/ Pay(o) \/ CancelByUser(o)
    PROVE  RowInvariant'
<1>1. CASE Place(o)
  BY <1>1 DEF Place, users, RowInvariant, RowTypes, LockedIsPending, PayingExists, ReleasedOnce, Statuses
<1>2. CASE Expire(o)
  BY <1>2 DEF Expire, table, RowInvariant, RowTypes, LockedIsPending, PayingExists, ReleasedOnce
<1>3. CASE Pay(o)
  BY <1>3 DEF Pay, RowInvariant, RowTypes, LockedIsPending, PayingExists, ReleasedOnce, Statuses
<1>4. CASE CancelByUser(o)
  <2>1. lock' = [lock EXCEPT ![o] = Nobody]
    BY <1>4 DEF CancelByUser, RowInvariant, RowTypes
  <2> QED BY <1>4, <2>1, Cancelling DEF CancelByUser, users
<1>5. CASE ReadToPay(o)
  BY <1>5 DEF ReadToPay, table, RowInvariant, RowTypes, LockedIsPending, PayingExists, ReleasedOnce
<1> QED BY <1>1, <1>2, <1>3, <1>4, <1>5

LEMMA SchedulerSteps ==
    ASSUME RowInvariant, NEW s \in Instances, Advance(s)
    PROVE  RowInvariant'
<1>1. CASE StartRound(s) \/ Select(s) \/ \E o \in Orders : Skip(s, o)
  BY <1>1 DEF StartRound, Select, Skip, table, users, RowInvariant, RowTypes, LockedIsPending, PayingExists, ReleasedOnce
<1>2. ASSUME NEW o \in Orders, Take(s, o) PROVE RowInvariant'
  BY <1>2 DEF Take, users, RowInvariant, RowTypes, LockedIsPending, PayingExists, ReleasedOnce
<1>3. ASSUME NEW o \in Orders, Release(s, o) PROVE RowInvariant'
  <2>1. status[o] = "pending"
    BY <1>3, SchedulerAssumption DEF Release, RowInvariant, LockedIsPending
  <2> QED BY <1>3, <2>1, Cancelling DEF Release, users
<1>4. ASSUME NEW o \in Orders, FailBroken(s, o) PROVE RowInvariant'
  BY <1>4, Unlocking DEF FailBroken, users
<1> QED BY <1>1, <1>2, <1>3, <1>4 DEF Advance

LEMMA FaultSteps ==
    ASSUME RowInvariant, NEW s \in Instances,
           Abort(s) \/ \E o \in Orders : FailOnce(s, o)
    PROVE  RowInvariant'
BY Unlocking DEF Abort, FailOnce, users

LEMMA NextRows == RowInvariant /\ [Next]_vars => RowInvariant'
<1>1. RowInvariant /\ Next => RowInvariant'
  BY UserSteps, SchedulerSteps, FaultSteps DEF Next
<1>2. RowInvariant /\ UNCHANGED vars => RowInvariant'
  BY DEF vars, table, users, RowInvariant, RowTypes, LockedIsPending, PayingExists, ReleasedOnce
<1> QED BY <1>1, <1>2

LEMMA RowsKept == Spec => []RowInvariant
BY InitRows, NextRows, PTL DEF Spec

\* The stock of a cancelled order came back exactly once, and that of an order
\* with a late payment not twice (cancelExpiredOrder, however many instances
\* run it).
THEOREM ReleasesOnce == Spec => []ReleasedOnce
<1>1. RowInvariant => ReleasedOnce
  BY DEF RowInvariant
<1> QED BY <1>1, RowsKept, PTL

\* No scheduler cancels an order that was paid after its selection.
THEOREM KeepsPaid == Spec => PaidIsKept
<1>1. RowInvariant /\ [Next]_vars
        => [\A o \in Orders : status[o] = "paid" => status'[o] = "paid"]_vars
  <2> SUFFICES ASSUME RowInvariant, Next, NEW o \in Orders, status[o] = "paid"
               PROVE  status'[o] = "paid"
    OBVIOUS
  <2> USE DEF RowInvariant, RowTypes
  <2>1. ASSUME NEW q \in Orders, Place(q) \/ Expire(q) \/ ReadToPay(q) \/ Pay(q) \/ CancelByUser(q)
        PROVE  status'[o] = "paid"
    BY <2>1 DEF Place, Expire, ReadToPay, Pay, CancelByUser, table
  <2>2. ASSUME NEW s \in Instances, Advance(s) PROVE status'[o] = "paid"
    <3>1. ASSUME NEW q \in Orders, Release(s, q) PROVE status'[o] = "paid"
      <4>1. status[q] = "pending"
        BY <3>1, SchedulerAssumption DEF Release, LockedIsPending
      <4> QED BY <3>1, <4>1 DEF Release
    <3> QED BY <2>2, <3>1 DEF Advance, StartRound, Select, Take, Skip, FailBroken, table
  <2>3. ASSUME NEW s \in Instances, Abort(s) \/ \E q \in Orders : FailOnce(s, q)
        PROVE  status'[o] = "paid"
    BY <2>3 DEF Abort, FailOnce
  <2> QED BY <2>1, <2>2, <2>3 DEF Next
<1> QED BY <1>1, RowsKept, PTL DEF Spec, PaidIsKept

-----------------------------------------------------------------------------
(* The limit of a selection                                                 *)

Fits(B) == IsFiniteSet(B) /\ Cardinality(B) <= BatchSize

\* Of two orders of a selection the later has more before it.
LEMMA LaterHasMore ==
    ASSUME NEW S \in SUBSET Nat, NEW p \in S, NEW q \in S, p < q
    PROVE  /\ IsFiniteSet(Before(S, p)) /\ IsFiniteSet(Before(S, q))
           /\ Cardinality(Before(S, p)) < Cardinality(Before(S, q))
<1>0. p \in Nat /\ q \in Nat
  OBVIOUS
<1>1. IsFiniteSet(0..q) /\ Before(S, q) \subseteq 0..q
  <2>1. IsFiniteSet(0..q)
    BY <1>0, FS_Interval
  <2>2. \A x \in Before(S, q) : x \in Nat /\ x < q
    BY DEF Before
  <2>3. Before(S, q) \subseteq 0..q
    BY <1>0, <2>2
  <2> QED BY <2>1, <2>3
<1>2. IsFiniteSet(Before(S, q))
  BY <1>1, FS_Subset
<1>3. Before(S, p) \subseteq Before(S, q) /\ p \in Before(S, q) /\ p \notin Before(S, p)
  <2>1. \A x \in Nat : x < p => x < q
    BY <1>0
  <2>2. ~(p < p)
    BY <1>0
  <2> QED BY <2>1, <2>2 DEF Before
<1>4. /\ IsFiniteSet(Before(S, p))
      /\ Cardinality(Before(S, p)) <= Cardinality(Before(S, q))
      /\ Cardinality(Before(S, p)) # Cardinality(Before(S, q))
  BY <1>2, <1>3, FS_Subset
<1>5. Cardinality(Before(S, p)) \in Nat /\ Cardinality(Before(S, q)) \in Nat
  BY <1>2, <1>4, FS_CardinalityType
<1> QED BY <1>2, <1>4, <1>5

\* ORDER BY expire_at LIMIT n selects at most n, of any number of orders: the
\* number of orders before it tells each selected one from the others.
LEMMA EarliestFits ==
    ASSUME NEW S \in SUBSET Nat
    PROVE  Fits(Earliest(S))
<1> DEFINE rank == [o \in Earliest(S) |-> Cardinality(Before(S, o))]
<1>1. \A o \in Earliest(S) : Cardinality(Before(S, o)) \in 0..BatchSize - 1
  <2> SUFFICES ASSUME NEW o \in Earliest(S) PROVE Cardinality(Before(S, o)) \in 0..BatchSize - 1
    OBVIOUS
  <2>1. o \in Nat /\ Cardinality(Before(S, o)) < BatchSize
    BY DEF Earliest
  <2>2. IsFiniteSet(0..o) /\ Before(S, o) \subseteq 0..o
    <3>1. IsFiniteSet(0..o)
      BY <2>1, FS_Interval
    <3>2. \A x \in Before(S, o) : x \in Nat /\ x < o
      BY DEF Before
    <3> QED BY <2>1, <3>1, <3>2
  <2>3. Cardinality(Before(S, o)) \in Nat
    BY <2>2, FS_Subset, FS_CardinalityType
  <2> QED BY <2>1, <2>3, SchedulerAssumption
<1>2. \A p, q \in Earliest(S) : p # q => rank[p] # rank[q]
  <2> SUFFICES ASSUME NEW p \in Earliest(S), NEW q \in Earliest(S), p < q
               PROVE  rank[p] # rank[q]
    BY DEF Earliest
  <2>1. Cardinality(Before(S, p)) < Cardinality(Before(S, q))
    BY LaterHasMore DEF Earliest
  <2>2. rank[p] = Cardinality(Before(S, p)) /\ rank[q] = Cardinality(Before(S, q))
    OBVIOUS
  <2>3. rank[p] \in Nat /\ rank[q] \in Nat
    BY <1>1, <2>2
  <2> QED BY <2>1, <2>2, <2>3
<1>3. rank \in Injection(Earliest(S), 0..BatchSize - 1)
  BY <1>1, <1>2 DEF Injection, IsInjective
<1>4. IsFiniteSet(0..BatchSize - 1) /\ Cardinality(0..BatchSize - 1) = BatchSize
  BY FS_Interval, SchedulerAssumption
<1> QED BY <1>3, <1>4, FS_Injection DEF Fits

LEMMA FewerFit ==
    ASSUME NEW B, Fits(B), NEW C \in SUBSET B
    PROVE  Fits(C)
<1>1. IsFiniteSet(C) /\ Cardinality(C) <= Cardinality(B)
  BY FS_Subset DEF Fits
<1>2. Cardinality(C) \in Nat /\ Cardinality(B) \in Nat
  BY <1>1, FS_CardinalityType DEF Fits
<1> QED BY <1>1, <1>2, SchedulerAssumption DEF Fits

RoundTypes ==
    /\ paying \subseteq Orders /\ late \subseteq Orders
    /\ pc \in [Instances -> Steps]
    /\ due \in [Instances -> SUBSET Orders]
    /\ batch \in [Instances -> {B \in SUBSET Orders : Fits(B)}]
    /\ full \in [Instances -> BOOLEAN]
    /\ faults \in 0..MaxFaults

LEMMA InitRounds == Init => RoundTypes
<1>1. Fits({})
  BY FS_EmptySet, SchedulerAssumption DEF Fits
<1>2. 0 \in 0..MaxFaults
  BY SchedulerAssumption
<1> QED BY <1>1, <1>2 DEF Init, RoundTypes, Steps

\* On to the next order, or to the end of the round: the batch only shrinks.
LEMMA Shrinking ==
    ASSUME RoundTypes, NEW s \in Instances, NEW C \in SUBSET batch[s],
           batch' = [batch EXCEPT ![s] = C],
           NEW step \in Steps, pc' = [pc EXCEPT ![s] = step],
           UNCHANGED <<users, due, full>>, faults' \in 0..MaxFaults
    PROVE  RoundTypes'
<1>1. C \in SUBSET Orders /\ Fits(C)
  BY FewerFit DEF RoundTypes
<1> QED BY <1>1 DEF users, RoundTypes

LEMMA Continuing ==
    ASSUME RoundTypes, NEW s \in Instances, NEW o, Continue(s, o), UNCHANGED users,
           faults' \in 0..MaxFaults
    PROVE  RoundTypes'
<1> DEFINE step == IF batch[s] # {o} THEN "working"
                   ELSE IF full[s] THEN "selecting" ELSE "resting"
<1>1. step \in Steps
  BY DEF Steps
<1>2. batch' = [batch EXCEPT ![s] = batch[s] \ {o}] /\ pc' = [pc EXCEPT ![s] = step]
  BY DEF Continue, RoundTypes
<1> HIDE DEF step
<1> QED BY <1>1, <1>2, Shrinking DEF Continue

LEMMA NextRounds == RoundTypes /\ [Next]_vars => RoundTypes'
<1> SUFFICES ASSUME RoundTypes, [Next]_vars PROVE RoundTypes'
  OBVIOUS
<1>0. faults \in 0..MaxFaults
  BY DEF RoundTypes
<1>1. ASSUME NEW o \in Orders, Place(o) \/ Expire(o) \/ ReadToPay(o) \/ Pay(o) \/ CancelByUser(o)
      PROVE  RoundTypes'
  BY <1>1 DEF Place, Expire, ReadToPay, Pay, CancelByUser, users, round, RoundTypes
<1>2. ASSUME NEW s \in Instances, StartRound(s) PROVE RoundTypes'
  BY <1>2 DEF StartRound, users, RoundTypes, Steps
<1>3. ASSUME NEW s \in Instances, Select(s) PROVE RoundTypes'
  <2> DEFINE selected == Earliest(Due(s))
  <2>1. Due(s) \in SUBSET Orders /\ Due(s) \in SUBSET Nat
    BY SchedulerAssumption DEF RoundTypes, Due
  <2>2. selected \in SUBSET Orders
    BY <2>1 DEF Earliest
  <2>3. Fits(selected)
    BY <2>1, EarliestFits
  <2>4. /\ batch' = [batch EXCEPT ![s] = selected]
        /\ full' = [full EXCEPT ![s] = Cardinality(selected) >= BatchSize]
        /\ pc' = [pc EXCEPT ![s] = IF selected = {} THEN "resting" ELSE "working"]
        /\ UNCHANGED <<users, due, faults>>
    BY <1>3 DEF Select
  <2> HIDE DEF selected
  <2> QED BY <2>2, <2>3, <2>4 DEF users, RoundTypes, Steps
<1>4. ASSUME NEW s \in Instances, NEW o \in Orders, Take(s, o) PROVE RoundTypes'
  BY <1>4 DEF Take, users, RoundTypes, Steps
<1>5. ASSUME NEW s \in Instances, NEW o \in Orders, Skip(s, o) \/ Release(s, o) \/ FailBroken(s, o)
      PROVE  RoundTypes'
  BY <1>0, <1>5, Continuing DEF Skip, Release, FailBroken
<1>6. ASSUME Fault PROVE faults' \in 0..MaxFaults
  BY <1>0, <1>6, SchedulerAssumption DEF Fault
<1>7. ASSUME NEW s \in Instances, NEW o \in Orders, FailOnce(s, o) PROVE RoundTypes'
  BY <1>6, <1>7, Continuing DEF FailOnce
<1>8. ASSUME NEW s \in Instances, Abort(s) PROVE RoundTypes'
  BY <1>6, <1>8, Shrinking DEF Abort, Steps
<1>9. CASE UNCHANGED vars
  BY <1>9 DEF vars, users, round, RoundTypes
<1> QED BY <1>1, <1>2, <1>3, <1>4, <1>5, <1>7, <1>8, <1>9 DEF Next, Advance

LEMMA RoundsKept == Spec => []RoundTypes
BY InitRounds, NextRounds, PTL DEF Spec

\* Every state of tables and rounds is legal, and no batch is larger than the
\* query's limit, however many orders have expired.
THEOREM SchedulerTypes == Spec => []TypeOK
<1>1. RowInvariant /\ RoundTypes => TypeOK
  BY DEF RowInvariant, RowTypes, RoundTypes, TypeOK, Fits
<1> QED BY <1>1, RowsKept, RoundsKept, PTL

-----------------------------------------------------------------------------
(* What is cancelled had expired                                            *)

\* A round works on what had expired when it began, and time does not go
\* back: nothing that a scheduler selects or locks has time left.
RoundsAreLate ==
    /\ \A s \in Instances : due[s] \subseteq late /\ batch[s] \subseteq late
    /\ \A o \in Orders : lock[o] # Nobody => o \in late

LEMMA NextLate ==
    ASSUME RowTypes, RoundTypes, RoundsAreLate, [Next]_vars
    PROVE  RoundsAreLate'
<1> USE DEF RowTypes, RoundTypes, RoundsAreLate, users
<1>1. ASSUME NEW o \in Orders, Place(o) \/ Expire(o) \/ ReadToPay(o) \/ Pay(o) \/ CancelByUser(o)
      PROVE  RoundsAreLate'
  BY <1>1 DEF Place, Expire, ReadToPay, Pay, CancelByUser, table, round
<1>2. ASSUME NEW s \in Instances, StartRound(s) PROVE RoundsAreLate'
  BY <1>2 DEF StartRound, table
<1>3. ASSUME NEW s \in Instances, Select(s) PROVE RoundsAreLate'
  <2>1. Earliest(Due(s)) \subseteq late
    BY DEF Earliest, Due
  <2> QED BY <1>3, <2>1 DEF Select, table
<1>4. ASSUME NEW s \in Instances, NEW o \in Orders, Take(s, o) PROVE RoundsAreLate'
  BY <1>4 DEF Take, Turn
<1>5. ASSUME NEW s \in Instances, NEW o, Continue(s, o), UNCHANGED users,
             \A q \in Orders : lock'[q] \in {lock[q], Nobody}
      PROVE  RoundsAreLate'
  BY <1>5 DEF Continue
<1>6. ASSUME NEW s \in Instances, NEW o \in Orders, Skip(s, o) \/ Release(s, o) \/ FailBroken(s, o)
      PROVE  RoundsAreLate'
  <2>1. \A q \in Orders : lock'[q] \in {lock[q], Nobody}
    BY <1>6 DEF Skip, Release, FailBroken, Unlock, table
  <2> QED BY <1>5, <1>6, <2>1 DEF Skip, Release, FailBroken
<1>7. ASSUME NEW s \in Instances, NEW o \in Orders, FailOnce(s, o) PROVE RoundsAreLate'
  <2>1. \A q \in Orders : lock'[q] \in {lock[q], Nobody}
    BY <1>7 DEF FailOnce, Unlock
  <2> QED BY <1>5, <1>7, <2>1 DEF FailOnce
<1>8. ASSUME NEW s \in Instances, Abort(s) PROVE RoundsAreLate'
  BY <1>8 DEF Abort, Unlock
<1>9. CASE UNCHANGED vars
  BY <1>9 DEF vars, table, round
<1> QED BY <1>1, <1>2, <1>3, <1>4, <1>6, <1>7, <1>8, <1>9 DEF Next, Advance

\* Whatever fails and however long a round lasts, no scheduler cancels an
\* order that may still be paid in time, although cancelIfPending tests the
\* status only.
THEOREM CancelsExpired == Spec => OnlyExpiredCancelled
<1>1. Init => RoundsAreLate
  BY DEF Init, RoundsAreLate
<1>2. RowInvariant /\ RoundTypes /\ RoundsAreLate /\ [Next]_vars => RoundsAreLate'
  BY NextLate DEF RowInvariant
<1>3. RoundsAreLate
        => \A o \in Orders :
              status[o] = "pending" /\ lock[o] # Nobody /\ status'[o] = "cancelled" => o \in late
  BY DEF RoundsAreLate
<1> QED BY <1>1, <1>2, <1>3, RowsKept, RoundsKept, PTL DEF Spec, OnlyExpiredCancelled

-----------------------------------------------------------------------------
(* To the orders, rounds are users who cancel                               *)

\* An order changes in one step, and with it the stock of its product only.
LEMMA CancelMaps ==
    ASSUME RowInvariant, NEW o \in Orders, status[o] = "pending",
           status' = [status EXCEPT ![o] = "cancelled"],
           released' = [released EXCEPT ![o] = @ + 1]
    PROVE  Atomic!Next
<1>1. Atomic!Becomes(o, "cancelled", "unpaid")
  BY DEF Atomic!Becomes, RowInvariant, RowTypes
<1>2. Atomic!GiveBack(o)
  BY DEF Atomic!GiveBack, RowInvariant, RowTypes
<1>3. {"create", "cancel", "expire", "pay"} \cap {"cancel", "expire"} # {}
  OBVIOUS
<1>4. Atomic!Cancel(o)
  BY <1>1, <1>2, <1>3 DEF Atomic!Cancel, Atomic!Becomes
<1> QED BY <1>4 DEF Atomic!Next, Atomic!Request

LEMMA PlaceMaps ==
    ASSUME RowInvariant, NEW o \in Orders, Place(o)
    PROVE  Atomic!Next
<1> USE DEF Place, RowInvariant, RowTypes
<1>1. Atomic!Becomes(o, "pending", "unpaid")
  BY DEF Atomic!Becomes
<1>2. released[o] = 0
  BY DEF ReleasedOnce
<1>3. Atomic!Create(o)
  BY <1>1, <1>2 DEF Atomic!Create
<1> QED BY <1>3 DEF Atomic!Next, Atomic!Request

LEMMA PayMaps ==
    ASSUME RowInvariant, NEW o \in Orders, Pay(o)
    PROVE  Atomic!Next
<1> USE DEF Pay, RowInvariant, RowTypes, PayingExists
<1>1. Atomic!Becomes(o, "paid", "paid")
  BY DEF Atomic!Becomes
<1>2. Atomic!Pay(o)
  BY <1>1 DEF Atomic!Pay
<1> QED BY <1>2 DEF Atomic!Next, Atomic!Request

LEMMA QuietMaps ==
    ASSUME UNCHANGED <<status, released>>
    PROVE  UNCHANGED Atomic!vars
BY DEF Atomic!vars

\* TimeoutScheduler implements AtomicOrders: of all that the schedulers of any
\* number of instances do, with whatever faults, the orders see cancellations
\* between the requests of the users, of which payments may come late.
THEOREM SchedulersAreUsers == Spec => RoundsAreAtomic
<1>1. Init => Atomic!Init
  BY DEF Init, Atomic!Init
<1>2. RowInvariant /\ [Next]_vars => [Atomic!Next]_(Atomic!vars)
  <2> SUFFICES ASSUME RowInvariant, [Next]_vars
               PROVE  Atomic!Next \/ UNCHANGED Atomic!vars
    OBVIOUS
  <2>1. ASSUME NEW o \in Orders, Place(o) \/ Expire(o) \/ ReadToPay(o) \/ Pay(o) \/ CancelByUser(o)
        PROVE  Atomic!Next \/ UNCHANGED Atomic!vars
    BY <2>1, PlaceMaps, PayMaps, CancelMaps, QuietMaps DEF Expire, ReadToPay, CancelByUser, table
  <2>2. ASSUME NEW s \in Instances, NEW o \in Orders, Release(s, o)
        PROVE  Atomic!Next
    <3>1. status[o] = "pending"
      BY <2>2, SchedulerAssumption DEF Release, RowInvariant, LockedIsPending
    <3> QED BY <2>2, <3>1, CancelMaps DEF Release
  <2>3. ASSUME NEW s \in Instances,
               \/ StartRound(s) \/ Select(s) \/ Abort(s)
               \/ \E o \in Orders : Take(s, o) \/ Skip(s, o) \/ FailBroken(s, o) \/ FailOnce(s, o)
        PROVE  UNCHANGED Atomic!vars
    BY <2>3, QuietMaps DEF StartRound, Select, Abort, Take, Skip, FailBroken, FailOnce, table
  <2>4. CASE UNCHANGED vars
    BY <2>4, QuietMaps DEF vars, table
  <2> QED BY <2>1, <2>2, <2>3, <2>4 DEF Next, Advance
<1> QED BY <1>1, <1>2, RowsKept, PTL DEF Spec, RoundsAreAtomic, Atomic!Spec
=============================================================================
