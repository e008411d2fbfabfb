-------------------------- MODULE TimeoutScheduler --------------------------
(***************************************************************************)
(* OrderTimeoutScheduler: every instance of the backend cancels, once a    *)
(* minute and in batches, the pending orders whose time to pay is over.    *)
(* findExpiredPendingOrders selects with FOR UPDATE SKIP LOCKED, but in no *)
(* transaction, so its locks are gone when it returns: two instances may   *)
(* hold the same order in their batches, and an order may be paid between  *)
(* its selection and its turn.                                             *)
(*                                                                         *)
(* Orders are numbered as they are placed, which is the order they expire  *)
(* in.  The transactions of users, and what releasing the stock does to    *)
(* the product rows, are module OrderStock's; here they are single steps,  *)
(* but for a payment, which reads the order one step before it goes on     *)
(* with it (OrderStock's run pay_after_cancel).                            *)
(***************************************************************************)
EXTENDS Naturals, FiniteSets

CONSTANTS
    Orders,         \* order ids, as numbers
    Instances,      \* backend instances, with one scheduler each
    BatchSize,      \* order.timeout-scheduler.batch-size
    Broken,         \* orders whose stock cannot be released
    MaxFaults,      \* bound on transient failures and restarts
    Nobody          \* owner of a free row lock

ASSUME SchedulerAssumption ==
    /\ Orders \subseteq Nat
    /\ BatchSize \in Nat \ {0}
    /\ Broken \subseteq Orders
    /\ MaxFaults \in Nat
    /\ Nobody \notin Instances

VARIABLES
    status,     \* status of each order row
    released,   \* how often each order's stock was put back
    lock,       \* holder of each order row's lock
    paying,     \* orders some payment has read, and found pending
    late,       \* orders whose expire_at has passed
    pc,         \* where each scheduler's round is
    due,        \* what had expired when the round began (`now`)
    batch,      \* what is left of the selected orders
    full,       \* did the selection fill the batch?
    faults      \* transient failures so far

table == <<status, released, lock>>
users == <<paying, late>>
round == <<pc, due, batch, full>>
vars  == <<table, users, round, faults>>

Statuses == {"none", "pending", "paid", "cancelled"}
Steps    == {"resting", "selecting", "working", "releasing"}

TypeOK ==
    /\ status \in [Orders -> Statuses]
    /\ released \in [Orders -> Nat]
    /\ lock \in [Orders -> Instances \cup {Nobody}]
    /\ paying \subseteq Orders /\ late \subseteq Orders
    /\ pc \in [Instances -> Steps]
    /\ due \in [Instances -> SUBSET Orders]
    /\ batch \in [Instances -> {B \in SUBSET Orders : Cardinality(B) <= BatchSize}]
    /\ full \in [Instances -> BOOLEAN]
    /\ faults \in 0..MaxFaults

Init ==
    /\ status = [o \in Orders |-> "none"]
    /\ released = [o \in Orders |-> 0]
    /\ lock = [o \in Orders |-> Nobody]
    /\ paying = {} /\ late = {}
    /\ pc = [s \in Instances |-> "resting"]
    /\ due = [s \in Instances |-> {}]
    /\ batch = [s \in Instances |-> {}]
    /\ full = [s \in Instances |-> FALSE]
    /\ faults = 0

Before(S, o) == {q \in S : q < o}

-----------------------------------------------------------------------------
(* Users and the clock.  An expired order can still be paid: confirmPayment *)
(* does not look at expire_at.                                              *)

Place(o) ==
    /\ status[o] = "none"
    /\ \A q \in Before(Orders, o) : status[q] # "none"
    /\ status' = [status EXCEPT ![o] = "pending"]
    /\ UNCHANGED <<released, lock, users, round, faults>>

Expire(o) ==
    /\ status[o] # "none" /\ o \notin late
    /\ Before(Orders, o) \subseteq late
    /\ late' = late \cup {o}
    /\ UNCHANGED <<table, paying, round, faults>>

\* The ownership check of confirmPayment loads the order.
ReadToPay(o) ==
    /\ status[o] = "pending"
    /\ paying' = paying \cup {o}
    /\ UNCHANGED <<table, late, round, faults>>

\* Under the row's lock it decides on what it has loaded, whatever became of
\* the order.  Further payments of the order would write the same; one that
\* fails never comes to this step.
Pay(o) ==
    /\ o \in paying /\ lock[o] = Nobody
    /\ status' = [status EXCEPT ![o] = "paid"]
    /\ paying' = paying \ {o}
    /\ UNCHANGED <<released, lock, late, round, faults>>

CancelByUser(o) ==
    /\ status[o] = "pending" /\ lock[o] = Nobody /\ o \notin Broken
    /\ status' = [status EXCEPT ![o] = "cancelled"]
    /\ released' = [released EXCEPT ![o] = @ + 1]
    /\ UNCHANGED <<lock, users, round, faults>>

-----------------------------------------------------------------------------
(* A round of one scheduler *)

StartRound(s) ==
    /\ pc[s] = "resting"
    /\ pc' = [pc EXCEPT ![s] = "selecting"]
    /\ due' = [due EXCEPT ![s] = late]
    /\ UNCHANGED <<table, users, batch, full, faults>>

\* Mutant of Earliest: no LIMIT.
Everything(S) == S

\* ORDER BY expire_at LIMIT BatchSize.
Earliest(S) == {o \in S : Cardinality(Before(S, o)) < BatchSize}

\* Mutant of Due: the selection does not look at expire_at.
AnyPending(s) == {o \in Orders : status[o] = "pending" /\ lock[o] = Nobody}

\* WHERE status = 0 AND expire_at < :now, and SKIP LOCKED.
Due(s) == {o \in due[s] : status[o] = "pending" /\ lock[o] = Nobody}

Select(s) ==
    /\ pc[s] = "selecting"
    /\ LET selected == Earliest(Due(s))
       IN  /\ batch' = [batch EXCEPT ![s] = selected]
           /\ full' = [full EXCEPT ![s] = Cardinality(selected) >= BatchSize]
           /\ pc' = [pc EXCEPT ![s] = IF selected = {} THEN "resting" ELSE "working"]
    /\ UNCHANGED <<table, users, due, faults>>

\* Mutant of Continue: selects until nothing is found.
UntilEmpty(s, o) ==
    /\ batch' = [batch EXCEPT ![s] = @ \ {o}]
    /\ pc' = [pc EXCEPT ![s] = IF batch[s] # {o} THEN "working" ELSE "selecting"]
    /\ UNCHANGED <<due, full>>

\* On to the next order of the batch; after the last one, to the next batch
\* if this one was full.
Continue(s, o) ==
    /\ batch' = [batch EXCEPT ![s] = @ \ {o}]
    /\ pc' = [pc EXCEPT ![s] = IF batch[s] # {o} THEN "working"
                               ELSE IF full[s] THEN "selecting" ELSE "resting"]
    /\ UNCHANGED <<due, full>>

Turn(s, o) == o \in batch[s] /\ Before(batch[s], o) = {}

\* Mutant of Take: cancels what the selection found pending.
TakeSelected(s, o) ==
    /\ pc[s] = "working" /\ Turn(s, o)
    /\ lock[o] = Nobody
    /\ lock' = [lock EXCEPT ![o] = s]
    /\ pc' = [pc EXCEPT ![s] = "releasing"]
    /\ UNCHANGED <<status, released, users, due, batch, full, faults>>

\* cancelIfPending updates the row, if it is still pending, and locks it.
Take(s, o) ==
    /\ pc[s] = "working" /\ Turn(s, o)
    /\ lock[o] = Nobody /\ status[o] = "pending"
    /\ lock' = [lock EXCEPT ![o] = s]
    /\ pc' = [pc EXCEPT ![s] = "releasing"]
    /\ UNCHANGED <<status, released, users, due, batch, full, faults>>

Skip(s, o) ==
    /\ pc[s] = "working" /\ Turn(s, o)
    /\ lock[o] = Nobody /\ status[o] # "pending"
    /\ Continue(s, o)
    /\ UNCHANGED <<table, users, faults>>

\* releaseStock succeeds and the transaction commits.
Release(s, o) ==
    /\ pc[s] = "releasing" /\ lock[o] = s /\ o \notin Broken
    /\ status' = [status EXCEPT ![o] = "cancelled"]
    /\ released' = [released EXCEPT ![o] = @ + 1]
    /\ lock' = [lock EXCEPT ![o] = Nobody]
    /\ Continue(s, o)
    /\ UNCHANGED <<users, faults>>

Unlock(s) == lock' = [o \in Orders |-> IF lock[o] = s THEN Nobody ELSE lock[o]]

\* Mutant of FailBroken: the failure ends the round.
FailRound(s, o) ==
    /\ pc[s] = "releasing" /\ lock[o] = s /\ o \in Broken
    /\ Unlock(s)
    /\ batch' = [batch EXCEPT ![s] = {}]
    /\ pc' = [pc EXCEPT ![s] = "resting"]
    /\ UNCHANGED <<status, released, users, due, full, faults>>

\* releaseStock throws: the transaction rolls back, the loop goes on.
FailBroken(s, o) ==
    /\ pc[s] = "releasing" /\ lock[o] = s /\ o \in Broken
    /\ Unlock(s)
    /\ Continue(s, o)
    /\ UNCHANGED <<status, released, users, faults>>

-----------------------------------------------------------------------------
(* Transient faults *)

Fault == faults < MaxFaults /\ faults' = faults + 1

\* A lock wait timeout, a deadlock or a lost connection fails one order.
FailOnce(s, o) ==
    /\ Fault
    /\ pc[s] \in {"working", "releasing"} /\ Turn(s, o)
    /\ Unlock(s)
    /\ Continue(s, o)
    /\ UNCHANGED <<status, released, users>>

\* The selection throws, or the instance restarts: the round is over.
Abort(s) ==
    /\ Fault
    /\ pc[s] # "resting"
    /\ Unlock(s)
    /\ batch' = [batch EXCEPT ![s] = {}]
    /\ pc' = [pc EXCEPT ![s] = "resting"]
    /\ UNCHANGED <<status, released, users, due, full>>

-----------------------------------------------------------------------------
\* What a scheduler does by itself.
Advance(s) ==
    \/ StartRound(s) \/ Select(s)
    \/ \E o \in Orders : Take(s, o) \/ Skip(s, o) \/ Release(s, o) \/ FailBroken(s, o)

Next ==
    \/ \E o \in Orders : Place(o) \/ Expire(o) \/ ReadToPay(o) \/ Pay(o) \/ CancelByUser(o)
    \/ \E s \in Instances :
          \/ Advance(s)
          \/ \E o \in Orders : FailOnce(s, o)
          \/ Abort(s)

Spec == Init /\ [][Next]_vars

\* @Scheduled starts a round a minute after the last one ended, and InnoDB
\* grants a row lock to its waiters in the order they came.
FairSpec == Spec /\ \A s \in Instances : SF_vars(Advance(s))

-----------------------------------------------------------------------------
(* Properties *)

\* However many instances select the same order, and whatever users do with
\* it meanwhile, its stock comes back once at most, and not before it is
\* cancelled (cancelExpiredOrder goes on only after cancelIfPending changed a
\* row).  Of a paid order it is back if the payment had read the order before
\* it was cancelled.
ReleasedOnce ==
    \A o \in Orders :
        /\ released[o] <= 1
        /\ status[o] # "paid" => (released[o] = 1 <=> status[o] = "cancelled")

\* An order that is paid after it was selected stays paid: the selection is
\* no licence to cancel (the status test of cancelIfPending).
PaidIsKept == [][\A o \in Orders : status[o] = "paid" => status'[o] = "paid"]_vars

\* A scheduler cancels nothing that has not expired: cancelIfPending does not
\* look at expire_at again and relies on the selection, however long ago that
\* was and whatever failed since.
OnlyExpiredCancelled ==
    [][\A o \in Orders :
          status[o] = "pending" /\ lock[o] # Nobody /\ status'[o] = "cancelled" => o \in late]_vars

\* Each order asks for a product of its own, one piece, so that no other
\* transaction writes what a release has read.
Atomic == INSTANCE AtomicOrders WITH
    Products <- Orders,
    Qty <- [o \in Orders |-> [p \in Orders |-> IF p = o THEN 1 ELSE 0]],
    InitialStock <- [p \in Orders |-> 1],
    Kinds <- {"create", "cancel", "expire", "pay"},
    LatePayments <- TRUE,
    StaleReleases <- FALSE,
    pay <- [o \in Orders |-> IF status[o] = "paid" THEN "paid" ELSE "unpaid"],
    stock <- [o \in Orders |-> IF status[o] = "none" THEN 1 ELSE released[o]]

\* To the orders the schedulers of all instances are users who cancel: what
\* they select, lock, roll back and repeat is never seen, and what payments
\* do late is what they do without schedulers.
RoundsAreAtomic == Atomic!Spec

\* Orders that fail keep no other from being cancelled, once it expired and is
\* not paid ("单条订单处理失败不影响其他订单").
OthersNotAffected ==
    \A o \in Orders \ Broken :
        (o \in late /\ status[o] = "pending") ~> status[o] # "pending"

\* A round comes to its end, so that the next one, which sees the orders
\* expired meanwhile, can start.
RoundsEnd == \A s \in Instances : pc[s] # "resting" ~> pc[s] = "resting"
=============================================================================
