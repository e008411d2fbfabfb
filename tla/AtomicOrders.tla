---------------------------- MODULE AtomicOrders ----------------------------
(***************************************************************************)
(* What the shop promises of orders and stock: every request is one        *)
(* indivisible step on the order it names and on the products it asks for. *)
(* OrderStock, whose requests are transactions of many statements, and     *)
(* TimeoutScheduler, which cancels orders between the users' requests,     *)
(* both implement it.  Two constants say how far a step may rest on what   *)
(* its request read earlier.                                               *)
(***************************************************************************)
EXTENDS Integers

CONSTANTS
    Orders,         \* order ids
    Products,       \* what is sold
    Qty,            \* Qty[o][p]: how many of p order o asks for
    InitialStock,   \* of each product
    Kinds,          \* the requests served
    LatePayments,   \* may a payment rest on an order as it was?
    StaleReleases   \* may a release rest on a stock as it was?

VARIABLES status, pay,   \* of each order
          stock          \* what is left of each product

vars == <<status, pay, stock>>

Init ==
    /\ status = [o \in Orders |-> "none"]
    /\ pay = [o \in Orders |-> "unpaid"]
    /\ stock = [p \in Products |-> InitialStock[p]]

Becomes(o, newStatus, newPay) ==
    /\ status' = [status EXCEPT ![o] = newStatus]
    /\ pay' = [pay EXCEPT ![o] = newPay]

\* All that is asked for is there, and is taken.
Create(o) ==
    /\ "create" \in Kinds
    /\ status[o] = "none"
    /\ \A p \in Products : stock[p] >= Qty[o][p]
    /\ Becomes(o, "pending", "unpaid")
    /\ stock' = [p \in Products |-> stock[p] - Qty[o][p]]

\* A stale release touches no other products, and leaves at least what it
\* puts back.
GiveBack(o) ==
    \/ stock' = [p \in Products |-> stock[p] + Qty[o][p]]
    \/ /\ StaleReleases
       /\ stock' = [p \in Products |-> IF Qty[o][p] > 0 THEN stock'[p] ELSE stock[p]]
       /\ \A p \in Products : stock'[p] >= Qty[o][p]

\* By the user or for want of payment: of orders nobody has paid.
Cancel(o) ==
    /\ Kinds \cap {"cancel", "expire"} # {}
    /\ status[o] = "pending"
    /\ Becomes(o, "cancelled", pay[o])
    /\ GiveBack(o)

\* Every order was pending once.
Pay(o) ==
    /\ "pay" \in Kinds
    /\ status[o] = "pending" \/ (LatePayments /\ status[o] # "none")
    /\ Becomes(o, "paid", "paid")
    /\ UNCHANGED stock

Refund(o) ==
    /\ "refund" \in Kinds
    /\ pay[o] = "paid"
    /\ Becomes(o, status[o], "refunding")
    /\ UNCHANGED stock

Complete(o) ==
    /\ "complete" \in Kinds
    /\ pay[o] = "refunding"
    /\ Becomes(o, "cancelled", "refunded")
    /\ GiveBack(o)

\* An administrator writes an order as it was read, with another status.
SetStatus(o) ==
    /\ "admin" \in Kinds
    /\ status[o] # "none"
    /\ \E newStatus \in {"paid", "shipped", "delivered", "cancelled"},
          newPay \in {"unpaid", "paid", "refunding", "refunded"} : Becomes(o, newStatus, newPay)
    /\ UNCHANGED stock

\* ... or a product, with another stock.
Restock(p) ==
    /\ "edit" \in Kinds
    /\ stock'[p] >= 0
    /\ stock' = [stock EXCEPT ![p] = stock'[p]]
    /\ UNCHANGED <<status, pay>>

Request(o) == Create(o) \/ Cancel(o) \/ Pay(o) \/ Refund(o) \/ Complete(o) \/ SetStatus(o)

Next ==
    \/ \E o \in Orders : Request(o)
    \/ \E p \in Products : Restock(p)

Spec == Init /\ [][Next]_vars
=============================================================================
