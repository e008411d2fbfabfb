---------------------------- MODULE MCOrderStock ----------------------------
(* Small instances of OrderStock for TLC. *)
EXTENDS OrderStock, TLC

CONSTANTS o1, o2, o3, w1, w2, u1, u2, k1

MCOrders   == {o1, o2}
ThreeOrders == {o1, o2, o3}
MCProducts == {1, 2}
TwoWorkers   == {w1, w2}

\* o1 takes both products, o2 more of the second: they meet on product 2.
BothOrders == o1 :> <<1, 1>> @@ o2 :> <<0, 2>>
\* Both orders take both products, so lock orders can cross.
CrossOrders == o1 :> <<1, 1>> @@ o2 :> <<1, 1>>

\* Both want the one product there is.
OneProduct == {1}
SameProduct == o1 :> <<1>> @@ o2 :> <<1>>
OnePiece    == <<1>>

\* A third like them.
RivalOrders == CrossOrders @@ o3 :> <<1, 1>>

\* Enough for both.
Ample  == <<2, 3>>
\* Two of each product.
Pair   == <<2, 2>>

OrderTraffic == {"create", "cancel", "expire", "pay", "refund", "complete"}
CreateCancel == {"create", "cancel"}
CreateCancelPay == {"create", "cancel", "pay"}
AdminTraffic == {"create", "cancel", "expire", "pay", "admin", "edit"}

\* One user's purchases; o1 carries a key, the others none.
OneUser   == {u1}
AllOfOne  == [o \in Orders |-> u1]
FirstKeyed == [o \in Orders |-> IF o = o1 THEN k1 ELSE NoIntent]
\* o1 and o3 are two requests for the same purchase.
Repeated  == [o \in Orders |-> IF o = o2 THEN NoIntent ELSE k1]

\* An administrator sells out or sells one more.
SmallRestocks == {0, 1}

\* Workers differ in nothing but their name.
WorkerSymmetry == Permutations(Workers)
=============================================================================
