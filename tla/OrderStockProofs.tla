-------------------------- MODULE OrderStockProofs --------------------------
(***************************************************************************)
(* Theorems about OrderStock for every set of orders, products, workers    *)
(* and request kinds.                                                      *)
(***************************************************************************)
EXTENDS OrderStock, FiniteSetTheorems, TLAPS

-----------------------------------------------------------------------------
(* Type correctness *)

(* The statement a worker is at tells which request it serves and what its  *)
(* target is; locks are held only by transactions that reached them, on     *)
(* what they are about.                                                     *)
Phases(w) ==
    /\ pc[w] = "idle" <=> kind[w] = "none"
    /\ pc[w] = "lockUser" => kind[w] = "create" /\ Intent[target[w]] # NoIntent
    /\ pc[w] = "readOrder" => kind[w] \in {"pay", "admin"}
    /\ pc[w] = "lockOrder" => kind[w] \in Releasing \cup {"pay", "refund"}
    /\ pc[w] = "loadItems" => kind[w] \in Releasing
    /\ pc[w] = "lockProducts" => kind[w] \in Releasing \cup {"create"}
    /\ pc[w] = "commit" => kind[w] \in Releasing \cup {"create", "pay", "refund"}
    /\ pc[w] = "writeOrder" => kind[w] = "admin" /\ seenOrder[w] \in OrderRow
    /\ pc[w] = "readProduct" => kind[w] = "edit"
    /\ pc[w] = "writeProduct" => kind[w] = "edit" /\ seenProduct[w][target[w]] \in ProductRow
    /\ kind[w] \in OrderKinds => target[w] \in Orders
    /\ kind[w] = "edit" => target[w] \in Products
    /\ kind[w] # "none" => kind[w] \in Kinds
    /\ pc[w] \in {"loadItems", "lockProducts", "commit"} /\ kind[w] # "create"
          => seenOrder[w] \in OrderRow

OrderLocks ==
    \A o \in Orders : \A w \in Workers :
        orderLock[o] = w => /\ target[w] = o
                            /\ pc[w] \in {"loadItems", "lockProducts", "commit"}

ProductLocks ==
    \A p \in Products : \A w \in Workers :
        productLock[p] = w =>
            /\ pc[w] \in {"lockProducts", "commit"}
            /\ kind[w] \in Releasing \cup {"create"}
            /\ p \in Items(target[w])
            /\ seenProduct[w][p] \in ProductRow

\* The row of a user is locked by creations of its orders that carry a key,
\* and by each of them from the moment it looks for an earlier order.
UserLocks ==
    \A w \in Workers :
        /\ \A u \in Users :
              userLock[u] = w => /\ kind[w] = "create" /\ Owner[target[w]] = u
                                 /\ Intent[target[w]] # NoIntent
                                 /\ pc[w] \in {"lockProducts", "commit"}
        /\ pc[w] \in {"lockProducts", "commit"} /\ kind[w] = "create" /\ Intent[target[w]] # NoIntent
              => userLock[Owner[target[w]]] = w

LockInv ==
    /\ TypeOK
    /\ \A w \in Workers : Phases(w)
    /\ OrderLocks
    /\ ProductLocks
    /\ UserLocks

(* What the case distinctions of the module come to, request by request.    *)
LEMMA WrittenRow ==
    ASSUME NEW row \in OrderRow
    PROVE  /\ Written("create", row) = [status |-> "pending", pay |-> "unpaid"]
           /\ Written("cancel", row) = [status |-> "cancelled", pay |-> row.pay]
           /\ Written("expire", row) = [status |-> "cancelled", pay |-> row.pay]
           /\ Written("pay", row) = [status |-> "paid", pay |-> "paid"]
           /\ Written("refund", row) = [status |-> row.status, pay |-> "refunding"]
           /\ Written("complete", row) = [status |-> "cancelled", pay |-> "refunded"]
  BY Zenon DEF Written

LEMMA CreatedRow ==
    ASSUME NEW row
    PROVE  Written("create", row) = [status |-> "pending", pay |-> "unpaid"]
  BY Zenon DEF Written

LEMMA FirstSteps ==
    ASSUME NEW k \in OrderKinds, NEW o
    PROVE  /\ k = "create" => FirstStep(k, o) = IF Intent[o] # NoIntent THEN "lockUser" ELSE "lockProducts"
           /\ k \in {"pay", "admin"} => FirstStep(k, o) = "readOrder"
           /\ k \in Releasing \cup {"refund"} => FirstStep(k, o) = "lockOrder"
  BY Zenon DEF FirstStep, OrderKinds, Releasing

LEMMA EditedRow ==
    ASSUME NEW row \in ProductRow, NEW new \in Edited(row)
    PROVE  new \in ProductRow /\ (row.stock >= 0 => new.stock >= 0)
<1>1. CASE new \in [stock : Restocks, onSale : BOOLEAN]
  <2>1. Restocks \subseteq Nat
    BY OrderStockAssumption
  <2>2. new.stock \in Nat /\ new.onSale \in BOOLEAN
        /\ new = [stock |-> new.stock, onSale |-> new.onSale]
    BY <1>1, <2>1
  <2> QED BY <2>2 DEF ProductRow
<1>2. CASE new = [stock |-> row.stock, onSale |-> FALSE]
  BY <1>2 DEF ProductRow
<1> QED BY <1>1, <1>2 DEF Edited

LEMMA AdminTargetStatuses ==
    ASSUME NEW status
    PROVE  AdminTargets(status) \subseteq Statuses \ {"none", "pending"}
  BY Zenon DEF AdminTargets, Statuses

-----------------------------------------------------------------------------
(* LockInv is an invariant: one lemma per action *)

LEMMA FinishType ==
    ASSUME TypeOK, NEW w \in Workers, Finish(w)
    PROVE  /\ userLock' \in [Users -> Workers \cup {NoWorker}]
           /\ taken' \in [Workers -> SUBSET (Products \X Products)]
           /\ orderLock' \in [Orders -> Workers \cup {NoWorker}]
           /\ productLock' \in [Products -> Workers \cup {NoWorker}]
           /\ pc' \in [Workers -> Steps]
           /\ kind' \in [Workers -> AllKinds \cup {"none"}]
           /\ target' \in [Workers -> Orders \cup Products \cup {NoTarget}]
           /\ seenOrder' \in [Workers -> OrderRow \cup {NotLoaded}]
           /\ seenProduct' \in [Workers -> [Products -> ProductRow \cup {NotLoaded}]]
  BY DEF TypeOK, Finish, Steps

LEMMA FinishLockInv ==
    ASSUME LockInv, NEW w \in Workers, Finish(w),
           order' \in [Orders -> OrderRow], product' \in [Products -> ProductRow],
           lines' \in [Orders -> SUBSET (Products \X Products)]
    PROVE  LockInv'
<1>1. TypeOK'
  BY FinishType DEF LockInv, TypeOK
<1>2. ASSUME NEW v \in Workers
      PROVE  Phases(v)'
  <2>1. CASE v = w
    BY <2>1, OrderStockAssumption DEF LockInv, TypeOK, Finish, Phases, AllKinds, OrderKinds, Releasing
  <2>2. CASE v # w
    BY <2>2 DEF LockInv, TypeOK, Finish, Phases
  <2> QED BY <2>1, <2>2
<1>3. OrderLocks'
  BY OrderStockAssumption DEF LockInv, TypeOK, Finish, OrderLocks
<1>4. ProductLocks'
  BY OrderStockAssumption DEF LockInv, TypeOK, Finish, ProductLocks, Items
<1>5. UserLocks'
  <2>1. /\ pc'[w] = "idle" /\ \A u \in Users : userLock'[u] # w
        /\ \A v \in Workers \ {w} : pc'[v] = pc[v] /\ kind'[v] = kind[v] /\ target'[v] = target[v]
        /\ \A v \in Workers \ {w}, u \in Users : userLock'[u] = v <=> userLock[u] = v
    BY OrderStockAssumption DEF LockInv, TypeOK, Finish
  <2>2. \A v \in Workers : kind[v] = "create" => Owner[target[v]] \in Users
    BY OrderStockAssumption DEF LockInv, Phases, OrderKinds
  <2> QED BY <2>1, <2>2 DEF LockInv, UserLocks
<1> QED BY <1>1, <1>2, <1>3, <1>4, <1>5 DEF LockInv

LEMMA BeginLockInv ==
    ASSUME LockInv, NEW w \in Workers, NEW k \in OrderKinds, NEW o \in Orders, Begin(w, k, o)
    PROVE  LockInv'
<1>1. FirstStep(k, o) \in Steps
  BY FirstSteps DEF OrderKinds, Releasing, Steps
<1>2. TypeOK'
  BY <1>1 DEF LockInv, TypeOK, Begin, AllKinds, rows, locks, context
<1>3. ASSUME NEW v \in Workers
      PROVE  Phases(v)'
  <2>1. CASE v = w
    BY <2>1, FirstSteps
    DEF LockInv, TypeOK, Begin, Phases, OrderKinds, Releasing, rows, locks, context
  <2>2. CASE v # w
    BY <2>2 DEF LockInv, TypeOK, Begin, Phases, rows, locks, context
  <2> QED BY <2>1, <2>2
<1>4. OrderLocks'
  <2>1. orderLock' = orderLock /\ pc[w] = "idle"
        /\ \A v \in Workers \ {w} : pc'[v] = pc[v] /\ target'[v] = target[v]
    BY DEF LockInv, TypeOK, Begin, locks
  <2>2. \A e \in Orders : orderLock[e] # w
    BY <2>1 DEF LockInv, OrderLocks
  <2> QED BY <2>1, <2>2 DEF LockInv, OrderLocks
<1>5. ProductLocks'
  BY DEF LockInv, TypeOK, Begin, ProductLocks, Items, rows, locks, context
<1>6. UserLocks'
  <2>1. \A u \in Users : userLock'[u] = userLock[u] /\ userLock[u] # w
    BY DEF LockInv, UserLocks, Begin, locks
  <2>2. kind'[w] = "create" /\ Intent[target'[w]] # NoIntent => pc'[w] = "lockUser"
    BY FirstSteps DEF LockInv, TypeOK, Begin
  <2> QED BY <2>1, <2>2 DEF LockInv, TypeOK, Begin, UserLocks, locks
<1> QED BY <1>2, <1>3, <1>4, <1>5, <1>6 DEF LockInv

LEMMA BeginEditLockInv ==
    ASSUME LockInv, NEW w \in Workers, NEW p \in Products, BeginEdit(w, p)
    PROVE  LockInv'
<1>1. TypeOK'
  BY DEF LockInv, TypeOK, BeginEdit, AllKinds, Steps, rows, locks, context
<1>2. ASSUME NEW v \in Workers
      PROVE  Phases(v)'
  BY DEF LockInv, TypeOK, BeginEdit, Phases, OrderKinds, Releasing, rows, locks, context
<1>3. OrderLocks'
  BY DEF LockInv, TypeOK, BeginEdit, OrderLocks, rows, locks, context
<1>4. ProductLocks'
  BY DEF LockInv, TypeOK, BeginEdit, ProductLocks, Items, rows, locks, context
<1>5. UserLocks'
  BY DEF LockInv, TypeOK, BeginEdit, UserLocks, locks
<1> QED BY <1>1, <1>2, <1>3, <1>4, <1>5 DEF LockInv

LEMMA LockUserLockInv ==
    ASSUME LockInv, NEW w \in Workers, LockUser(w)
    PROVE  LockInv'
<1> USE DEF LockUser, rows, request, context
<1>0. /\ kind[w] = "create" /\ target[w] \in Orders /\ Owner[target[w]] \in Users
      /\ userLock[Owner[target[w]]] = NoWorker /\ pc[w] = "lockUser"
  BY OrderStockAssumption DEF LockInv, Phases, OrderKinds, UserGranted
<1>1. TypeOK'
  BY <1>0 DEF LockInv, TypeOK, Steps
<1>2. ASSUME NEW v \in Workers
      PROVE  Phases(v)'
  <2>1. CASE v = w
    BY <1>0, <2>1 DEF LockInv, TypeOK, Phases, Releasing, OrderKinds
  <2>2. CASE v # w
    BY <2>2 DEF LockInv, TypeOK, Phases
  <2> QED BY <2>1, <2>2
<1>3. OrderLocks'
  BY DEF LockInv, TypeOK, OrderLocks
<1>4. ProductLocks'
  BY DEF LockInv, TypeOK, ProductLocks, Items
<1>5. UserLocks'
  <2> SUFFICES ASSUME NEW v \in Workers
               PROVE  /\ \A u \in Users :
                            userLock'[u] = v => /\ kind[v] = "create" /\ Owner[target[v]] = u
                                                /\ Intent[target[v]] # NoIntent
                                                /\ pc'[v] \in {"lockProducts", "commit"}
                      /\ pc'[v] \in {"lockProducts", "commit"} /\ kind[v] = "create"
                            /\ Intent[target[v]] # NoIntent => userLock'[Owner[target[v]]] = v
    BY DEF UserLocks
  <2>1. CASE v = w
    <3>1. Intent[target[w]] # NoIntent
      BY <1>0 DEF LockInv, Phases
    <3>2. \A u \in Users : userLock[u] # w
      BY <1>0 DEF LockInv, UserLocks
    <3> QED BY <1>0, <2>1, <3>1, <3>2 DEF LockInv, TypeOK
  <2>2. CASE v # w
    <3>1. pc'[v] = pc[v]
      BY <2>2 DEF LockInv, TypeOK
    <3>2. \A u \in Users : userLock'[u] = v => userLock[u] = v
      BY <1>0, <2>2 DEF LockInv, TypeOK
    <3>3. \A u \in Users : userLock[u] = v => userLock'[u] = v
      BY <1>0, OrderStockAssumption DEF LockInv, TypeOK
    <3>4. kind[v] = "create" => Owner[target[v]] \in Users
      BY OrderStockAssumption DEF LockInv, Phases, OrderKinds
    <3> QED BY <3>1, <3>2, <3>3, <3>4 DEF LockInv, UserLocks
  <2> QED BY <2>1, <2>2
<1> QED BY <1>1, <1>2, <1>3, <1>4, <1>5 DEF LockInv

LEMMA ReadLockInv ==
    ASSUME LockInv, NEW w \in Workers, ReadOrder(w) \/ SetStatus(w)
    PROVE  LockInv'
<1> USE DEF ReadOrder, SetStatus, rows, locks, request
<1>0. target[w] \in Orders /\ order[target[w]] \in OrderRow
  BY DEF LockInv, TypeOK, Phases, OrderKinds
<1>1. seenOrder' \in [Workers -> OrderRow \cup {NotLoaded}] /\ seenOrder'[w] \in OrderRow
  <2>1. CASE ReadOrder(w)
    BY <1>0, <2>1 DEF LockInv, TypeOK
  <2>2. CASE SetStatus(w)
    <3>1. PICK status \in AdminTargets(order[target[w]].status) :
             seenOrder' = [seenOrder EXCEPT ![w] = [order[target[w]] EXCEPT !.status = status]]
      BY <2>2
    <3>2. [order[target[w]] EXCEPT !.status = status] \in OrderRow
      BY <1>0, AdminTargetStatuses DEF OrderRow
    <3> QED BY <3>1, <3>2 DEF LockInv, TypeOK
  <2> QED BY <2>1, <2>2
<1>2. TypeOK'
  BY <1>1 DEF LockInv, TypeOK, Steps
<1>3. ASSUME NEW v \in Workers
      PROVE  Phases(v)'
  <2>1. CASE v = w
    BY <1>1, <2>1 DEF LockInv, TypeOK, Phases, Releasing
  <2>2. CASE v # w
    BY <2>2 DEF LockInv, TypeOK, Phases
  <2> QED BY <2>1, <2>2
<1>4. OrderLocks'
  BY DEF LockInv, TypeOK, OrderLocks
<1>5. ProductLocks'
  BY DEF LockInv, TypeOK, ProductLocks, Items
<1>6. UserLocks'
  BY DEF LockInv, TypeOK, UserLocks
<1> QED BY <1>2, <1>3, <1>4, <1>5, <1>6 DEF LockInv

LEMMA LockOrderLockInv ==
    ASSUME LockInv, NEW w \in Workers, LockOrder(w)
    PROVE  LockInv'
<1> USE DEF LockOrder, rows, request
<1>0. target[w] \in Orders /\ kind[w] \in Releasing \cup {"pay", "refund"}
  BY DEF LockInv, Phases, OrderKinds, Releasing
<1>1. OrderUnderLock(w) \in OrderRow
  BY <1>0 DEF LockInv, TypeOK, OrderUnderLock
<1>2. TypeOK'
  BY <1>0, <1>1 DEF LockInv, TypeOK, Steps
<1>3. ASSUME NEW v \in Workers
      PROVE  Phases(v)'
  <2>1. CASE v = w
    BY <1>0, <1>1, <2>1 DEF LockInv, TypeOK, Phases, Releasing
  <2>2. CASE v # w
    BY <2>2 DEF LockInv, TypeOK, Phases
  <2> QED BY <2>1, <2>2
<1>4. OrderLocks'
  <2> SUFFICES ASSUME NEW o \in Orders, NEW v \in Workers, orderLock'[o] = v
               PROVE  target'[v] = o /\ pc'[v] \in {"loadItems", "lockProducts", "commit"}
    BY DEF OrderLocks
  <2>1. CASE o = target[w]
    BY <1>0, <2>1 DEF LockInv, TypeOK
  <2>2. CASE o # target[w]
    BY <2>2 DEF LockInv, TypeOK, OrderLocks
  <2> QED BY <2>1, <2>2
<1>5. ProductLocks'
  BY DEF LockInv, TypeOK, ProductLocks, Items
<1>6. UserLocks'
  BY <1>0 DEF LockInv, TypeOK, UserLocks, Releasing
<1> QED BY <1>2, <1>3, <1>4, <1>5, <1>6 DEF LockInv

LEMMA LoadItemsLockInv ==
    ASSUME LockInv, NEW w \in Workers, LoadItems(w)
    PROVE  LockInv'
<1> USE DEF LoadItems, rows, locks, request
<1>1. TypeOK'
  BY DEF LockInv, TypeOK, Steps
<1>2. ASSUME NEW v \in Workers
      PROVE  Phases(v)'
  <2>1. CASE v = w
    BY <2>1 DEF LockInv, TypeOK, Phases, Releasing
  <2>2. CASE v # w
    BY <2>2 DEF LockInv, TypeOK, Phases
  <2> QED BY <2>1, <2>2
<1>3. OrderLocks'
  BY DEF LockInv, TypeOK, OrderLocks
<1>4. ProductLocks'
  BY DEF LockInv, TypeOK, ProductLocks, Items
<1>5. UserLocks'
  <2>1. /\ kind[w] # "create" /\ pc' = [pc EXCEPT ![w] = "lockProducts"] /\ pc \in [Workers -> Steps]
        /\ UNCHANGED <<userLock, kind, target>>
    BY DEF LockInv, TypeOK, Phases, Releasing
  <2>2. \A v \in Workers \ {w} : pc'[v] = pc[v]
    BY <2>1
  <2> QED BY <2>1, <2>2 DEF LockInv, UserLocks
<1> QED BY <1>1, <1>2, <1>3, <1>4, <1>5 DEF LockInv

(* Setting the stock on a product entity leaves a product entity.           *)
LEMMA LockedProduct ==
    ASSUME LockInv, NEW w \in Workers, NEW p \in Products, LockProduct(w, p)
    PROVE  /\ target[w] \in Orders
           /\ kind[w] \in Releasing \cup {"create"}
           /\ ProductUnderLock(w, p) \in ProductRow
           /\ seenProduct'[w][p] \in ProductRow
           /\ seenProduct'[w][p].stock = ProductUnderLock(w, p).stock +
                 (IF kind[w] = "create" THEN -Qty[target[w]][p] ELSE Qty[target[w]][p])
           /\ \A v \in Workers, q \in Products :
                 v # w \/ q # p => seenProduct'[v][q] = seenProduct[v][q]
           /\ seenProduct' \in [Workers -> [Products -> ProductRow \cup {NotLoaded}]]
<1>1. target[w] \in Orders /\ kind[w] \in Releasing \cup {"create"}
  BY DEF LockProduct, LockInv, Phases, OrderKinds, Releasing
<1>2. ProductUnderLock(w, p) \in ProductRow
  BY DEF LockInv, TypeOK, ProductUnderLock
<1> DEFINE change == IF kind[w] = "create" THEN -Qty[target[w]][p] ELSE Qty[target[w]][p]
           copy   == [ProductUnderLock(w, p) EXCEPT !.stock = @ + change]
<1>3. change \in Int
  BY <1>1, OrderStockAssumption
<1> HIDE DEF change
<1>4. copy \in ProductRow /\ copy.stock = ProductUnderLock(w, p).stock + change
  BY <1>2, <1>3 DEF ProductRow
<1>5. seenProduct' = [seenProduct EXCEPT ![w][p] = copy]
  BY DEF LockProduct, change
<1> HIDE DEF copy
<1> QED BY <1>1, <1>2, <1>4, <1>5 DEF change, LockInv, TypeOK

LEMMA LockProductLockInv ==
    ASSUME LockInv, NEW w \in Workers, NEW p \in Products, LockProduct(w, p)
    PROVE  LockInv'
<1>0. /\ pc[w] = "lockProducts" /\ NextProduct(w, p) /\ productLock[p] = NoWorker
      /\ productLock' = [productLock EXCEPT ![p] = w]
      /\ pc' = [pc EXCEPT ![w] = IF Remaining(w) = {p} THEN "commit" ELSE "lockProducts"]
      /\ UNCHANGED <<order, product, lines, userLock, orderLock, kind, target, seenOrder>>
  BY DEF LockProduct, Granted, rows, request
<1>1. TypeOK'
  <2>1. taken' \in [Workers -> SUBSET (Products \X Products)]
    BY DEF LockProduct, LockInv, TypeOK
  <2> QED BY <1>0, <2>1, LockedProduct DEF LockInv, TypeOK, Steps
<1>2. ASSUME NEW v \in Workers
      PROVE  Phases(v)'
  <2>1. CASE v = w
    <3>1. pc'[w] \in {"commit", "lockProducts"}
      BY <1>0 DEF LockInv, TypeOK
    <3>2. kind[w] = "create" \/ kind[w] \in Releasing
      BY LockedProduct
    <3>3. kind'[w] = kind[w] /\ target'[w] = target[w] /\ seenOrder'[w] = seenOrder[w]
      BY <1>0
    <3> QED BY <3>1, <3>2, <3>3, <2>1, <1>0, LockedProduct DEF LockInv, Phases, Releasing
  <2>2. CASE v # w
    <3>1. pc'[v] = pc[v] /\ target[v] \in Products => seenProduct'[v][target[v]] = seenProduct[v][target[v]]
      BY <1>0, <2>2, LockedProduct DEF LockInv, TypeOK
    <3> QED BY <1>0, <2>2, <3>1 DEF LockInv, Phases
  <2> QED BY <2>1, <2>2
<1>3. OrderLocks'
  BY <1>0 DEF LockInv, TypeOK, OrderLocks
<1>4. ProductLocks'
  <2> SUFFICES ASSUME NEW q \in Products, NEW v \in Workers, productLock'[q] = v
               PROVE  /\ pc'[v] \in {"lockProducts", "commit"}
                      /\ kind'[v] \in Releasing \cup {"create"}
                      /\ q \in Items(target'[v])
                      /\ seenProduct'[v][q] \in ProductRow
    BY DEF ProductLocks, Items
  <2>1. CASE q # p
    <3>1. productLock[q] = v
      BY <1>0, <2>1 DEF LockInv, TypeOK
    <3>2. pc'[v] \in {"lockProducts", "commit"} /\ seenProduct'[v][q] = seenProduct[v][q]
      BY <1>0, <2>1, <3>1, LockedProduct DEF LockInv, TypeOK, ProductLocks
    <3> QED BY <1>0, <3>1, <3>2 DEF LockInv, ProductLocks, Items
  <2>2. CASE v = w /\ q = p
    BY <1>0, <2>2, LockedProduct DEF LockInv, TypeOK, Items, NextProduct, Remaining
  <2>3. CASE q = p /\ v # w
    BY <1>0, <2>3 DEF LockInv, TypeOK
  <2> QED BY <2>1, <2>2, <2>3
<1>5. UserLocks'
  BY <1>0 DEF LockInv, TypeOK, UserLocks
<1> QED BY <1>1, <1>2, <1>3, <1>4, <1>5 DEF LockInv

LEMMA ReadProductLockInv ==
    ASSUME LockInv, NEW w \in Workers, ReadProduct(w)
    PROVE  LockInv'
<1> USE DEF ReadProduct, rows, locks, request
<1>0. target[w] \in Products /\ kind[w] = "edit" /\ product[target[w]] \in ProductRow
  BY DEF LockInv, Phases, TypeOK
<1>1. PICK row \in Edited(product[target[w]]) :
         seenProduct' = [seenProduct EXCEPT ![w][target[w]] = row]
  OBVIOUS
<1>2. row \in ProductRow
  BY <1>0, EditedRow
<1>3. TypeOK' /\ seenProduct'[w][target[w]] \in ProductRow
  BY <1>0, <1>1, <1>2 DEF LockInv, TypeOK, Steps
<1>4. \A v \in Workers : v # w => seenProduct'[v] = seenProduct[v]
  BY <1>1 DEF LockInv, TypeOK
<1>5. ASSUME NEW v \in Workers
      PROVE  Phases(v)'
  <2>1. CASE v = w
    BY <1>0, <1>3, <2>1 DEF LockInv, TypeOK, Phases, OrderKinds
  <2>2. CASE v # w
    BY <1>4, <2>2 DEF LockInv, TypeOK, Phases
  <2> QED BY <2>1, <2>2
<1>6. OrderLocks'
  BY DEF LockInv, TypeOK, OrderLocks
<1>7. ProductLocks'
  BY <1>4 DEF LockInv, TypeOK, ProductLocks, Items
<1>8. UserLocks'
  BY DEF LockInv, TypeOK, UserLocks
<1> QED BY <1>3, <1>5, <1>6, <1>7, <1>8 DEF LockInv

LEMMA CommitLockInv ==
    ASSUME LockInv, NEW w \in Workers, Commit(w)
    PROVE  LockInv'
<1>1. Written(kind[w], seenOrder[w]) \in OrderRow
  <2>1. CASE kind[w] = "create"
    BY <2>1, CreatedRow DEF OrderRow, Statuses, PayStatuses
  <2>2. CASE kind[w] # "create"
    <3>1. kind[w] \in Releasing \cup {"pay", "refund"} /\ seenOrder[w] \in OrderRow
      BY <2>2 DEF LockInv, Phases, Commit
    <3>2. /\ seenOrder[w].status \in Statuses /\ seenOrder[w].pay \in PayStatuses
          /\ "cancelled" \in Statuses /\ "paid" \in Statuses
          /\ {"paid", "refunding", "refunded"} \subseteq PayStatuses
      BY <3>1 DEF OrderRow, Statuses, PayStatuses
    <3> HIDE DEF Statuses, PayStatuses
    <3>3. \A status \in Statuses, pay \in PayStatuses : [status |-> status, pay |-> pay] \in OrderRow
      BY DEF OrderRow
    <3> QED BY <3>1, <3>2, <3>3, WrittenRow DEF Releasing
  <2> QED BY <2>1, <2>2
<1>2. order' \in [Orders -> OrderRow]
  BY <1>1 DEF Commit, LockInv, TypeOK
<1>3. product' \in [Products -> ProductRow]
  BY DEF Commit, LockInv, TypeOK, ProductLocks
<1>4. lines' \in [Orders -> SUBSET (Products \X Products)]
  BY DEF Commit, LockInv, TypeOK
<1> QED BY <1>2, <1>3, <1>4, FinishLockInv DEF Commit

LEMMA EndingLockInv ==
    ASSUME LockInv, NEW w \in Workers,
           \/ AnswerRepeat(w) \/ RefuseStatus(w) \/ RefuseOrder(w) \/ Rollback(w)
           \/ \E p \in Products : RefuseProduct(w, p)
           \/ WriteOrder(w) \/ WriteProduct(w)
    PROVE  LockInv'
<1>1. CASE WriteOrder(w)
  <2>1. seenOrder[w] \in OrderRow
    BY <1>1 DEF WriteOrder, LockInv, Phases
  <2> QED BY <1>1, <2>1, FinishLockInv DEF WriteOrder, LockInv, TypeOK
<1>2. CASE WriteProduct(w)
  <2>1. seenProduct[w][target[w]] \in ProductRow
    BY <1>2 DEF WriteProduct, LockInv, Phases
  <2> QED BY <1>2, <2>1, FinishLockInv DEF WriteProduct, LockInv, TypeOK
<1>3. CASE Finish(w) /\ UNCHANGED rows
  BY <1>3, FinishLockInv DEF LockInv, TypeOK, rows
<1> QED BY <1>1, <1>2, <1>3 DEF AnswerRepeat, RefuseStatus, RefuseOrder, Rollback, RefuseProduct

LEMMA InitLockInv == Init => LockInv
  BY OrderStockAssumption
  DEF Init, LockInv, TypeOK, Phases, OrderLocks, ProductLocks, UserLocks, Steps, OrderRow, Statuses,
      PayStatuses, ProductRow, OrderKinds

LEMMA NextLockInv == LockInv /\ [Next]_vars => LockInv'
<1> SUFFICES ASSUME LockInv, [Next]_vars
             PROVE  LockInv'
  OBVIOUS
<1>1. CASE UNCHANGED vars
  BY <1>1 DEF vars, rows, locks, request, context, LockInv, TypeOK, Phases, OrderLocks,
              ProductLocks, UserLocks, Items
<1>2. CASE Next
  BY <1>2, BeginLockInv, BeginEditLockInv, LockUserLockInv, ReadLockInv, LockOrderLockInv, LoadItemsLockInv,
     LockProductLockInv, ReadProductLockInv, CommitLockInv, EndingLockInv
  DEF Next, Progress
<1> QED BY <1>1, <1>2

(* The typing, the steps and the locks of every worker, kept by every step.  *)
THEOREM LockInvariant == Spec => []LockInv
<1>1. Init => LockInv
  BY InitLockInv
<1>2. LockInv /\ [Next]_vars => LockInv'
  BY NextLockInv
<1> QED BY <1>1, <1>2, PTL DEF Spec

(* TypeOK holds in every reachable state: the rows, locks and persistence   *)
(* contexts keep their shapes through every request and rollback.           *)
THEOREM TypeCorrect == Spec => []TypeOK
  BY LockInvariant, PTL DEF LockInv

-----------------------------------------------------------------------------
(* What orders are made of *)

\* Nobody's step touches another worker's request, copies or locks.
LEMMA OthersStay ==
    ASSUME LockInv, NEW w \in Workers, NEW v \in Workers, v # w,
           \/ \E k \in OrderKinds, o \in Orders : Begin(w, k, o)
           \/ \E p \in Products : BeginEdit(w, p)
           \/ Progress(w)
           \/ Rollback(w)
    PROVE  /\ kind'[v] = kind[v] /\ target'[v] = target[v] /\ pc'[v] = pc[v]
           /\ seenOrder'[v] = seenOrder[v] /\ taken'[v] = taken[v]
           /\ \A p \in Products : seenProduct'[v][p] = seenProduct[v][p]
           /\ \A p \in Products : productLock'[p] = v <=> productLock[p] = v
<1>1. CASE Finish(w)
  BY <1>1, OrderStockAssumption DEF Finish, LockInv, TypeOK
<1>2. ASSUME NEW p \in Products, LockProduct(w, p)
      PROVE  /\ kind' = kind /\ target' = target /\ pc'[v] = pc[v]
             /\ seenOrder' = seenOrder /\ taken'[v] = taken[v]
             /\ \A q \in Products : seenProduct'[v][q] = seenProduct[v][q]
             /\ \A q \in Products : productLock'[q] = v <=> productLock[q] = v
  <2>1. productLock' = [productLock EXCEPT ![p] = w] /\ productLock[p] = NoWorker
        /\ kind' = kind /\ target' = target /\ pc'[v] = pc[v]
        /\ seenOrder' = seenOrder /\ taken'[v] = taken[v]
    BY <1>2 DEF LockProduct, Granted, request, LockInv, TypeOK
  <2>2. \A q \in Products : seenProduct'[v][q] = seenProduct[v][q]
    BY <1>2, LockedProduct
  <2> QED BY <2>1, <2>2, OrderStockAssumption DEF LockInv, TypeOK
<1>3. CASE LoadItems(w)
  BY <1>3 DEF LoadItems, rows, locks, request, LockInv, TypeOK
<1>4. CASE ReadOrder(w) \/ SetStatus(w) \/ LockOrder(w)
  BY <1>4 DEF ReadOrder, SetStatus, LockOrder, rows, locks, request, LockInv, TypeOK
<1>5. CASE ReadProduct(w)
  BY <1>5 DEF ReadProduct, rows, locks, request, LockInv, TypeOK
<1>6. CASE \/ \E k \in OrderKinds, o \in Orders : Begin(w, k, o)
           \/ \E p \in Products : BeginEdit(w, p)
  BY <1>6 DEF Begin, BeginEdit, rows, locks, context, LockInv, TypeOK
<1>7. CASE LockUser(w)
  BY <1>7 DEF LockUser, rows, request, context, LockInv, TypeOK
<1> QED BY <1>1, <1>2, <1>3, <1>4, <1>5, <1>6, <1>7
        DEF Progress, AnswerRepeat, RefuseStatus, WriteOrder, RefuseOrder, RefuseProduct, Commit, WriteProduct, Rollback

\* The steps that write the tables.
LEMMA RowsChange ==
    ASSUME Next
    PROVE  \/ \E w \in Workers : Commit(w) \/ WriteOrder(w) \/ WriteProduct(w)
           \/ UNCHANGED rows
  BY DEF Next, Progress, Begin, BeginEdit, LockUser, AnswerRepeat, ReadOrder, SetStatus, RefuseStatus,
         LockOrder, RefuseOrder, LoadItems, LockProduct, RefuseProduct, ReadProduct, Rollback, rows

Ascending(S) == {pq \in S \X S : pq[1] < pq[2]}
Locked(w)    == {p \in Products : productLock[p] = w}

(* The products a worker holds are below those it still wants; a creation   *)
(* has built its items in that order, all of them when it commits; every    *)
(* other request is about an order that exists.                             *)
Itemised(w) ==
    /\ \A p \in Locked(w), q \in Remaining(w) : p < q
    /\ kind[w] \in {"none", "create"} => taken[w] = Ascending(Locked(w))
    /\ pc[w] = "commit" /\ kind[w] \in Releasing \cup {"create"} => Remaining(w) = {}
    /\ kind[w] \in OrderKinds \ {"create"} => order[target[w]].status # "none"
    /\ seenOrder[w] # NotLoaded => seenOrder[w].status # "none"

\* The items of an order are saved in ascending order of their products.
Saved == \A o \in Orders : order[o].status # "none" => lines[o] = Ascending(Items(o))

ItemInv ==
    /\ LockInv
    /\ \A w \in Workers : Itemised(w)
    /\ Saved

(* Whichever way a request finds its next product, it is the least of those *)
(* it still wants.                                                          *)
LEMMA NextAscends ==
    ASSUME ItemInv, NEW w \in Workers, NEW p \in Products, NextProduct(w, p),
           pc[w] = "lockProducts"
    PROVE  p \in Remaining(w) /\ \A q \in Remaining(w) : p <= q
<1>1. p \in Remaining(w)
  BY DEF NextProduct
<1>2. CASE kind[w] = "complete"
  <2>1. target[w] \in Orders /\ lines[target[w]] = Ascending(Items(target[w]))
    BY <1>2 DEF ItemInv, LockInv, Phases, Itemised, Saved, OrderKinds
  <2>2. \A q \in Remaining(w) : <<q, p>> \notin lines[target[w]]
    BY <1>2 DEF NextProduct
  <2>3. ASSUME NEW q \in Remaining(w)
        PROVE  p <= q
    <3>1. <<q, p>> \in Items(target[w]) \X Items(target[w])
      BY <1>1 DEF Remaining
    <3>2. ~(q < p)
      BY <2>1, <2>2, <3>1 DEF Ascending
    <3> QED BY <1>1, <3>2, OrderStockAssumption DEF Remaining, Items
  <2> QED BY <1>1, <2>3
<1>3. CASE kind[w] # "complete"
  BY <1>1, <1>3 DEF NextProduct
<1> QED BY <1>2, <1>3

LEMMA LockProductItems ==
    ASSUME ItemInv, NEW w \in Workers, NEW p \in Products, LockProduct(w, p)
    PROVE  Itemised(w)'
<1>1. /\ productLock' = [productLock EXCEPT ![p] = w] /\ pc[w] = "lockProducts"
      /\ taken' = [taken EXCEPT ![w] = @ \cup {<<q, p>> : q \in {r \in Products : productLock[r] = w}}]
      /\ pc'[w] = IF Remaining(w) = {p} THEN "commit" ELSE "lockProducts"
      /\ UNCHANGED <<order, kind, target, seenOrder>>
  BY DEF LockProduct, rows, request, ItemInv, LockInv, TypeOK
<1>2. p \in Remaining(w) /\ \A q \in Remaining(w) : p <= q
  BY <1>1, NextAscends DEF LockProduct
<1>3. productLock \in [Products -> Workers \cup {NoWorker}] /\ taken \in [Workers -> SUBSET (Products \X Products)]
  BY DEF ItemInv, LockInv, TypeOK
<1>4. Locked(w)' = Locked(w) \cup {p} /\ Remaining(w)' = Remaining(w) \ {p} /\ p \notin Locked(w)
  BY <1>1, <1>2, <1>3, OrderStockAssumption DEF Remaining, Items, Locked
<1>5. \A q \in Locked(w) : q < p
  BY <1>2 DEF ItemInv, Itemised
<1>6. \A q \in Locked(w)', r \in Remaining(w)' : q < r
  <2>1. Products \subseteq Int /\ Remaining(w) \subseteq Products
    BY OrderStockAssumption DEF Remaining, Items
  <2>2. \A r \in Remaining(w) \ {p} : p < r
    BY <1>2, <2>1
  <2> QED BY <1>4, <2>2 DEF ItemInv, Itemised
<1>7. kind[w] = "create" => taken'[w] = Ascending(Locked(w)')
  <2> SUFFICES ASSUME kind[w] = "create"
               PROVE  taken'[w] = Ascending(Locked(w)')
    OBVIOUS
  <2>1. taken'[w] = Ascending(Locked(w)) \cup {<<q, p>> : q \in Locked(w)}
    BY <1>1, <1>3 DEF Locked, ItemInv, Itemised
  <2>2. \A q \in Locked(w) : q \in Int /\ ~(p < q) /\ p \in Int
    BY <1>5, OrderStockAssumption DEF Locked
  <2>3. ~(p < p)
    BY OrderStockAssumption
  <2>4. Ascending(Locked(w) \cup {p}) = Ascending(Locked(w)) \cup {<<q, p>> : q \in Locked(w)}
    BY <1>5, <2>2, <2>3 DEF Ascending
  <2> QED BY <1>4, <2>1, <2>4
<1>8. kind[w] # "none"
  BY <1>1 DEF ItemInv, LockInv, Phases, Releasing
<1> QED BY <1>1, <1>4, <1>6, <1>7, <1>8 DEF ItemInv, Itemised, Ascending

(* What a commit or an administrator's write leaves of the orders.          *)
LEMMA WrittenOrders ==
    ASSUME ItemInv, NEW w \in Workers, Commit(w) \/ WriteOrder(w)
    PROVE  /\ \A o \in Orders : order[o].status # "none" => order'[o].status # "none"
           /\ \A o \in Orders : order'[o] = order[o] \/ (o = target[w] /\ order'[o].status # "none")
           /\ kind[w] # "create" => lines' = lines /\ order[target[w]].status # "none"
<1>1. target[w] \in Orders /\ kind[w] \in OrderKinds
  BY DEF Commit, WriteOrder, ItemInv, LockInv, Phases, OrderKinds, Releasing
<1>2. CASE WriteOrder(w)
  <2>1. seenOrder[w].status # "none" /\ kind[w] = "admin"
    BY <1>2, OrderStockAssumption DEF WriteOrder, ItemInv, LockInv, Phases, Itemised
  <2> QED BY <1>1, <1>2, <2>1 DEF WriteOrder, ItemInv, LockInv, TypeOK, Itemised
<1>3. CASE Commit(w)
  <2>1. Written(kind[w], seenOrder[w]).status # "none"
    <3>1. CASE kind[w] = "create"
      BY <3>1, CreatedRow
    <3>2. CASE kind[w] # "create"
      <4>1. /\ kind[w] \in Releasing \cup {"pay", "refund"} /\ seenOrder[w] \in OrderRow
            /\ seenOrder[w].status # "none"
        BY <1>3, <3>2, OrderStockAssumption DEF Commit, ItemInv, LockInv, Phases, Itemised
      <4> QED BY <4>1, WrittenRow DEF Releasing
    <3> QED BY <3>1, <3>2
  <2> QED BY <1>1, <1>3, <2>1 DEF Commit, ItemInv, LockInv, TypeOK, Itemised
<1> QED BY <1>2, <1>3

LEMMA NextSaved == ASSUME ItemInv, Next PROVE Saved'
<1>1. CASE UNCHANGED rows
  BY <1>1 DEF rows, ItemInv, Saved, Ascending, Items
<1>2. ASSUME NEW w \in Workers, WriteProduct(w)
      PROVE  Saved'
  BY <1>2 DEF WriteProduct, ItemInv, Saved, Ascending, Items
<1>3. ASSUME NEW w \in Workers, Commit(w) \/ WriteOrder(w)
      PROVE  Saved'
  <2>1. CASE kind[w] # "create"
    BY <1>3, <2>1, WrittenOrders DEF ItemInv, Saved, Ascending, Items
  <2>2. CASE kind[w] = "create"
    <3>1. Commit(w) /\ target[w] \in Orders
      BY <1>3, <2>2 DEF WriteOrder, ItemInv, LockInv, Phases, OrderKinds
    <3>2. lines' = [lines EXCEPT ![target[w]] = taken[w]]
      BY <2>2, <3>1 DEF Commit
    <3>3. Locked(w) = Items(target[w])
      BY <2>2, <3>1 DEF Commit, ItemInv, Itemised, LockInv, ProductLocks, Locked, Remaining, Items
    <3>4. lines'[target[w]] = Ascending(Items(target[w]))
      BY <2>2, <3>1, <3>2, <3>3 DEF ItemInv, Itemised, LockInv, TypeOK
    <3>5. \A o \in Orders \ {target[w]} : lines'[o] = lines[o] /\ order'[o] = order[o]
      BY <1>3, <3>1, <3>2, WrittenOrders DEF ItemInv, LockInv, TypeOK
    <3> QED BY <3>1, <3>4, <3>5 DEF ItemInv, Saved, Ascending, Items
  <2> QED BY <2>1, <2>2
<1> QED BY <1>1, <1>2, <1>3, RowsChange

\* Orders that exist go on existing.
LEMMA OrdersStay ==
    ASSUME ItemInv, Next, NEW o \in Orders, order[o].status # "none"
    PROVE  order'[o].status # "none"
  BY RowsChange, WrittenOrders DEF rows, WriteProduct

LEMMA NextItemised ==
    ASSUME ItemInv, Next, LockInv'
    PROVE  \A v \in Workers : Itemised(v)'
<1>1. PICK w \in Workers :
        \/ \E k \in OrderKinds, o \in Orders : Begin(w, k, o)
        \/ \E p \in Products : BeginEdit(w, p)
        \/ Progress(w)
        \/ Rollback(w)
  BY DEF Next
<1>2. ASSUME NEW v \in Workers, v # w
      PROVE  Itemised(v)'
  <2>1. /\ kind'[v] = kind[v] /\ target'[v] = target[v] /\ pc'[v] = pc[v]
        /\ seenOrder'[v] = seenOrder[v] /\ taken'[v] = taken[v]
        /\ Locked(v)' = Locked(v) /\ Remaining(v)' = Remaining(v)
    BY <1>1, <1>2, OthersStay DEF ItemInv, Locked, Remaining, Items
  <2>2. kind[v] \in OrderKinds => target[v] \in Orders
    BY DEF ItemInv, LockInv, Phases
  <2> QED BY <2>1, <2>2, OrdersStay DEF ItemInv, Itemised, Ascending
<1>3. Itemised(w)'
  <2> USE DEF ItemInv
  <2>1. CASE Finish(w)
    <3>1. /\ kind'[w] = "none" /\ pc'[w] = "idle" /\ taken'[w] = {} /\ seenOrder'[w] = NotLoaded
          /\ Locked(w)' = {}
      BY <2>1, OrderStockAssumption DEF Finish, LockInv, TypeOK, Locked
    <3> QED BY <3>1 DEF Itemised, Ascending, OrderKinds
  <2>2. CASE \E p \in Products : LockProduct(w, p)
    BY <2>2, LockProductItems
  <2>3. CASE \/ \E k \in OrderKinds, o \in Orders : Begin(w, k, o)
             \/ \E p \in Products : BeginEdit(w, p)
    <3>1. /\ pc[w] = "idle" /\ kind[w] = "none" /\ Locked(w) = {}
          /\ Locked(w)' = {} /\ taken' = taken /\ seenOrder' = seenOrder /\ order' = order
      BY <2>3 DEF Begin, BeginEdit, LockInv, Phases, ProductLocks, Locked, rows, locks, context
    <3>2. pc'[w] # "commit"
      <4>1. ASSUME NEW k \in OrderKinds, NEW o \in Orders
            PROVE  FirstStep(k, o) # "commit"
        BY FirstSteps DEF OrderKinds, Releasing
      <4> QED BY <2>3, <4>1 DEF Begin, BeginEdit, LockInv, TypeOK
    <3>3. kind'[w] \in OrderKinds \ {"create"} => order[target'[w]].status # "none"
      BY <2>3 DEF Begin, BeginEdit, LockInv, TypeOK, OrderKinds
    <3> QED BY <3>1, <3>2, <3>3 DEF Itemised, Ascending
  <2>4. CASE LockUser(w)
    <3>1. UNCHANGED <<order, productLock, kind, target, seenOrder, taken>> /\ pc'[w] = "lockProducts"
      BY <2>4 DEF LockUser, rows, request, context, LockInv, TypeOK
    <3> QED BY <3>1 DEF Itemised, Ascending, Locked, Remaining, Items
  <2>5. CASE LoadItems(w) \/ ReadOrder(w) \/ SetStatus(w) \/ LockOrder(w) \/ ReadProduct(w)
    <3>1. /\ UNCHANGED <<order, productLock, kind, target, taken>>
          /\ pc[w] \in {"loadItems", "readOrder", "lockOrder", "readProduct"}
          /\ pc'[w] = "commit" => kind[w] \notin Releasing \cup {"create"}
      BY <2>5
      DEF LoadItems, ReadOrder, SetStatus, LockOrder, ReadProduct, rows, locks, request, LockInv, TypeOK,
          Phases, Releasing
    <3>2. seenOrder'[w] # NotLoaded => seenOrder'[w].status # "none"
      <4>0. pc[w] \in {"readOrder", "lockOrder"} =>
              /\ target[w] \in Orders /\ order[target[w]].status # "none"
              /\ order[target[w]] \in OrderRow
        BY DEF LockInv, TypeOK, Phases, OrderKinds, Releasing, Itemised
      <4>1. CASE SetStatus(w)
        <5>1. PICK status \in AdminTargets(order[target[w]].status) :
                 seenOrder' = [seenOrder EXCEPT ![w] = [order[target[w]] EXCEPT !.status = status]]
          BY <4>1 DEF SetStatus
        <5> QED BY <4>0, <4>1, <5>1, AdminTargetStatuses DEF SetStatus, LockInv, TypeOK, OrderRow
      <4>2. CASE ReadOrder(w)
        BY <4>0, <4>2 DEF ReadOrder, LockInv, TypeOK
      <4>3. CASE LockOrder(w)
        BY <4>0, <4>3 DEF LockOrder, OrderUnderLock, LockInv, TypeOK, Itemised
      <4>4. CASE LoadItems(w) \/ ReadProduct(w)
        BY <4>4 DEF LoadItems, ReadProduct, Itemised
      <4> QED BY <2>5, <4>1, <4>2, <4>3, <4>4
    <3> QED BY <3>1, <3>2 DEF Itemised, Ascending, Locked, Remaining, Items
  <2> QED BY <1>1, <2>1, <2>2, <2>3, <2>4, <2>5
          DEF Progress, AnswerRepeat, RefuseStatus, WriteOrder, RefuseOrder, RefuseProduct, Commit,
              WriteProduct, Rollback
<1> QED BY <1>2, <1>3

LEMMA NextItemInv == ItemInv /\ [Next]_vars => ItemInv'
<1> SUFFICES ASSUME ItemInv, [Next]_vars
             PROVE  ItemInv'
  OBVIOUS
<1>1. LockInv'
  BY NextLockInv DEF ItemInv
<1>2. CASE UNCHANGED vars
  <2>1. \A w \in Workers : Itemised(w)'
    BY <1>2 DEF vars, rows, locks, request, context, ItemInv, Itemised, Ascending, Locked, Remaining, Items
  <2>2. Saved'
    BY <1>2 DEF vars, rows, ItemInv, Saved, Ascending, Items
  <2> QED BY <1>1, <2>1, <2>2 DEF ItemInv
<1>3. CASE Next
  BY <1>1, <1>3, NextItemised, NextSaved DEF ItemInv
<1> QED BY <1>2, <1>3

LEMMA InitItemInv == Init => ItemInv
<1> SUFFICES ASSUME Init PROVE ItemInv
  OBVIOUS
<1>1. \A w \in Workers : Locked(w) = {}
  BY OrderStockAssumption DEF Init, Locked
<1>2. \A w \in Workers : Itemised(w)
  BY <1>1 DEF Init, Itemised, Ascending, OrderKinds
<1>3. Saved
  BY DEF Init, Saved
<1> QED BY <1>2, <1>3, InitLockInv DEF ItemInv

LEMMA ItemInvariant == Spec => []ItemInv
  BY InitItemInv, NextItemInv, PTL DEF Spec

-----------------------------------------------------------------------------
(* Deadlocks *)

(* A transaction that others wait for and that waits itself is taking       *)
(* products, or inserts an order while another one has locked its user.     *)
LEMMA WaitingHolder ==
    ASSUME ItemInv, NEW w \in Workers, NEW v \in Workers, NEW u \in Workers,
           WaitsFor(w, v), WaitsFor(v, u)
    PROVE  \/ /\ pc[v] = "lockProducts"
              /\ \E p \in Products : NextProduct(v, p) /\ productLock[p] = u
           \/ /\ pc[v] = "commit" /\ kind[v] = "create" /\ u # v
              /\ userLock[Owner[target[v]]] = u
<1>1. pc[v] \in {"loadItems", "lockProducts", "commit"}
  <2>1. CASE pc[w] \in {"lockOrder", "writeOrder"} /\ orderLock[target[w]] = v
    <3>1. target[w] \in Orders
      BY <2>1 DEF ItemInv, LockInv, Phases, OrderKinds, Releasing
    <3> QED BY <2>1, <3>1 DEF ItemInv, LockInv, OrderLocks
  <2>2. CASE \E p \in Products : productLock[p] = v
    BY <2>2 DEF ItemInv, LockInv, ProductLocks
  <2>3. CASE pc[w] = "writeProduct" /\ productLock[target[w]] = v
    BY <2>3, <2>2 DEF ItemInv, LockInv, Phases
  <2>4. CASE pc[w] \in {"lockUser", "commit"} /\ kind[w] = "create" /\ userLock[Owner[target[w]]] = v
    <3>1. Owner[target[w]] \in Users
      BY <2>4, OrderStockAssumption DEF ItemInv, LockInv, Phases, OrderKinds
    <3> QED BY <2>4, <3>1 DEF ItemInv, LockInv, UserLocks
  <2>5. pc[w] = "lockUser" => kind[w] = "create"
    BY DEF ItemInv, LockInv, Phases
  <2> QED BY <2>1, <2>2, <2>3, <2>4, <2>5 DEF WaitsFor
<1> QED BY <1>1 DEF WaitsFor

\* Who waits for its INSERT has no key, and who makes it wait has one.
LEMMA InsertWaits ==
    ASSUME ItemInv, NEW w \in Workers, NEW v \in Workers,
           pc[w] = "commit", kind[w] = "create", v # w, userLock[Owner[target[w]]] = v
    PROVE  /\ Intent[target[w]] = NoIntent
           /\ kind[v] = "create" /\ Intent[target[v]] # NoIntent
           /\ Owner[target[v]] = Owner[target[w]]
           /\ pc[v] \in {"lockProducts", "commit"}
<1>1. Owner[target[w]] \in Users
  BY OrderStockAssumption DEF ItemInv, LockInv, Phases, OrderKinds
<1> QED BY <1>1 DEF ItemInv, LockInv, UserLocks

LEMMA ItemInvDeadlocks == ItemInv => OnlyIntentsDeadlock
<1> SUFFICES ASSUME ItemInv, NEW S \in (SUBSET Workers) \ {{}},
                    \A w \in S : \E v \in S : WaitsFor(w, v)
             PROVE  \E w, v \in S :
                        /\ kind[w] = "create" /\ Intent[target[w]] = NoIntent
                        /\ kind[v] = "create" /\ Intent[target[v]] # NoIntent
                        /\ Owner[target[w]] = Owner[target[v]]
                        /\ pc[w] = "commit" /\ pc[v] = "lockProducts"
  BY DEF OnlyIntentsDeadlock
<1>1. CASE \E w, v \in S : pc[w] = "commit" /\ kind[w] = "create" /\ v # w
                           /\ userLock[Owner[target[w]]] = v
  <2>1. PICK w \in S, v \in S : pc[w] = "commit" /\ kind[w] = "create" /\ v # w
                                /\ userLock[Owner[target[w]]] = v
    BY <1>1
  <2>2. /\ Intent[target[w]] = NoIntent
        /\ kind[v] = "create" /\ Intent[target[v]] # NoIntent
        /\ Owner[target[v]] = Owner[target[w]]
        /\ pc[v] \in {"lockProducts", "commit"}
    BY <2>1, InsertWaits
  <2>3. pc[v] # "commit"
    <3>1. PICK u \in S : WaitsFor(v, u)
      OBVIOUS
    <3>2. userLock[Owner[target[v]]] = v
      BY <2>2 DEF ItemInv, LockInv, UserLocks
    <3> QED BY <3>1, <3>2 DEF WaitsFor
  <2> QED BY <2>1, <2>2, <2>3
<1>2. CASE ~\E w, v \in S : pc[w] = "commit" /\ kind[w] = "create" /\ v # w
                            /\ userLock[Owner[target[w]]] = v
  <2> SUFFICES FALSE
    OBVIOUS
  <2> DEFINE Wants(v, p) == pc[v] = "lockProducts" /\ NextProduct(v, p)
             Awaited == {p \in Products : \E w \in S : Wants(w, p) /\ productLock[p] \in S}
  <2>1. ASSUME NEW w \in S, NEW v \in S, WaitsFor(w, v)
        PROVE  \E p \in Awaited : Wants(v, p)
    <3>1. PICK u \in S : WaitsFor(v, u)
      OBVIOUS
    <3>2. pc[v] = "lockProducts" /\ \E p \in Products : NextProduct(v, p) /\ productLock[p] = u
      BY <1>2, <2>1, <3>1, WaitingHolder
    <3> QED BY <3>2
  <2>2. Awaited # {}
    BY <2>1
  <2>3. PICK m \in Awaited : \A p \in Awaited : p <= m
    BY <2>2, ProductOrderAssumption
  <2>4. PICK w \in S : Wants(w, m) /\ productLock[m] \in S
    OBVIOUS
  <2> DEFINE v == productLock[m]
  <2>5. v \in S /\ m \in Products /\ WaitsFor(w, v)
    BY <2>4 DEF WaitsFor
  <2>6. PICK q \in Awaited : Wants(v, q)
    BY <2>1, <2>5
  <2>7. m < q
    <3>1. q \in Remaining(v) /\ m \in Locked(v)
      BY <2>5, <2>6 DEF NextProduct, Locked
    <3> QED BY <2>5, <3>1 DEF ItemInv, Itemised
  <2> QED BY <2>3, <2>5, <2>6, <2>7, OrderStockAssumption
<1> QED BY <1>1, <1>2

(* Whatever requests meet, with or without the refresh of locked entities,  *)
(* InnoDB has one kind of deadlock to break: a creation with an intent key, *)
(* which has locked its user's row, and one of the same user without a key, *)
(* which needs the row for its INSERT when it holds products already.       *)
THEOREM OneDeadlock == Spec => []OnlyIntentsDeadlock
  BY ItemInvariant, ItemInvDeadlocks, PTL

-----------------------------------------------------------------------------
(* Intents *)

IntentInv == ItemInv /\ IntentsOrderedOnce

\* Two creations for one intent are not both past the look for an order of it.
LEMMA OneForIntent ==
    ASSUME ItemInv, NEW w \in Workers, NEW v \in Workers, kind[w] = "create", kind[v] = "create",
           pc[w] \in {"lockProducts", "commit"}, pc[v] \in {"lockProducts", "commit"},
           Intent[target[w]] # NoIntent, SameIntent(target[w], target[v])
    PROVE  v = w
  BY DEF ItemInv, LockInv, UserLocks, SameIntent

LEMMA CreationSteps ==
    ASSUME LockInv, NEW w \in Workers, kind[w] = "create"
    PROVE  target[w] \in Orders /\ pc[w] \in {"lockUser", "lockProducts", "commit"}
  BY DEF LockInv, TypeOK, Phases, Steps, OrderKinds, Releasing

LEMMA NextIntents ==
    ASSUME IntentInv, ItemInv', Next
    PROVE  IntentsOrderedOnce'
<1> SUFFICES ASSUME NEW o \in Orders, Intent[o] # NoIntent
             PROVE  /\ \A e \in Orders \ {o} :
                          order'[o].status # "none" /\ SameIntent(o, e) => order'[e].status = "none"
                    /\ \A v \in Workers :
                          kind'[v] = "create" /\ target'[v] = o /\ pc'[v] # "lockUser" =>
                             \A e \in Orders : order'[e].status # "none" => ~SameIntent(o, e)
  BY DEF IntentsOrderedOnce, Ordered, SameIntent
<1>1. PICK w \in Workers :
        \/ \E k \in OrderKinds, p \in Orders : Begin(w, k, p)
        \/ \E p \in Products : BeginEdit(w, p)
        \/ Progress(w)
        \/ Rollback(w)
  BY DEF Next
<1>2. ASSUME NEW e \in Orders, order'[e].status # "none", order[e].status = "none"
      PROVE  \E v \in Workers : Commit(v) /\ kind[v] = "create" /\ target[v] = e
  <2>1. PICK v \in Workers : Commit(v) \/ WriteOrder(v)
    BY <1>2, RowsChange DEF rows, WriteProduct
  <2>2. kind[v] = "create" /\ target[v] = e
    BY <1>2, <2>1, WrittenOrders DEF IntentInv
  <2>3. ~WriteOrder(v)
    BY <2>2 DEF WriteOrder, IntentInv, ItemInv, LockInv, Phases
  <2> QED BY <2>1, <2>2, <2>3
<1>3. ASSUME NEW v \in Workers, kind'[v] = "create", target'[v] = o, pc'[v] # "lockUser"
      PROVE  kind[v] = "create" /\ target[v] = o /\ (pc[v] # "lockUser" \/ ~Ordered(o))
  <2>1. CASE v # w
    BY <1>1, <1>3, <2>1, OthersStay DEF IntentInv, ItemInv
  <2>2. CASE v = w
    <3>1. CASE Finish(w)
      BY <1>3, <2>2, <3>1 DEF Finish, IntentInv, ItemInv, LockInv, TypeOK
    <3>2. CASE \/ \E k \in OrderKinds, p \in Orders : Begin(w, k, p)
               \/ \E p \in Products : BeginEdit(w, p)
      <4>1. \A p \in Products : ~BeginEdit(w, p)
        BY <1>3, <2>2 DEF BeginEdit, IntentInv, ItemInv, LockInv, TypeOK
      <4>2. PICK k \in OrderKinds, p \in Orders : Begin(w, k, p)
        BY <3>2, <4>1
      <4>3. k = "create" /\ p = o /\ pc'[w] = FirstStep(k, p)
        BY <1>3, <2>2, <4>2 DEF Begin, IntentInv, ItemInv, LockInv, TypeOK
      <4> QED BY <1>3, <2>2, <4>3, FirstSteps
    <3>3. CASE LockUser(w)
      BY <1>3, <2>2, <3>3 DEF LockUser, request
    <3>4. CASE \E p \in Products : LockProduct(w, p)
      BY <1>3, <2>2, <3>4 DEF LockProduct, request
    <3>5. CASE LoadItems(w) \/ ReadOrder(w) \/ SetStatus(w) \/ LockOrder(w) \/ ReadProduct(w)
      BY <1>3, <2>2, <3>5
      DEF LoadItems, ReadOrder, SetStatus, LockOrder, ReadProduct, request, IntentInv, ItemInv, LockInv,
          Phases, Releasing
    <3> QED BY <1>1, <3>1, <3>2, <3>3, <3>4, <3>5
            DEF Progress, AnswerRepeat, RefuseStatus, WriteOrder, RefuseOrder, RefuseProduct, Commit,
                WriteProduct, Rollback
  <2> QED BY <2>1, <2>2
<1>4. ASSUME NEW e \in Orders, order'[e].status # "none", SameIntent(o, e),
             NEW v \in Workers, kind'[v] = "create", target'[v] = o, pc'[v] # "lockUser"
      PROVE  FALSE
  <2>1. kind[v] = "create" /\ target[v] = o /\ ~Ordered(o)
    BY <1>3, <1>4 DEF IntentInv, IntentsOrderedOnce
  <2>2. order[e].status = "none"
    BY <1>4, <2>1 DEF Ordered
  <2>3. PICK u \in Workers : Commit(u) /\ kind[u] = "create" /\ target[u] = e
    BY <1>2, <1>4, <2>2
  <2>4. pc[u] = "commit" /\ u # v
    BY <1>4, <2>3 DEF Commit, Finish, IntentInv, ItemInv, LockInv, TypeOK
  <2>5. pc[v] # "lockUser"
    <3>1. w = u
      <4> SUFFICES ASSUME w # u PROVE FALSE
        OBVIOUS
      <4>1. pc'[u] = pc[u]
        BY <1>1, OthersStay DEF IntentInv, ItemInv
      <4> QED BY <2>3, <2>4, <4>1 DEF Commit, Finish, IntentInv, ItemInv, LockInv, TypeOK
    <3>2. pc'[v] = pc[v]
      BY <1>1, <2>4, <3>1, OthersStay DEF IntentInv, ItemInv
    <3> QED BY <1>4, <3>2
  <2>6. pc[v] \in {"lockProducts", "commit"}
    BY <2>1, <2>5, CreationSteps DEF IntentInv, ItemInv
  <2>7. Intent[target[u]] # NoIntent /\ SameIntent(target[u], target[v])
    BY <1>4, <2>1, <2>3 DEF SameIntent
  <2> QED BY <2>1, <2>3, <2>4, <2>6, <2>7, OneForIntent DEF IntentInv
<1>5. ASSUME NEW e \in Orders \ {o}, order'[o].status # "none", SameIntent(o, e), order'[e].status # "none"
      PROVE  FALSE
  <2>1. order[o].status = "none" \/ order[e].status = "none"
    BY <1>5 DEF IntentInv, IntentsOrderedOnce
  <2>2. Intent[e] # NoIntent /\ SameIntent(e, o)
    BY <1>5 DEF SameIntent
  <2>3. ASSUME NEW a \in Orders, NEW b \in Orders, a # b, Intent[a] # NoIntent, SameIntent(a, b),
               order[a].status = "none", order'[a].status # "none", order'[b].status # "none"
        PROVE  FALSE
    <3>1. PICK u \in Workers : Commit(u) /\ kind[u] = "create" /\ target[u] = a
      BY <1>2, <2>3
    <3>2. ~Ordered(a)
      BY <2>3, <3>1 DEF IntentInv, IntentsOrderedOnce, Commit
    <3>3. order[b].status = "none"
      BY <2>3, <3>2 DEF Ordered
    <3>4. PICK v \in Workers : Commit(v) /\ kind[v] = "create" /\ target[v] = b
      BY <1>2, <2>3, <3>3
    <3>5. v = u
      BY <2>3, <3>1, <3>4, OneForIntent DEF IntentInv, Commit
    <3> QED BY <2>3, <3>1, <3>4, <3>5
  <2> QED BY <1>5, <2>1, <2>2, <2>3
<1> QED BY <1>4, <1>5

(* For any users, keys and workers: an intent is ordered once, and whoever  *)
(* found no order of it under the user's lock is the only one to make it.   *)
THEOREM IntentsOnce == Spec => []IntentsOrderedOnce
<1>1. Init => IntentsOrderedOnce
  BY DEF Init, IntentsOrderedOnce, Ordered
<1>2. ItemInv /\ ItemInv' /\ IntentsOrderedOnce /\ [Next]_vars => IntentsOrderedOnce'
  <2>1. UNCHANGED vars /\ IntentsOrderedOnce => IntentsOrderedOnce'
    BY DEF vars, rows, request, IntentsOrderedOnce, Ordered, SameIntent
  <2> QED BY <2>1, NextIntents DEF IntentInv
<1> QED BY <1>1, <1>2, ItemInvariant, PTL DEF Spec

-----------------------------------------------------------------------------
(* Decisions are made on the locked row                                     *)

(* While a transaction holds its order the entity it decided on is one the  *)
(* request accepts, and it is the row; only a payment, which reads the      *)
(* order before it locks it, needs the refresh for that.  An order being    *)
(* created is new to everybody else.                                        *)
Decided(w) ==
    /\ kind[w] = "create" =>
          /\ order[target[w]].status = "none"
          /\ \A v \in Workers : v # w /\ kind[v] = "create" => target[v] # target[w]
    /\ kind[w] \in OrderKinds \ {"create"} => order[target[w]].status # "none"
    /\ pc[w] \in {"idle", "lockOrder"} /\ kind[w] # "pay" => seenOrder[w] = NotLoaded
    /\ pc[w] = "writeOrder" => seenOrder[w].status \notin {"none", "pending"}
    /\ pc[w] \in {"loadItems", "lockProducts", "commit"} /\ kind[w] # "create" =>
          /\ orderLock[target[w]] = w
          /\ Accepts(kind[w], seenOrder[w])
          /\ kind[w] # "pay" \/ LockRefreshes => seenOrder[w] = order[target[w]]

OrderInv ==
    /\ LockInv
    /\ \A w \in Workers : Decided(w)

(* A worker whose own part of the state does not change keeps its decision, *)
(* as long as its order row keeps what the decision rests on.               *)
LEMMA DecidedStays ==
    ASSUME OrderInv, NEW v \in Workers,
           kind'[v] = kind[v], target'[v] = target[v], pc'[v] = pc[v],
           seenOrder'[v] = seenOrder[v],
           kind[v] \in OrderKinds => order'[target[v]] = order[target[v]],
           kind[v] \in OrderKinds /\ orderLock[target[v]] = v => orderLock'[target[v]] = v,
           \A u \in Workers : kind'[u] = "create" => kind[u] = "create" /\ target'[u] = target[u]
    PROVE  Decided(v)'
<1>1. pc[v] \in {"loadItems", "lockProducts", "commit"} => kind[v] \in OrderKinds
  BY DEF OrderInv, LockInv, Phases, OrderKinds, Releasing
<1>2. kind[v] = "create" => kind[v] \in OrderKinds
  BY DEF OrderKinds
<1> QED BY <1>1, <1>2 DEF OrderInv, Decided

LEMMA FinishDecided ==
    ASSUME OrderInv, NEW w \in Workers, Finish(w), order' = order
    PROVE  \A v \in Workers : Decided(v)'
<1> SUFFICES ASSUME NEW v \in Workers
             PROVE  Decided(v)'
  OBVIOUS
<1>1. CASE v = w
  BY <1>1 DEF OrderInv, LockInv, TypeOK, Finish, Decided, OrderKinds
<1>2. CASE v # w
  <2>1. kind[v] \in OrderKinds /\ orderLock[target[v]] = v => orderLock'[target[v]] = v
    BY <1>2 DEF OrderInv, LockInv, TypeOK, Finish, Phases
  <2>2. \A u \in Workers : kind'[u] = "create" => kind[u] = "create" /\ target'[u] = target[u]
    BY DEF OrderInv, LockInv, TypeOK, Finish
  <2> QED BY <1>2, <2>1, <2>2, DecidedStays DEF OrderInv, LockInv, TypeOK, Finish
<1> QED BY <1>1, <1>2

(* A request may write its order, once nobody else has it locked: no other   *)
(* worker has decided anything about that order.                            *)
LEMMA WritingDecided ==
    ASSUME OrderInv, NEW w \in Workers, Finish(w), kind[w] \in OrderKinds,
           \A v \in Workers : v # w => orderLock[target[w]] # v,
           NEW row, row.status # "none",
           order' = [order EXCEPT ![target[w]] = row]
    PROVE  \A v \in Workers : Decided(v)'
<1> DEFINE o == target[w]
<1>0. /\ o \in Orders
      /\ order'[o] = row
      /\ \A other \in Orders : other # o => order'[other] = order[other]
  BY DEF OrderInv, LockInv, TypeOK, Phases
<1> SUFFICES ASSUME NEW v \in Workers
             PROVE  Decided(v)'
  OBVIOUS
<1>1. CASE v = w
  BY <1>1 DEF OrderInv, LockInv, TypeOK, Finish, Decided, OrderKinds
<1>2. CASE v # w /\ kind[v] \in OrderKinds /\ target[v] = o
  <2>1. kind[v] # "create"
    <3> SUFFICES ASSUME kind[v] = "create"
                 PROVE  FALSE
      OBVIOUS
    <3>1. order[o].status = "none" /\ kind[w] # "create"
      BY <1>2 DEF OrderInv, Decided
    <3>2. kind[w] \in OrderKinds \ {"create"}
      BY <3>1
    <3> QED BY <3>1, <3>2 DEF OrderInv, Decided
  <2>2. pc[v] \notin {"loadItems", "lockProducts", "commit"}
    BY <1>2, <2>1 DEF OrderInv, Decided
  <2>3. kind'[v] = kind[v] /\ target'[v] = o /\ pc'[v] = pc[v] /\ seenOrder'[v] = seenOrder[v]
    BY <1>2 DEF Finish, OrderInv, LockInv, TypeOK
  <2> QED BY <1>0, <2>1, <2>2, <2>3 DEF OrderInv, Decided
<1>3. CASE v # w /\ ~(kind[v] \in OrderKinds /\ target[v] = o)
  <2>1. kind'[v] = kind[v] /\ target'[v] = target[v] /\ pc'[v] = pc[v] /\ seenOrder'[v] = seenOrder[v]
    BY <1>3 DEF Finish, OrderInv, LockInv, TypeOK
  <2>2. kind[v] \in OrderKinds => target[v] \in Orders
    BY DEF OrderInv, LockInv, Phases
  <2>3. kind[v] \in OrderKinds => order'[target[v]] = order[target[v]]
    BY <1>0, <1>3, <2>2
  <2>4. kind[v] \in OrderKinds /\ orderLock[target[v]] = v => orderLock'[target[v]] = v
    BY <1>3, <2>2 DEF Finish
  <2>5. \A u \in Workers : kind'[u] = "create" => kind[u] = "create" /\ target'[u] = target[u]
    BY DEF Finish, OrderInv, LockInv, TypeOK
  <2> QED BY <2>1, <2>3, <2>4, <2>5, DecidedStays
<1> QED BY <1>1, <1>2, <1>3

(* The steps that leave the order rows alone.                               *)
LEMMA StepDecided ==
    ASSUME OrderInv, NEW w \in Workers, order' = order,
           \/ \E k \in OrderKinds, o \in Orders : Begin(w, k, o)
           \/ \E p \in Products : BeginEdit(w, p)
           \/ Progress(w)
           \/ Rollback(w)
    PROVE  \A v \in Workers : Decided(v)'
<1> DEFINE Same(v) == /\ kind'[v] = kind[v] /\ target'[v] = target[v]
                      /\ pc'[v] = pc[v] /\ seenOrder'[v] = seenOrder[v]
<1>1. CASE Finish(w)
  BY <1>1, FinishDecided
<1>2. ASSUME NEW k \in OrderKinds, NEW o \in Orders, Begin(w, k, o)
      PROVE  \A v \in Workers : Decided(v)'
  <2>1. \A v \in Workers : v # w => Same(v)
    BY <1>2 DEF Begin, OrderInv, LockInv, TypeOK, rows, locks, context
  <2>2. kind'[w] = k /\ target'[w] = o /\ pc'[w] = FirstStep(k, o) /\ seenOrder' = seenOrder
        /\ orderLock' = orderLock /\ pc[w] = "idle"
    BY <1>2 DEF Begin, OrderInv, LockInv, TypeOK, rows, locks, context
  <2>3. k \in Kinds /\ (order[o].status = "none" <=> k = "create")
        /\ (k = "create" => \A v \in Workers : ~(kind[v] = "create" /\ target[v] = o))
    BY <1>2 DEF Begin
  <2>4. seenOrder[w] = NotLoaded /\ kind[w] = "none"
    BY <2>2 DEF OrderInv, LockInv, Phases, Decided
  <2>5. ASSUME NEW v \in Workers
        PROVE  Decided(v)'
    <3>1. CASE v = w
      <4>1. /\ FirstStep(k, o) \in {"loadItems", "lockProducts", "commit"} => k = "create"
            /\ FirstStep(k, o) # "writeOrder"
        BY FirstSteps DEF OrderKinds, Releasing
      <4> QED BY <2>1, <2>2, <2>3, <2>4, <3>1, <4>1 DEF Decided, OrderKinds
    <3>2. CASE v # w
      <4>1. kind[v] = "create" => /\ order[target[v]].status = "none"
                                  /\ \A u \in Workers : u # v /\ kind[u] = "create" => target[u] # target[v]
        BY DEF OrderInv, Decided
      <4>2. kind'[v] = "create" => \A u \in Workers : u # v /\ kind'[u] = "create" => target'[u] # target'[v]
        <5> SUFFICES ASSUME kind'[v] = "create", NEW u \in Workers, u # v, kind'[u] = "create"
                     PROVE  target'[u] # target'[v]
          OBVIOUS
        <5>1. CASE u = w
          BY <2>1, <2>2, <2>3, <3>2, <5>1
        <5>2. CASE u # w
          BY <2>1, <3>2, <4>1, <5>2
        <5> QED BY <5>1, <5>2
      <4> QED BY <2>1, <2>2, <3>2, <4>1, <4>2 DEF OrderInv, Decided
    <3> QED BY <3>1, <3>2
  <2> QED BY <2>5
<1>3. CASE LockOrder(w)
  <2>0. target[w] \in Orders /\ kind[w] \in Releasing \cup {"pay", "refund"}
    BY <1>3 DEF OrderInv, LockInv, Phases, OrderKinds, Releasing, LockOrder
  <2>1. kind[w] # "pay" \/ LockRefreshes => OrderUnderLock(w) = order[target[w]]
    BY <1>3, <2>0 DEF OrderInv, Decided, LockOrder, OrderUnderLock
  <2>2. /\ orderLock'[target[w]] = w
        /\ Accepts(kind[w], seenOrder'[w])
        /\ kind[w] # "pay" \/ LockRefreshes => seenOrder'[w] = order[target[w]]
    BY <1>3, <2>0, <2>1 DEF LockOrder, OrderInv, LockInv, TypeOK
  <2>3. kind' = kind /\ target' = target /\ pc'[w] \in {"loadItems", "commit"}
    BY <1>3 DEF LockOrder, request, OrderInv, LockInv, TypeOK
  <2>4. ASSUME NEW v \in Workers
        PROVE  Decided(v)'
    <3>1. CASE v = w
      BY <2>0, <2>2, <2>3, <3>1 DEF OrderInv, Decided, Releasing
    <3>2. CASE v # w
      <4>1. Same(v)
        BY <1>3, <3>2 DEF LockOrder, request, OrderInv, LockInv, TypeOK
      <4>2. orderLock[target[v]] = v => orderLock'[target[v]] = v
        BY <1>3, <2>0, <3>2, OrderStockAssumption DEF LockOrder, OrderInv, LockInv, TypeOK
      <4> QED BY <2>3, <4>1, <4>2, DecidedStays
    <3> QED BY <3>1, <3>2
  <2> QED BY <2>4
<1>4. ASSUME \/ LockUser(w) \/ LoadItems(w) \/ ReadOrder(w) \/ SetStatus(w) \/ ReadProduct(w)
             \/ \E p \in Products : LockProduct(w, p) \/ BeginEdit(w, p)
      PROVE  \A v \in Workers : Decided(v)'
  <2>1. orderLock' = orderLock
    BY <1>4 DEF LockUser, LoadItems, ReadOrder, SetStatus, ReadProduct, LockProduct, BeginEdit, locks
  <2>2. ASSUME NEW v \in Workers, v # w
        PROVE  Same(v)
    BY <1>4, <2>2
    DEF OrderInv, LockInv, TypeOK, LockUser, LoadItems, ReadOrder, SetStatus, ReadProduct, LockProduct,
        BeginEdit, request, context
  <2>3. \A u \in Workers : kind'[u] = "create" => kind[u] = "create" /\ target'[u] = target[u]
    BY <1>4
    DEF OrderInv, LockInv, TypeOK, LockUser, LoadItems, ReadOrder, SetStatus, ReadProduct, LockProduct,
        BeginEdit, request
  <2>4. Decided(w)'
    <3>1. CASE ReadOrder(w)
      BY <3>1 DEF ReadOrder, OrderInv, LockInv, TypeOK, Decided, request, OrderKinds
    <3>2. CASE LoadItems(w) \/ \E p \in Products : LockProduct(w, p)
      <4>1. pc[w] \in {"loadItems", "lockProducts"} /\ pc'[w] \in {"lockProducts", "commit"}
            /\ kind' = kind /\ target' = target /\ seenOrder' = seenOrder
        BY <3>2 DEF LoadItems, LockProduct, request, OrderInv, LockInv, TypeOK
      <4> QED BY <2>1, <4>1 DEF OrderInv, Decided
    <3>3. CASE ReadProduct(w) \/ \E p \in Products : BeginEdit(w, p)
      <4>1. kind'[w] = "edit" /\ pc'[w] \in {"readProduct", "writeProduct"}
        BY <3>3 DEF ReadProduct, BeginEdit, request, OrderInv, LockInv, TypeOK, Phases
      <4> QED BY <4>1 DEF Decided, OrderKinds
    <3>4. CASE SetStatus(w)
      <4>1. PICK status \in AdminTargets(order[target[w]].status) :
               seenOrder' = [seenOrder EXCEPT ![w] = [order[target[w]] EXCEPT !.status = status]]
        BY <3>4 DEF SetStatus
      <4>2. target[w] \in Orders /\ order[target[w]] \in OrderRow /\ kind[w] = "admin"
        BY <3>4 DEF SetStatus, OrderInv, LockInv, TypeOK, Phases, OrderKinds
      <4>3. seenOrder'[w].status \notin {"none", "pending"}
        BY <4>1, <4>2, AdminTargetStatuses DEF OrderInv, LockInv, TypeOK, OrderRow
      <4>4. kind' = kind /\ target' = target /\ pc'[w] = "writeOrder"
        BY <3>4 DEF SetStatus, request, OrderInv, LockInv, TypeOK
      <4> QED BY <4>2, <4>3, <4>4 DEF OrderInv, Decided
    <3>5. CASE LockUser(w)
      <4>1. /\ kind[w] = "create" /\ pc'[w] = "lockProducts"
            /\ UNCHANGED <<orderLock, kind, target, seenOrder>>
        BY <3>5 DEF LockUser, request, context, OrderInv, LockInv, TypeOK, Phases
      <4> QED BY <4>1 DEF OrderInv, Decided
    <3> QED BY <1>4, <3>1, <3>2, <3>3, <3>4, <3>5
  <2> QED BY <2>1, <2>2, <2>3, <2>4, DecidedStays
<1>5. CASE WriteOrder(w)
  BY <1>1, <1>5 DEF WriteOrder
<1> QED BY <1>1, <1>2, <1>3, <1>4, <1>5
        DEF Progress, Rollback, Commit, AnswerRepeat, RefuseOrder, RefuseProduct, RefuseStatus, WriteProduct

(* What a commit does to its order, whichever request it serves.            *)
LEMMA CommittedOrder ==
    ASSUME OrderInv, NEW w \in Workers, Commit(w)
    PROVE  /\ target[w] \in Orders
           /\ \A other \in Orders : other # target[w] => order'[other] = order[other]
           /\ order' = [order EXCEPT ![target[w]] = order'[target[w]]]
           /\ order'[target[w]].status # "none"
           /\ kind[w] \in {"create", "cancel", "expire", "pay", "refund", "complete"}
           /\ kind[w] # "create" => order[target[w]].status # "none"
           /\ kind[w] = "create" =>
                 /\ order[target[w]].status = "none"
                 /\ order'[target[w]].status = "pending" /\ order'[target[w]].pay = "unpaid"
           /\ kind[w] \in {"cancel", "expire"} =>
                 /\ order[target[w]].status = "pending"
                 /\ order'[target[w]].status = "cancelled" /\ order'[target[w]].pay = order[target[w]].pay
           /\ kind[w] = "pay" =>
                 /\ seenOrder[w].status = "pending"
                 /\ LockRefreshes => order[target[w]].status = "pending"
                 /\ order'[target[w]].status = "paid" /\ order'[target[w]].pay = "paid"
           /\ kind[w] = "refund" =>
                 /\ order[target[w]].pay = "paid"
                 /\ order'[target[w]].status = order[target[w]].status /\ order'[target[w]].pay = "refunding"
           /\ kind[w] = "complete" =>
                 /\ order[target[w]].pay = "refunding"
                 /\ order'[target[w]].status = "cancelled" /\ order'[target[w]].pay = "refunded"
<1>1. /\ pc[w] = "commit" /\ target[w] \in Orders
      /\ kind[w] \in Releasing \cup {"create", "pay", "refund"}
      /\ kind[w] # "create" => seenOrder[w] \in OrderRow
  BY DEF Commit, OrderInv, LockInv, Phases, OrderKinds, Releasing
<1>2. order' = [order EXCEPT ![target[w]] = Written(kind[w], seenOrder[w])]
  BY DEF Commit
<1>3. /\ order'[target[w]] = Written(kind[w], seenOrder[w])
      /\ \A other \in Orders \ {target[w]} : order'[other] = order[other]
      /\ order[target[w]] \in OrderRow
  BY <1>1, <1>2 DEF OrderInv, LockInv, TypeOK
<1>4. kind[w] = "create" => order[target[w]].status = "none"
  BY DEF OrderInv, Decided
<1>5. kind[w] # "create" =>
        /\ order[target[w]].status # "none"
        /\ Accepts(kind[w], seenOrder[w])
        /\ kind[w] # "pay" \/ LockRefreshes => seenOrder[w] = order[target[w]]
  BY <1>1 DEF OrderInv, Decided, OrderKinds, Releasing
<1>6. /\ Written("create", seenOrder[w]) = [status |-> "pending", pay |-> "unpaid"]
      /\ kind[w] # "create" =>
            /\ Written("cancel", seenOrder[w]) = [status |-> "cancelled", pay |-> seenOrder[w].pay]
            /\ Written("expire", seenOrder[w]) = [status |-> "cancelled", pay |-> seenOrder[w].pay]
            /\ Written("pay", seenOrder[w]) = [status |-> "paid", pay |-> "paid"]
            /\ Written("refund", seenOrder[w]) = [status |-> seenOrder[w].status, pay |-> "refunding"]
            /\ Written("complete", seenOrder[w]) = [status |-> "cancelled", pay |-> "refunded"]
  BY <1>1, WrittenRow, CreatedRow
<1>7. order' = [order EXCEPT ![target[w]] = order'[target[w]]]
  BY <1>2, <1>3
<1>8. CASE kind[w] \in {"create", "pay"}
  BY <1>1, <1>3, <1>4, <1>5, <1>6, <1>7, <1>8 DEF Accepts
<1>9. CASE kind[w] \in Releasing \cup {"refund"}
  BY <1>1, <1>3, <1>5, <1>6, <1>7, <1>9 DEF Accepts, Releasing
<1> QED BY <1>1, <1>8, <1>9

LEMMA InitOrderInv == Init => OrderInv
  BY InitLockInv DEF Init, OrderInv, Decided, OrderKinds

LEMMA NextOrderInv == OrderInv /\ [Next]_vars => OrderInv'
<1> SUFFICES ASSUME OrderInv, [Next]_vars
             PROVE  OrderInv'
  OBVIOUS
<1>1. LockInv'
  BY NextLockInv DEF OrderInv
<1>2. CASE UNCHANGED vars
  <2>1. \A v \in Workers : Decided(v)'
    BY <1>2 DEF OrderInv, Decided, vars, rows, locks, request, context
  <2> QED BY <1>1, <2>1 DEF OrderInv
<1>3. ASSUME NEW w \in Workers, Commit(w)
      PROVE  OrderInv'
  <2>1. kind[w] \in OrderKinds /\ Finish(w) /\ target[w] \in Orders
    BY <1>3, CommittedOrder DEF OrderKinds, Commit
  <2>2. ASSUME NEW v \in Workers, v # w
        PROVE  orderLock[target[w]] # v
    <3> SUFFICES ASSUME orderLock[target[w]] = v
                 PROVE  FALSE
      OBVIOUS
    <3>1. target[v] = target[w] /\ pc[v] \in {"loadItems", "lockProducts", "commit"}
      BY <2>1 DEF OrderInv, LockInv, OrderLocks
    <3>2. kind[w] = "create"
      BY <1>3, <2>2 DEF OrderInv, Decided, Commit
    <3>3. kind[v] \in OrderKinds
      BY <3>1 DEF OrderInv, LockInv, Phases, OrderKinds, Releasing
    <3> QED BY <2>2, <3>1, <3>2, <3>3 DEF OrderInv, Decided
  <2> QED BY <1>1, <1>3, <2>1, <2>2, CommittedOrder, WritingDecided DEF OrderInv
<1>4. ASSUME NEW w \in Workers, WriteOrder(w)
      PROVE  OrderInv'
  <2>1. kind[w] \in OrderKinds /\ seenOrder[w].status # "none"
    BY <1>4 DEF WriteOrder, OrderInv, LockInv, Phases, Decided, OrderKinds
  <2>2. \A v \in Workers : orderLock[target[w]] # v
    BY <1>4, OrderStockAssumption DEF WriteOrder
  <2> QED BY <1>1, <1>4, <2>1, <2>2, WritingDecided DEF OrderInv, WriteOrder
<1>5. ASSUME NEW w \in Workers, ~Commit(w), ~WriteOrder(w),
             \/ \E k \in OrderKinds, o \in Orders : Begin(w, k, o)
             \/ \E p \in Products : BeginEdit(w, p)
             \/ Progress(w)
             \/ Rollback(w)
      PROVE  OrderInv'
  <2>1. order' = order
    BY <1>5
    DEF Progress, Begin, BeginEdit, LockUser, AnswerRepeat, ReadOrder, SetStatus, RefuseStatus, LockOrder,
        RefuseOrder, LoadItems, LockProduct, RefuseProduct, ReadProduct, WriteProduct, Rollback, rows
  <2> QED BY <1>1, <1>5, <2>1, StepDecided DEF OrderInv
<1> QED BY <1>2, <1>3, <1>4, <1>5 DEF Next

LEMMA OrderInvariant == Spec => []OrderInv
  BY InitOrderInv, NextOrderInv, PTL DEF Spec

(* The order rows change with commits and administrators' writes only.      *)
LEMMA OrdersChange ==
    ASSUME Next
    PROVE  \/ \E w \in Workers : Commit(w) \/ WriteOrder(w)
           \/ order' = order
  BY RowsChange DEF rows, WriteProduct

-----------------------------------------------------------------------------
(* Cancelled orders and payments                                            *)

LEMMA NoAdminWrites ==
    ASSUME "admin" \notin Kinds, LockInv, NEW w \in Workers
    PROVE  ~WriteOrder(w)
  BY DEF WriteOrder, LockInv, Phases

(* Whatever requests meet, a cancelled order comes back to life in two ways *)
(* only: by a payment that goes on with the pending order it read before    *)
(* the lock, which the refresh would stop, and by an administrator's write. *)
THEOREM RevivalsAreKnown == Spec => RevivedByStaleCopies
<1> DEFINE Revived(o, w) ==
              /\ target[w] = o
              /\ \/ /\ kind[w] = "pay" /\ pc[w] = "commit"
                    /\ ~LockRefreshes /\ seenOrder[w].status = "pending"
                    /\ order'[o].status = "paid"
                 \/ kind[w] = "admin" /\ pc[w] = "writeOrder"
           Step == \A o \in Orders :
                      order[o].status = "cancelled" /\ order'[o].status # "cancelled" =>
                         \E w \in Workers : Revived(o, w)
<1>1. OrderInv /\ [Next]_vars => [Step]_vars
  <2> SUFFICES ASSUME OrderInv, Next, NEW o \in Orders,
                      order[o].status = "cancelled", order'[o].status # "cancelled"
               PROVE  \E w \in Workers : Revived(o, w)
    BY DEF vars
  <2>1. PICK w \in Workers : Commit(w) \/ WriteOrder(w)
    BY OrdersChange
  <2>2. CASE Commit(w)
    <3>1. o = target[w]
      BY <2>2, CommittedOrder
    <3>2. kind[w] = "pay" /\ ~LockRefreshes
      BY <2>2, <3>1, CommittedOrder
    <3>3. order'[target[w]].status = "paid" /\ seenOrder[w].status = "pending"
      BY <2>2, <3>2, CommittedOrder
    <3>4. pc[w] = "commit"
      BY <2>2 DEF Commit
    <3> QED BY <3>1, <3>2, <3>3, <3>4
  <2>3. CASE WriteOrder(w)
    <3>1. kind[w] = "admin" /\ pc[w] = "writeOrder"
      BY <2>3 DEF WriteOrder, OrderInv, LockInv, Phases
    <3>2. o = target[w]
      BY <2>3 DEF WriteOrder, OrderInv, LockInv, TypeOK
    <3> QED BY <3>1, <3>2
  <2> QED BY <2>1, <2>2, <2>3
<1> QED BY <1>1, OrderInvariant, PTL DEF Spec, RevivedByStaleCopies

LEMMA CommitPayment ==
    ASSUME OrderInv, PaymentMatchesStatus, NEW w \in Workers, Commit(w)
    PROVE  PaymentMatchesStatus'
<1> DEFINE o == target[w]
<1> SUFFICES ASSUME NEW other \in Orders
             PROVE  /\ order'[other].pay \in {"paid", "refunding"} <=> order'[other].status = "paid"
                    /\ order'[other].pay = "refunded" => order'[other].status = "cancelled"
  BY DEF PaymentMatchesStatus
<1>1. CASE other = o
  <2>1. /\ order[o].pay \in {"paid", "refunding"} <=> order[o].status = "paid"
        /\ order[o].pay = "refunded" => order[o].status = "cancelled"
    BY CommittedOrder DEF PaymentMatchesStatus
  <2>2. CASE kind[w] \in {"create", "pay", "complete"}
    BY <1>1, <2>2, CommittedOrder
  <2>3. CASE kind[w] \in {"cancel", "expire"}
    BY <1>1, <2>1, <2>3, CommittedOrder
  <2>4. CASE kind[w] = "refund"
    BY <1>1, <2>1, <2>4, CommittedOrder
  <2> QED BY <2>2, <2>3, <2>4, CommittedOrder
<1>2. CASE other # o
  BY <1>2, CommittedOrder DEF PaymentMatchesStatus
<1> QED BY <1>1, <1>2

(* Unless an administrator sets a status, the payment column agrees with    *)
(* it: even the payment of an order that was cancelled meanwhile, decided   *)
(* on a stale copy, writes both columns.                                    *)
THEOREM PaymentAgrees == "admin" \notin Kinds => (Spec => []PaymentMatchesStatus)
<1> SUFFICES ASSUME "admin" \notin Kinds
             PROVE  Spec => []PaymentMatchesStatus
  OBVIOUS
<1>1. Init => PaymentMatchesStatus
  BY DEF Init, PaymentMatchesStatus
<1>2. OrderInv /\ PaymentMatchesStatus /\ [Next]_vars => PaymentMatchesStatus'
  <2> SUFFICES ASSUME OrderInv, PaymentMatchesStatus, [Next]_vars
               PROVE  PaymentMatchesStatus'
    OBVIOUS
  <2>1. order' = order => PaymentMatchesStatus'
    BY DEF PaymentMatchesStatus
  <2>2. \A w \in Workers : ~WriteOrder(w)
    BY NoAdminWrites DEF OrderInv
  <2> QED BY <2>1, <2>2, OrdersChange, CommitPayment DEF vars, rows
<1>3. Spec => []OrderInv
  BY OrderInvariant
<1> QED BY <1>1, <1>2, <1>3, PTL DEF Spec


-----------------------------------------------------------------------------
(* What transactions do to stock *)

\* What a transaction has done so far to the stock of the products it holds.
Change(w, p) == IF kind[w] = "create" THEN -Qty[target[w]][p] ELSE Qty[target[w]][p]

(* A new order loads a product only when it locks it, so what it writes is  *)
(* the row as it stands, less its items; a release has loaded its products  *)
(* before, and needs the refresh for the same to hold.                      *)
StockCopies(w) ==
    /\ pc[w] = "idle" => \A p \in Products : seenProduct[w][p] = NotLoaded
    /\ kind[w] = "create" =>
          \A p \in Products : productLock[p] # w => seenProduct[w][p] = NotLoaded
    /\ kind[w] = "create" \/ LockRefreshes =>
          \A p \in Products :
             productLock[p] = w => seenProduct[w][p].stock = product[p].stock + Change(w, p)
    /\ pc[w] = "commit" /\ kind[w] \in Releasing \cup {"create"} => Remaining(w) = {}

StockInv ==
    /\ OrderInv
    /\ \A w \in Workers : StockCopies(w)

LEMMA LockProductCopies ==
    ASSUME StockInv, NEW w \in Workers, NEW p \in Products, LockProduct(w, p)
    PROVE  StockCopies(w)'
<1>1. /\ productLock' = [productLock EXCEPT ![p] = w] /\ p \in Remaining(w)
      /\ pc[w] = "lockProducts"
      /\ pc'[w] = IF Remaining(w) = {p} THEN "commit" ELSE "lockProducts"
      /\ UNCHANGED <<product, kind, target>>
  BY DEF LockProduct, NextProduct, rows, request, StockInv, OrderInv, LockInv, TypeOK
<1>2. LockInv /\ productLock \in [Products -> Workers \cup {NoWorker}]
  BY DEF StockInv, OrderInv, LockInv, TypeOK
<1>3. kind[w] = "create" \/ LockRefreshes => ProductUnderLock(w, p) = product[p]
  BY <1>1 DEF ProductUnderLock, StockInv, StockCopies, Remaining
<1>4. /\ kind[w] = "create" \/ LockRefreshes =>
            seenProduct'[w][p].stock = product[p].stock + Change(w, p)
      /\ \A q \in Products : q # p => seenProduct'[w][q] = seenProduct[w][q]
  BY <1>2, <1>3, LockedProduct DEF Change
<1>5. \A q \in Products : Change(w, q)' = Change(w, q)
  BY <1>1 DEF Change
<1>6. kind[w] = "create" \/ LockRefreshes =>
         \A q \in Products :
            productLock'[q] = w => seenProduct'[w][q].stock = product'[q].stock + Change(w, q)'
  BY <1>1, <1>2, <1>4, <1>5 DEF StockInv, StockCopies
<1>7. kind[w] = "create" =>
         \A q \in Products : productLock'[q] # w => seenProduct'[w][q] = NotLoaded
  BY <1>1, <1>2, <1>4 DEF StockInv, StockCopies
<1>8. Remaining(w)' = Remaining(w) \ {p}
  BY <1>1, <1>2, OrderStockAssumption DEF Remaining, Items
<1> QED BY <1>1, <1>6, <1>7, <1>8 DEF StockCopies

LEMMA NextStockCopies ==
    ASSUME StockInv, Next
    PROVE  \A v \in Workers : StockCopies(v)'
<1>1. PICK w \in Workers :
        \/ \E k \in OrderKinds, o \in Orders : Begin(w, k, o)
        \/ \E p \in Products : BeginEdit(w, p)
        \/ Progress(w)
        \/ Rollback(w)
  BY DEF Next
<1>2. LockInv
  BY DEF StockInv, OrderInv
<1>3. ASSUME NEW v \in Workers, v # w
      PROVE  StockCopies(v)'
  <2>1. /\ kind'[v] = kind[v] /\ target'[v] = target[v] /\ pc'[v] = pc[v]
        /\ \A p \in Products : seenProduct'[v][p] = seenProduct[v][p]
        /\ \A p \in Products : productLock'[p] = v <=> productLock[p] = v
    BY <1>1, <1>2, <1>3, OthersStay
  <2>2. \A p \in Products : productLock[p] = v => product'[p] = product[p]
    <3> SUFFICES ASSUME NEW p \in Products, productLock[p] = v
                 PROVE  product'[p] = product[p]
      OBVIOUS
    <3>1. CASE Commit(w)
      BY <1>3, <3>1 DEF Commit
    <3>2. CASE WriteProduct(w)
      BY <1>2, <3>2, OrderStockAssumption DEF WriteProduct, LockInv, TypeOK
    <3>3. CASE ~Commit(w) /\ ~WriteProduct(w)
      BY <1>1, <3>3
      DEF Progress, Begin, BeginEdit, LockUser, AnswerRepeat, ReadOrder, SetStatus, RefuseStatus, WriteOrder,
          LockOrder, RefuseOrder, LoadItems, LockProduct, RefuseProduct, ReadProduct, Rollback, rows
    <3> QED BY <3>1, <3>2, <3>3
  <2> QED BY <2>1, <2>2 DEF StockInv, StockCopies, Change, Remaining, Items
<1>4. StockCopies(w)'
  <2>1. CASE Finish(w)
    BY <1>2, <2>1, OrderStockAssumption DEF Finish, StockCopies, LockInv, TypeOK
  <2>2. CASE \E p \in Products : LockProduct(w, p)
    BY <2>2, LockProductCopies
  <2>3. CASE LoadItems(w) \/ ReadOrder(w) \/ SetStatus(w) \/ LockOrder(w) \/ ReadProduct(w)
    <3>1. /\ productLock' = productLock /\ kind' = kind
          /\ pc[w] \notin {"lockProducts", "commit"} /\ pc'[w] # "idle"
          /\ kind[w] # "create"
      BY <1>2, <2>3
      DEF LoadItems, ReadOrder, SetStatus, LockOrder, ReadProduct, locks, request, LockInv, TypeOK,
          Phases, Releasing
    <3>2. \A p \in Products : productLock'[p] # w
      BY <1>2, <3>1 DEF LockInv, ProductLocks
    <3>3. pc'[w] # "commit" \/ kind[w] \notin Releasing
      BY <1>2, <2>3 DEF LoadItems, ReadOrder, SetStatus, LockOrder, ReadProduct, LockInv, TypeOK
    <3> QED BY <3>1, <3>2, <3>3 DEF StockCopies
  <2>4. CASE \/ \E k \in OrderKinds, o \in Orders : Begin(w, k, o)
             \/ \E p \in Products : BeginEdit(w, p)
    <3>1. /\ productLock' = productLock /\ seenProduct' = seenProduct /\ pc[w] = "idle"
          /\ pc'[w] \notin {"idle", "commit"}
      <4>1. \A k \in OrderKinds, o \in Orders : FirstStep(k, o) \notin {"idle", "commit"}
        BY FirstSteps DEF OrderKinds, Releasing
      <4> QED BY <1>2, <2>4, <4>1 DEF Begin, BeginEdit, locks, context, LockInv, TypeOK
    <3>2. \A p \in Products : productLock'[p] # w /\ seenProduct'[w][p] = NotLoaded
      BY <1>2, <3>1 DEF LockInv, ProductLocks, StockInv, StockCopies
    <3> QED BY <3>1, <3>2 DEF StockCopies
  <2>5. CASE LockUser(w)
    <3>1. UNCHANGED <<product, productLock, seenProduct, kind, target>> /\ pc'[w] = "lockProducts"
      BY <1>2, <2>5 DEF LockUser, rows, request, context, LockInv, TypeOK
    <3> QED BY <3>1 DEF StockInv, StockCopies, Change
  <2> QED BY <1>1, <2>1, <2>2, <2>3, <2>4, <2>5
          DEF Progress, AnswerRepeat, RefuseStatus, WriteOrder, RefuseOrder, RefuseProduct, Commit,
              WriteProduct, Rollback
<1> QED BY <1>3, <1>4

LEMMA StockInvariant == Spec => []StockInv
<1>1. Init => StockInv
  <2>1. Init => \A w \in Workers : StockCopies(w)
    BY OrderStockAssumption DEF Init, StockCopies
  <2> QED BY <2>1, InitOrderInv DEF StockInv
<1>2. StockInv /\ [Next]_vars => StockInv'
  <2> SUFFICES ASSUME StockInv, [Next]_vars
               PROVE  StockInv'
    OBVIOUS
  <2>1. OrderInv'
    BY NextOrderInv DEF StockInv
  <2>2. CASE UNCHANGED vars
    <3>1. \A w \in Workers : StockCopies(w)'
      BY <2>2 DEF StockInv, StockCopies, Change, Remaining, Items, vars, rows, locks, request, context
    <3> QED BY <2>1, <3>1 DEF StockInv
  <2>3. CASE Next
    BY <2>1, <2>3, NextStockCopies DEF StockInv
  <2> QED BY <2>2, <2>3
<1> QED BY <1>1, <1>2, PTL DEF Spec

(* The effect of a commit on stock; of a release, when it sees its products *)
(* as it locked them.                                                       *)
LEMMA CommittedStock ==
    ASSUME StockInv, NEW w \in Workers, Commit(w), NEW p \in Products
    PROVE  /\ kind[w] = "create" => product'[p].stock = product[p].stock + (-1) * Qty[target[w]][p]
           /\ kind[w] \in Releasing /\ LockRefreshes =>
                 product'[p].stock = product[p].stock + 1 * Qty[target[w]][p]
           /\ kind[w] \in {"pay", "refund"} => product'[p].stock = product[p].stock
<1>1. product'[p] = IF productLock[p] = w THEN seenProduct[w][p] ELSE product[p]
  BY DEF Commit
<1>2. target[w] \in Orders /\ Qty[target[w]][p] \in Nat /\ product[p].stock \in Int
  BY CommittedOrder, OrderStockAssumption DEF StockInv, OrderInv, LockInv, TypeOK, ProductRow
<1>3. productLock[p] = w =>
        /\ kind[w] = "create" \/ LockRefreshes => product'[p].stock = product[p].stock + Change(w, p)
        /\ kind[w] \in Releasing \cup {"create"}
  BY <1>1 DEF StockInv, StockCopies, OrderInv, LockInv, ProductLocks
<1>4. productLock[p] # w /\ kind[w] \in Releasing \cup {"create"} => Qty[target[w]][p] = 0
  <2> SUFFICES ASSUME productLock[p] # w, kind[w] \in Releasing \cup {"create"}
               PROVE  Qty[target[w]][p] = 0
    OBVIOUS
  <2>1. Remaining(w) = {}
    BY DEF StockInv, StockCopies, Commit
  <2> QED BY <1>2, <2>1 DEF Remaining, Items
<1>5. productLock[p] # w => product'[p].stock = product[p].stock
  BY <1>1
<1>6. CASE productLock[p] = w
  BY <1>2, <1>3, <1>6 DEF Change, Releasing
<1>7. CASE productLock[p] # w
  BY <1>2, <1>4, <1>5, <1>7 DEF Releasing
<1> QED BY <1>6, <1>7

\* A product another transaction has locked is nobody else's to write.
LEMMA LockedRowStays ==
    ASSUME LockInv, Next, NEW p \in Products, productLock[p] # NoWorker
    PROVE  \/ product'[p] = product[p]
           \/ \E w \in Workers : Commit(w) /\ productLock[p] = w
<1>1. ASSUME NEW w \in Workers, Commit(w), product'[p] # product[p]
      PROVE  productLock[p] = w
  BY <1>1 DEF Commit
<1>2. ASSUME NEW w \in Workers, WriteProduct(w)
      PROVE  product'[p] = product[p]
  BY <1>2 DEF WriteProduct, LockInv, TypeOK
<1> QED BY <1>1, <1>2, RowsChange DEF rows, WriteOrder

(* Whatever stale copies other requests write, an order is created in the   *)
(* one step that takes from stock what it asks for: createOrder sees each   *)
(* product for the first time under the product's row lock.                 *)
THEOREM CreationsTakeStock == Spec => CreationTakesStock
<1> DEFINE Step == \A o \in Orders :
                      order[o].status = "none" /\ order'[o].status # "none" => StockMoves(o, -1)
<1>1. StockInv /\ [Next]_vars => [Step]_vars
  <2> SUFFICES ASSUME StockInv, Next, NEW o \in Orders,
                      order[o].status = "none", order'[o].status # "none"
               PROVE  StockMoves(o, -1)
    BY DEF vars
  <2>0. OrderInv
    BY DEF StockInv
  <2>1. ASSUME NEW w \in Workers, Commit(w)
        PROVE  StockMoves(o, -1)
    <3>1. o = target[w] /\ kind[w] = "create"
      BY <2>0, <2>1, CommittedOrder
    <3> QED BY <2>0, <2>1, <3>1, CommittedOrder, CommittedStock DEF StockMoves
  <2>2. ASSUME NEW w \in Workers, WriteOrder(w)
        PROVE  FALSE
    <3>1. kind[w] = "admin" /\ order' = [order EXCEPT ![target[w]] = seenOrder[w]]
      BY <2>0, <2>2 DEF WriteOrder, OrderInv, LockInv, Phases
    <3>2. order[target[w]].status # "none"
      BY <2>0, <3>1 DEF OrderInv, Decided, OrderKinds
    <3> QED BY <2>0, <3>1, <3>2 DEF OrderInv, LockInv, TypeOK
  <2>3. order' = order => FALSE
    OBVIOUS
  <2> QED BY <2>1, <2>2, <2>3, OrdersChange
<1> QED BY <1>1, StockInvariant, PTL DEF Spec, CreationTakesStock

(* No row, and no copy of one that some request may yet write back, is      *)
(* below zero.                                                              *)
Sellable ==
    \A p \in Products :
        /\ product[p].stock >= 0
        /\ \A w \in Workers : seenProduct[w][p] # NotLoaded => seenProduct[w][p].stock >= 0

LEMMA LockedSellable ==
    ASSUME LockInv, Sellable, NEW w \in Workers, NEW p \in Products, LockProduct(w, p)
    PROVE  seenProduct'[w][p].stock >= 0
<1>1. /\ target[w] \in Orders /\ Qty[target[w]][p] \in Nat
      /\ ProductUnderLock(w, p) \in ProductRow /\ ProductUnderLock(w, p).stock \in Int
      /\ seenProduct'[w][p].stock = ProductUnderLock(w, p).stock +
            (IF kind[w] = "create" THEN -Qty[target[w]][p] ELSE Qty[target[w]][p])
  BY LockedProduct, OrderStockAssumption DEF ProductRow
<1>2. ProductUnderLock(w, p).stock >= 0
  BY DEF Sellable, ProductUnderLock
<1>3. CASE kind[w] = "create"
  <2>1. ProductUnderLock(w, p).stock >= Qty[target[w]][p]
    BY <1>3 DEF LockProduct, InStock
  <2> QED BY <1>1, <1>3, <2>1
<1>4. CASE kind[w] # "create"
  BY <1>1, <1>2, <1>4
<1> QED BY <1>3, <1>4

LEMMA NextSellable == ASSUME LockInv, Sellable, Next PROVE Sellable'
<1>1. PICK w \in Workers :
        \/ \E k \in OrderKinds, o \in Orders : Begin(w, k, o)
        \/ \E p \in Products : BeginEdit(w, p)
        \/ Progress(w)
        \/ Rollback(w)
  BY DEF Next
<1> USE DEF LockInv
<1>2. ASSUME Finish(w), NEW p \in Products, NEW v \in Workers, seenProduct'[v][p] # NotLoaded
      PROVE  seenProduct'[v][p] = seenProduct[v][p]
  BY <1>2 DEF Finish, TypeOK
<1>3. CASE Finish(w) /\ product' = product
  BY <1>2, <1>3 DEF Sellable
<1>4. CASE Commit(w)
  <2>1. \A p \in Products : productLock[p] = w => seenProduct[w][p] # NotLoaded
    BY OrderStockAssumption DEF ProductLocks
  <2>2. \A p \in Products : product'[p] = IF productLock[p] = w THEN seenProduct[w][p] ELSE product[p]
    BY <1>4 DEF Commit
  <2>3. \A p \in Products : product'[p].stock >= 0
    BY <2>1, <2>2 DEF Sellable
  <2> QED BY <1>2, <1>4, <2>3 DEF Sellable, Commit
<1>5. CASE WriteProduct(w)
  <2>1. target[w] \in Products /\ seenProduct[w][target[w]] # NotLoaded
    BY <1>5, OrderStockAssumption DEF WriteProduct, Phases
  <2>2. \A p \in Products : product'[p] = IF p = target[w] THEN seenProduct[w][p] ELSE product[p]
    BY <1>5, <2>1 DEF WriteProduct, TypeOK
  <2>3. \A p \in Products : product'[p].stock >= 0
    BY <2>1, <2>2 DEF Sellable
  <2> QED BY <1>2, <1>5, <2>3 DEF Sellable, WriteProduct
<1>6. ASSUME NEW p \in Products, LockProduct(w, p)
      PROVE  Sellable'
  <2>1. \A v \in Workers, q \in Products :
           v # w \/ q # p => seenProduct'[v][q] = seenProduct[v][q]
    BY <1>6, LockedProduct
  <2>2. seenProduct'[w][p].stock >= 0
    BY <1>6, LockedSellable
  <2>3. product' = product
    BY <1>6 DEF LockProduct, rows
  <2> QED BY <2>1, <2>2, <2>3 DEF Sellable
<1>7. CASE LoadItems(w)
  <2>1. /\ product' = product
        /\ \A p \in Products : seenProduct'[w][p] \in {product[p], NotLoaded}
        /\ \A v \in Workers : v # w => seenProduct'[v] = seenProduct[v]
    BY <1>7 DEF LoadItems, rows, TypeOK
  <2> QED BY <2>1 DEF Sellable
<1>8. CASE ReadProduct(w)
  <2>1. PICK row \in Edited(product[target[w]]) : seenProduct' = [seenProduct EXCEPT ![w][target[w]] = row]
    BY <1>8 DEF ReadProduct
  <2>2. target[w] \in Products /\ product[target[w]] \in ProductRow /\ product' = product
    BY <1>8 DEF ReadProduct, Phases, TypeOK, rows
  <2>3. row.stock >= 0
    BY <2>2, EditedRow DEF Sellable
  <2>4. \A v \in Workers, p \in Products :
           seenProduct'[v][p] = IF v = w /\ p = target[w] THEN row ELSE seenProduct[v][p]
    BY <2>1, <2>2 DEF TypeOK
  <2> QED BY <2>2, <2>3, <2>4 DEF Sellable
<1>9. CASE UNCHANGED <<product, seenProduct>>
  BY <1>9 DEF Sellable
<1> QED BY <1>1, <1>3, <1>4, <1>5, <1>6, <1>7, <1>8, <1>9
        DEF Progress, Begin, BeginEdit, LockUser, AnswerRepeat, ReadOrder, SetStatus, RefuseStatus,
            WriteOrder, LockOrder, RefuseOrder, RefuseProduct, Rollback, rows, context

LEMMA SellableAlways == Spec => []Sellable
<1>1. Init => Sellable
  BY OrderStockAssumption DEF Init, Sellable
<1>2. LockInv /\ Sellable /\ [Next]_vars => Sellable'
  <2>1. UNCHANGED vars /\ Sellable => Sellable'
    BY DEF vars, rows, context, Sellable
  <2> QED BY <2>1, NextSellable
<1> QED BY <1>1, <1>2, LockInvariant, PTL DEF Spec

\* No product's stock is ever written below zero, by whatever request and
\* from however old a copy.
THEOREM NeverNegative == Spec => []StockNotNegative
<1>1. Sellable => StockNotNegative
  BY DEF Sellable, StockNotNegative
<1> QED BY <1>1, SellableAlways, PTL

(* While a product is locked, its stock goes up only with the cancellation  *)
(* of a pending order or the end of a refund: an order's stock comes back   *)
(* once each, even if the releases work on old copies.                      *)
THEOREM RestoresOnce == Spec => RestoreOnlyWithCancel
<1> DEFINE Step == (\E p \in Products : product'[p].stock > product[p].stock /\ productLock[p] # NoWorker)
                     => \E o \in Orders :
                           \/ order[o].status = "pending" /\ order'[o].status = "cancelled"
                           \/ order[o].pay = "refunding" /\ order'[o].pay = "refunded"
<1>1. StockInv /\ [Next]_vars => [Step]_vars
  <2> SUFFICES ASSUME StockInv, Next, NEW p \in Products,
                      product'[p].stock > product[p].stock, productLock[p] # NoWorker
               PROVE  \E o \in Orders :
                         \/ order[o].status = "pending" /\ order'[o].status = "cancelled"
                         \/ order[o].pay = "refunding" /\ order'[o].pay = "refunded"
    BY DEF vars
  <2>0. LockInv /\ OrderInv /\ product[p].stock \in Int
    BY DEF StockInv, OrderInv, LockInv, TypeOK, ProductRow
  <2>1. PICK w \in Workers : Commit(w) /\ productLock[p] = w
    BY <2>0, LockedRowStays
  <2>2. kind[w] \in Releasing \cup {"create"}
    BY <2>0, <2>1 DEF LockInv, ProductLocks
  <2>3. target[w] \in Orders
    BY <2>0, <2>1, CommittedOrder
  <2>4. kind[w] # "create"
    <3> SUFFICES ASSUME kind[w] = "create"
                 PROVE  FALSE
      OBVIOUS
    <3>1. product'[p].stock = product[p].stock + (-1) * Qty[target[w]][p]
      BY <2>1, CommittedStock
    <3>2. Qty[target[w]][p] \in Nat
      BY <2>3, OrderStockAssumption
    <3> QED BY <2>0, <3>1, <3>2
  <2> QED BY <2>0, <2>1, <2>2, <2>3, <2>4, CommittedOrder DEF Releasing
<1> QED BY <1>1, StockInvariant, PTL DEF Spec, RestoreOnlyWithCancel

-----------------------------------------------------------------------------
(* Stock follows the orders *)

\* Nobody writes a row it has read without locking it, and stock is given back
\* to a product as it is when locked, if at all: the code as deployed, as long
\* as orders are placed, paid and refunded only, is one such case.
FreshStock ==
    /\ "admin" \notin Kinds /\ "edit" \notin Kinds
    /\ LockRefreshes \/ Kinds \cap Releasing = {}

\* Then only commits write the tables.
LEMMA FreshRowsChange ==
    ASSUME FreshStock, StockInv, Next
    PROVE  (\E w \in Workers : Commit(w)) \/ UNCHANGED rows
<1>1. ASSUME NEW w \in Workers
      PROVE  ~WriteOrder(w) /\ ~WriteProduct(w)
  BY DEF WriteOrder, WriteProduct, FreshStock, StockInv, OrderInv, LockInv, Phases
<1> QED BY <1>1, RowsChange

LEMMA FreshRelease ==
    ASSUME FreshStock, LockInv, NEW w \in Workers, kind[w] \in Releasing
    PROVE  LockRefreshes
  BY DEF FreshStock, LockInv, Phases, Releasing

\* Who cannot give stock back cannot cancel either.
NoneCancelled ==
    ~LockRefreshes => \A o \in Orders : order[o].status # "cancelled"

LEMMA NoneCancelledAlways == FreshStock => (Spec => []NoneCancelled)
<1> SUFFICES ASSUME FreshStock
             PROVE  Spec => []NoneCancelled
  OBVIOUS
<1>1. Init => NoneCancelled
  BY DEF Init, NoneCancelled
<1>2. StockInv /\ NoneCancelled /\ [Next]_vars => NoneCancelled'
  <2> SUFFICES ASSUME StockInv, NoneCancelled, [Next]_vars, ~LockRefreshes
               PROVE  \A o \in Orders : order'[o].status # "cancelled"
    BY DEF NoneCancelled
  <2>0. OrderInv /\ LockInv
    BY DEF StockInv, OrderInv
  <2>1. ASSUME NEW w \in Workers, Commit(w)
        PROVE  \A o \in Orders : order'[o].status # "cancelled"
    <3>1. kind[w] \in {"create", "pay", "refund"}
      BY <2>0, <2>1, CommittedOrder, FreshRelease DEF Releasing
    <3>2. order'[target[w]].status # "cancelled"
      BY <2>0, <2>1, <3>1, CommittedOrder DEF NoneCancelled
    <3> QED BY <2>0, <2>1, <3>2, CommittedOrder DEF NoneCancelled
  <2>2. CASE UNCHANGED rows
    BY <2>2 DEF rows, NoneCancelled
  <2> QED BY <2>1, <2>2, FreshRowsChange DEF vars
<1> QED BY <1>1, <1>2, StockInvariant, PTL DEF Spec

(* When no administrator writes and releases see the products as they are,  *)
(* stock moves only in the step that creates or cancels an order, by what   *)
(* that order asks for: nothing is oversold, lost or restored twice.        *)
THEOREM StockMovesWithOrders == FreshStock => (Spec => StockFollowsOrders)
<1> SUFFICES ASSUME FreshStock
             PROVE  Spec => StockFollowsOrders
  OBVIOUS
<1> DEFINE Still == /\ \A p \in Products : product'[p].stock = product[p].stock
                    /\ \A o \in Orders : o \in Holding <=> o \in Holding'
           Moves == \E o \in Orders :
                       \/ o \notin Holding /\ o \in Holding' /\ StockMoves(o, -1)
                       \/ o \in Holding /\ o \notin Holding' /\ StockMoves(o, 1)
<1>1. ASSUME StockInv, PaymentMatchesStatus, NoneCancelled, NEW w \in Workers, Commit(w)
      PROVE  Still \/ Moves
  <2> DEFINE o == target[w]
  <2>0. OrderInv /\ o \in Orders /\ \A other \in Orders : other # o => order'[other] = order[other]
    BY <1>1, CommittedOrder DEF StockInv
  <2>1. CASE kind[w] = "create"
    <3>1. o \notin Holding /\ o \in Holding'
      BY <1>1, <2>0, <2>1, CommittedOrder DEF Holding
    <3>2. StockMoves(o, -1)
      BY <1>1, <2>0, <2>1, CommittedStock DEF StockMoves
    <3> QED BY <2>0, <3>1, <3>2
  <2>2. CASE kind[w] \in Releasing
    <3>1. order[o].status \in {"pending", "paid"}
      BY <1>1, <2>0, <2>2, CommittedOrder DEF PaymentMatchesStatus, Releasing
    <3>2. o \in Holding /\ o \notin Holding'
      BY <1>1, <2>0, <2>2, <3>1, CommittedOrder DEF Holding, Releasing
    <3>3. StockMoves(o, 1)
      BY <1>1, <2>0, <2>2, CommittedStock, FreshRelease DEF StockMoves, OrderInv
    <3> QED BY <2>0, <3>2, <3>3
  <2>3. CASE kind[w] \in {"pay", "refund"}
    <3>1. order[o].status \notin {"none", "cancelled"}
      <4>1. order[o].status # "none"
        BY <1>1, <2>0, <2>3, CommittedOrder
      <4>2. order[o].status # "cancelled"
        BY <1>1, <2>0, <2>3, CommittedOrder DEF PaymentMatchesStatus, NoneCancelled
      <4> QED BY <4>1, <4>2
    <3>2. order'[o].status = "paid"
      BY <1>1, <2>0, <2>3, CommittedOrder DEF PaymentMatchesStatus
    <3>3. \A other \in Orders : other \in Holding <=> other \in Holding'
      BY <2>0, <3>1, <3>2 DEF Holding
    <3> QED BY <1>1, <2>3, <3>3, CommittedStock
  <2> QED BY <1>1, <2>0, <2>1, <2>2, <2>3, CommittedOrder DEF Releasing
<1>2. ASSUME UNCHANGED rows
      PROVE  Still
  BY <1>2 DEF rows, Holding
<1>3. StockInv /\ PaymentMatchesStatus /\ NoneCancelled /\ [Next]_vars => [Still \/ Moves]_vars
  BY <1>1, <1>2, FreshRowsChange
<1>4. "admin" \notin Kinds
  BY DEF FreshStock
<1>5. Spec => []PaymentMatchesStatus
  BY <1>4, PaymentAgrees
<1> QED BY <1>3, <1>5, StockInvariant, NoneCancelledAlways, PTL DEF Spec, StockFollowsOrders

-----------------------------------------------------------------------------
(* Stock and orders add up                                                  *)

PiecesOf(o, p) == {o} \X (1..Qty[o][p])
PiecesOfAll(S, p) == UNION {PiecesOf(o, p) : o \in S}

LEMMA OrderPieces ==
    ASSUME NEW o \in Orders, NEW p \in Products
    PROVE  IsFiniteSet(PiecesOf(o, p)) /\ Cardinality(PiecesOf(o, p)) = Qty[o][p]
<1>1. Qty[o][p] \in Nat
  BY OrderStockAssumption
<1>2. IsFiniteSet(1..Qty[o][p]) /\ Cardinality(1..Qty[o][p]) = Qty[o][p]
  <2>1. /\ IsFiniteSet(1..Qty[o][p])
        /\ Cardinality(1..Qty[o][p]) = IF 1 > Qty[o][p] THEN 0 ELSE Qty[o][p] - 1 + 1
    BY <1>1, FS_Interval
  <2>2. QED
    BY <1>1, <2>1
<1>3. IsFiniteSet({o}) /\ Cardinality({o}) = 1
  BY FS_Singleton
<1>4. /\ IsFiniteSet({o} \X (1..Qty[o][p]))
      /\ Cardinality({o} \X (1..Qty[o][p])) = Cardinality({o}) * Cardinality(1..Qty[o][p])
  BY <1>2, <1>3, FS_Product
<1>5. QED
  BY <1>1, <1>2, <1>3, <1>4 DEF PiecesOf

\* An order more among those that take stock holds its pieces more.
LEMMA MorePieces ==
    ASSUME NEW fewer, NEW more, NEW o \in Orders, NEW p \in Products,
           o \notin fewer, more = fewer \cup {o}
    PROVE  /\ IsFiniteSet(PiecesOfAll(fewer, p)) <=> IsFiniteSet(PiecesOfAll(more, p))
           /\ IsFiniteSet(PiecesOfAll(fewer, p)) =>
                 Cardinality(PiecesOfAll(more, p)) = Cardinality(PiecesOfAll(fewer, p)) + Qty[o][p]
<1> DEFINE before == PiecesOfAll(fewer, p)
           after == PiecesOfAll(more, p)
<1>1. after = before \cup PiecesOf(o, p)
  BY DEF PiecesOfAll
<1>2. before \cap PiecesOf(o, p) = {}
  BY DEF PiecesOf, PiecesOfAll
<1>3. before \in SUBSET after
  BY <1>1
<1> HIDE DEF before, after
<1>4. IsFiniteSet(after) => IsFiniteSet(before)
  BY <1>3, FS_Subset
<1>5. ASSUME IsFiniteSet(before)
      PROVE  IsFiniteSet(after) /\ Cardinality(after) = Cardinality(before) + Qty[o][p]
  <2>1. IsFiniteSet(PiecesOf(o, p)) /\ Cardinality(PiecesOf(o, p)) = Qty[o][p]
    BY OrderPieces
  <2>2. /\ IsFiniteSet(before \cup PiecesOf(o, p))
        /\ Cardinality(before \cup PiecesOf(o, p)) =
              Cardinality(before) + Cardinality(PiecesOf(o, p))
                 - Cardinality(before \cap PiecesOf(o, p))
    BY <1>5, <2>1, FS_Union
  <2>3. Cardinality(before \cap PiecesOf(o, p)) = 0
    BY <1>2, FS_EmptySet
  <2>4. Cardinality(before) \in Nat /\ Qty[o][p] \in Nat
    BY <1>5, FS_CardinalityType, OrderStockAssumption
  <2>5. QED
    BY <1>1, <2>1, <2>2, <2>3, <2>4
<1>6. QED
  BY <1>4, <1>5 DEF before, after

Conserved == StockConserved /\ \A p \in Products : IsFiniteSet(Pieces(p))

\* Created and cancelled orders keep the sum.
LEMMA SumKept ==
    ASSUME Conserved, TypeOK, NEW o \in Orders,
           \/ o \notin Holding /\ o \in Holding' /\ StockMoves(o, -1)
           \/ o \in Holding /\ o \notin Holding' /\ StockMoves(o, 1)
    PROVE  Conserved'
<1> SUFFICES ASSUME NEW p \in Products
             PROVE  IsFiniteSet(Pieces(p))' /\ product'[p].stock + Held(p)' = InitialStock[p]
  BY DEF Conserved, StockConserved
<1>1. Pieces(p) = PiecesOfAll(Holding, p)
  BY DEF Pieces, PiecesOf, PiecesOfAll
<1>2. Pieces(p)' = PiecesOfAll(Holding', p)
  BY DEF Pieces, PiecesOf, PiecesOfAll
<1>3. /\ IsFiniteSet(Pieces(p)) /\ Held(p) = Cardinality(Pieces(p)) /\ Held(p) \in Nat
      /\ product[p].stock + Held(p) = InitialStock[p]
      /\ product[p].stock \in Int /\ Qty[o][p] \in Nat
  BY FS_CardinalityType, OrderStockAssumption
  DEF Conserved, StockConserved, Held, TypeOK, ProductRow
<1>4. \A q \in Orders \ {o} : q \in Holding <=> q \in Holding'
  BY DEF StockMoves, Holding
<1>5. CASE o \notin Holding /\ o \in Holding' /\ StockMoves(o, -1)
  <2>1. Holding' = Holding \cup {o}
    BY <1>4, <1>5 DEF Holding
  <2>2. IsFiniteSet(Pieces(p)') /\ Cardinality(Pieces(p)') = Cardinality(Pieces(p)) + Qty[o][p]
    <3> DEFINE later == Holding'
    <3>1. later = Holding \cup {o} /\ o \notin Holding
      BY <1>5, <2>1
    <3> HIDE DEF later
    <3>2. /\ IsFiniteSet(PiecesOfAll(Holding, p)) <=> IsFiniteSet(PiecesOfAll(later, p))
          /\ IsFiniteSet(PiecesOfAll(Holding, p)) =>
                Cardinality(PiecesOfAll(later, p)) = Cardinality(PiecesOfAll(Holding, p)) + Qty[o][p]
      BY <3>1, MorePieces
    <3>3. QED
      BY <1>1, <1>2, <1>3, <3>2 DEF later
  <2>3. product'[p].stock = product[p].stock + (-1) * Qty[o][p]
    BY <1>5 DEF StockMoves
  <2>4. Held(p)' = Held(p) + Qty[o][p]
    BY <1>3, <2>2 DEF Held
  <2>5. QED
    BY <1>3, <2>2, <2>3, <2>4
<1>6. CASE o \in Holding /\ o \notin Holding' /\ StockMoves(o, 1)
  <2>1. Holding = Holding' \cup {o}
    BY <1>4, <1>6 DEF Holding
  <2>2. IsFiniteSet(Pieces(p)') /\ Cardinality(Pieces(p)) = Cardinality(Pieces(p)') + Qty[o][p]
    <3> DEFINE later == Holding'
    <3>1. Holding = later \cup {o} /\ o \notin later
      BY <1>6, <2>1
    <3> HIDE DEF later
    <3>2. /\ IsFiniteSet(PiecesOfAll(later, p)) <=> IsFiniteSet(PiecesOfAll(Holding, p))
          /\ IsFiniteSet(PiecesOfAll(later, p)) =>
                Cardinality(PiecesOfAll(Holding, p)) = Cardinality(PiecesOfAll(later, p)) + Qty[o][p]
      BY <3>1, MorePieces
    <3>3. QED
      BY <1>1, <1>2, <1>3, <3>2 DEF later
  <2>3. product'[p].stock = product[p].stock + 1 * Qty[o][p]
    BY <1>6 DEF StockMoves
  <2>4. Held(p)' \in Nat /\ Held(p) = Held(p)' + Qty[o][p]
    BY <1>3, <2>2, FS_CardinalityType DEF Held
  <2>5. QED
    BY <1>3, <2>2, <2>3, <2>4
<1>7. QED
  BY <1>5, <1>6

LEMMA ConservedAlways == FreshStock => (Spec => []Conserved)
<1> SUFFICES ASSUME FreshStock
             PROVE  Spec => []Conserved
  OBVIOUS
<1> DEFINE Step ==
        \/ /\ \A p \in Products : product'[p].stock = product[p].stock
           /\ \A o \in Orders : o \in Holding <=> o \in Holding'
        \/ \E o \in Orders :
              \/ o \notin Holding /\ o \in Holding' /\ StockMoves(o, -1)
              \/ o \in Holding /\ o \notin Holding' /\ StockMoves(o, 1)
<1>1. Init => Conserved
  <2> SUFFICES ASSUME Init PROVE Conserved
    OBVIOUS
  <2>1. Holding = {}
    BY DEF Init, Holding
  <2>2. ASSUME NEW p \in Products
        PROVE  IsFiniteSet(Pieces(p)) /\ product[p].stock + Held(p) = InitialStock[p]
    <3>1. Pieces(p) = {}
      BY <2>1 DEF Pieces
    <3>2. IsFiniteSet(Pieces(p)) /\ Held(p) = 0
      BY <3>1, FS_EmptySet DEF Held
    <3>3. QED
      BY <3>2, OrderStockAssumption DEF Init
  <2>3. QED
    BY <2>2 DEF Conserved, StockConserved
<1>2. Conserved /\ StockInv /\ [Step]_vars => Conserved'
  <2> SUFFICES ASSUME Conserved, StockInv, [Step]_vars
               PROVE  Conserved'
    OBVIOUS
  <2>1. CASE /\ \A p \in Products : product'[p].stock = product[p].stock
             /\ \A o \in Orders : o \in Holding <=> o \in Holding'
    <3>1. Holding' = Holding
      BY <2>1 DEF Holding
    <3>2. \A p \in Products : Pieces(p)' = Pieces(p)
      BY <3>1 DEF Pieces
    <3>3. QED
      BY <2>1, <3>2 DEF Conserved, StockConserved, Held
  <2>2. ASSUME NEW o \in Orders,
               \/ o \notin Holding /\ o \in Holding' /\ StockMoves(o, -1)
               \/ o \in Holding /\ o \notin Holding' /\ StockMoves(o, 1)
        PROVE  Conserved'
    BY <2>2, SumKept DEF StockInv, OrderInv, LockInv
  <2>3. CASE UNCHANGED vars
    BY <2>1, <2>3 DEF vars, rows, Holding
  <2>4. QED
    BY <2>1, <2>2, <2>3
<1>3. Spec => [][Step]_vars
  BY StockMovesWithOrders DEF StockFollowsOrders
<1>4. Spec => []StockInv
  BY StockInvariant
<1>5. QED
  BY <1>1, <1>2, <1>3, <1>4, PTL DEF Spec

\* Under the same conditions, what is left and what the live orders hold is always what there was.
THEOREM StockIsConserved == FreshStock => (Spec => []StockConserved)
<1> SUFFICES ASSUME FreshStock
             PROVE  Spec => []StockConserved
  OBVIOUS
<1>1. Spec => []Conserved
  BY ConservedAlways
<1>2. Conserved => StockConserved
  BY DEF Conserved
<1> QED BY <1>1, <1>2, PTL

\* Under the same conditions the live orders never hold more than there was.
THEOREM NothingOversold == FreshStock => (Spec => []NoOversell)
<1> SUFFICES ASSUME FreshStock
             PROVE  Spec => []NoOversell
  OBVIOUS
<1>1. TypeOK /\ Sellable /\ Conserved => NoOversell
  <2> SUFFICES ASSUME TypeOK, Sellable, Conserved, NEW p \in Products
               PROVE  Held(p) <= InitialStock[p]
    BY DEF NoOversell
  <2>1. product[p].stock \in Int /\ product[p].stock >= 0 /\ Held(p) \in Nat
        /\ product[p].stock + Held(p) = InitialStock[p]
    BY FS_CardinalityType DEF TypeOK, ProductRow, Sellable, Conserved, StockConserved, Held
  <2> QED BY <2>1
<1>2. LockInv => TypeOK
  BY DEF LockInv
<1> QED BY <1>1, <1>2, LockInvariant, SellableAlways, ConservedAlways, PTL

-----------------------------------------------------------------------------
(* Requests are atomic *)

LEMMA BecomesRow ==
    ASSUME NEW o \in Orders, \A other \in Orders : other # o => order'[other] = order[other],
           NEW status, NEW pay, order'[o].status = status, order'[o].pay = pay
    PROVE  Atomic!Becomes(o, status, pay)
  BY DEF Atomic!Becomes

(* A release, however old its copy of a product, leaves there what it gives *)
(* back at least.                                                           *)
Returned(w) ==
    kind[w] \in Releasing =>
        \A p \in Products : productLock[p] = w => seenProduct[w][p].stock >= Qty[target[w]][p]

LEMMA NextReturned ==
    ASSUME LockInv, Sellable, \A v \in Workers : Returned(v), Next
    PROVE  \A v \in Workers : Returned(v)'
<1>1. PICK w \in Workers :
        \/ \E k \in OrderKinds, o \in Orders : Begin(w, k, o)
        \/ \E p \in Products : BeginEdit(w, p)
        \/ Progress(w)
        \/ Rollback(w)
  BY DEF Next
<1>2. ASSUME NEW v \in Workers, v # w
      PROVE  Returned(v)'
  BY <1>1, <1>2, OthersStay DEF Returned
<1>3. Returned(w)'
  <2>1. CASE Finish(w)
    BY <2>1, OrderStockAssumption DEF Finish, Returned, LockInv, TypeOK
  <2>2. ASSUME NEW p \in Products, LockProduct(w, p)
        PROVE  Returned(w)'
    <3>1. /\ productLock' = [productLock EXCEPT ![p] = w] /\ kind' = kind /\ target' = target
          /\ productLock \in [Products -> Workers \cup {NoWorker}]
      BY <2>2 DEF LockProduct, request, LockInv, TypeOK
    <3>2. ProductUnderLock(w, p).stock >= 0
      BY OrderStockAssumption DEF Sellable, ProductUnderLock
    <3>3. /\ target[w] \in Orders /\ Qty[target[w]][p] \in Nat
          /\ ProductUnderLock(w, p).stock \in Int
          /\ kind[w] # "create" =>
                seenProduct'[w][p].stock = ProductUnderLock(w, p).stock + Qty[target[w]][p]
          /\ \A q \in Products : q # p => seenProduct'[w][q] = seenProduct[w][q]
      BY <2>2, LockedProduct, OrderStockAssumption DEF ProductRow
    <3>4. kind[w] # "create" => seenProduct'[w][p].stock >= Qty[target[w]][p]
      BY <3>2, <3>3
    <3> QED BY <3>1, <3>3, <3>4 DEF Returned, Releasing
  <2>3. CASE LockUser(w)
    BY <2>3 DEF LockUser, rows, request, context, Returned, LockInv, Phases, Releasing
  <2>4. CASE \/ LoadItems(w) \/ ReadOrder(w) \/ SetStatus(w) \/ LockOrder(w) \/ ReadProduct(w)
             \/ \E k \in OrderKinds, o \in Orders : Begin(w, k, o)
             \/ \E p \in Products : BeginEdit(w, p)
    <3>1. productLock' = productLock /\ pc[w] \notin {"lockProducts", "commit"}
      BY <2>4 DEF LoadItems, ReadOrder, SetStatus, LockOrder, ReadProduct, Begin, BeginEdit, locks
    <3>2. \A p \in Products : productLock'[p] # w
      BY <3>1 DEF LockInv, ProductLocks
    <3> QED BY <3>2 DEF Returned
  <2> QED BY <1>1, <2>1, <2>2, <2>3, <2>4
          DEF Progress, AnswerRepeat, RefuseStatus, WriteOrder, RefuseOrder, RefuseProduct, Commit,
              WriteProduct, Rollback
<1> QED BY <1>2, <1>3

LEMMA ReturnedAlways == Spec => []\A w \in Workers : Returned(w)
<1>1. Init => \A w \in Workers : Returned(w)
  BY OrderStockAssumption DEF Init, Returned, Releasing
<1>2. LockInv /\ Sellable /\ (\A w \in Workers : Returned(w)) /\ [Next]_vars
        => (\A w \in Workers : Returned(w))'
  <2>1. UNCHANGED vars /\ (\A w \in Workers : Returned(w)) => (\A w \in Workers : Returned(w))'
    BY DEF vars, locks, request, context, Returned
  <2> QED BY <2>1, NextReturned
<1> QED BY <1>1, <1>2, LockInvariant, SellableAlways, PTL DEF Spec

\* What a release that commits does to the stock of all products.
LEMMA CommitGivesBack ==
    ASSUME StockInv, StockNotNegative', NEW w \in Workers, Returned(w), Commit(w),
           kind[w] \in Releasing, NEW o \in Orders, o = target[w]
    PROVE  Atomic!GiveBack(o)
<1>1. /\ \A p \in Products : Qty[o][p] \in Nat
      /\ \A p \in Products : product'[p] = IF productLock[p] = w THEN seenProduct[w][p] ELSE product[p]
  BY OrderStockAssumption DEF Commit
<1>2. CASE LockRefreshes
  <2>1. \A p \in Products : product'[p].stock = product[p].stock + Qty[o][p]
    <3> SUFFICES ASSUME NEW p \in Products
                 PROVE  product'[p].stock = product[p].stock + Qty[o][p]
      OBVIOUS
    <3>1. product'[p].stock = product[p].stock + 1 * Qty[o][p]
      BY <1>2, CommittedStock
    <3> QED BY <1>1, <3>1
  <2> QED BY <2>1 DEF Atomic!GiveBack
<1>3. CASE ~LockRefreshes
  <2>1. \A p \in Products : productLock[p] = w <=> p \in Items(o)
    BY DEF StockInv, StockCopies, Commit, OrderInv, LockInv, ProductLocks, Remaining, Items
  <2>2. \A p \in Products : Qty[o][p] > 0 \/ product'[p].stock = product[p].stock
    BY <1>1, <2>1 DEF Items
  <2>3. \A p \in Products : product'[p].stock >= Qty[o][p]
    BY <1>1, <2>1 DEF Items, Returned, StockNotNegative
  <2> QED BY <1>3, <2>2, <2>3 DEF Atomic!GiveBack
<1> QED BY <1>2, <1>3

(* The commit of a transaction is the request's one step; what it created   *)
(* was there to take, or the stock would be negative now.                   *)
LEMMA CommitMaps ==
    ASSUME StockInv, StockNotNegative', NEW w \in Workers, Returned(w), Commit(w),
           NEW o \in Orders, o = target[w]
    PROVE  Atomic!Request(o)
<1>1. OrderInv /\ LockInv /\ pc[w] = "commit"
  BY DEF StockInv, OrderInv, Commit
<1>2. /\ \A other \in Orders : other # o => order'[other] = order[other]
      /\ kind[w] \in {"create", "cancel", "expire", "pay", "refund", "complete"}
      /\ kind[w] \in Kinds
  BY <1>1, CommittedOrder DEF LockInv, Phases
<1>3. \A p \in Products : Qty[o][p] \in Nat /\ product[p].stock \in Int
  BY <1>1, OrderStockAssumption DEF LockInv, TypeOK, ProductRow
<1>4. kind[w] \in Releasing => Atomic!GiveBack(o)
  BY CommitGivesBack
<1>5. kind[w] \in {"pay", "refund"} =>
        [p \in Products |-> product'[p].stock] = [p \in Products |-> product[p].stock]
  BY CommittedStock
<1>6. CASE kind[w] = "create"
  <2>1. \A p \in Products :
           /\ product'[p].stock = product[p].stock - Qty[o][p]
           /\ product[p].stock >= Qty[o][p]
    <3> SUFFICES ASSUME NEW p \in Products
                 PROVE  /\ product'[p].stock = product[p].stock - Qty[o][p]
                        /\ product[p].stock >= Qty[o][p]
      OBVIOUS
    <3>1. product'[p].stock = product[p].stock + (-1) * Qty[o][p]
      BY <1>6, CommittedStock
    <3>2. product'[p].stock >= 0
      BY DEF StockNotNegative
    <3> QED BY <1>3, <3>1, <3>2
  <2>2. /\ order[o].status = "none"
        /\ order'[o].status = "pending" /\ order'[o].pay = "unpaid"
    BY <1>1, <1>6, CommittedOrder
  <2>3. Atomic!Create(o)
    BY <1>2, <1>6, <2>1, <2>2, BecomesRow DEF Atomic!Create
  <2> QED BY <2>3 DEF Atomic!Request
<1>7. CASE kind[w] \in {"cancel", "expire"}
  <2>1. /\ order[o].status = "pending"
        /\ order'[o].status = "cancelled" /\ order'[o].pay = order[o].pay
    BY <1>1, <1>7, CommittedOrder
  <2>2. Kinds \cap {"cancel", "expire"} # {}
    BY <1>2, <1>7
  <2>3. Atomic!Cancel(o)
    BY <1>2, <1>4, <1>7, <2>1, <2>2 DEF Atomic!Cancel, Atomic!Becomes, Releasing
  <2> QED BY <2>3 DEF Atomic!Request
<1>8. CASE kind[w] = "pay"
  <2>1. /\ order[o].status = "pending" \/ (~LockRefreshes /\ order[o].status # "none")
        /\ order'[o].status = "paid" /\ order'[o].pay = "paid"
    BY <1>1, <1>8, CommittedOrder
  <2>2. Atomic!Pay(o)
    BY <1>2, <1>5, <1>8, <2>1, BecomesRow DEF Atomic!Pay
  <2> QED BY <2>2 DEF Atomic!Request
<1>9. CASE kind[w] = "refund"
  <2>1. /\ order[o].pay = "paid"
        /\ order'[o].status = order[o].status /\ order'[o].pay = "refunding"
    BY <1>1, <1>9, CommittedOrder
  <2>2. Atomic!Refund(o)
    BY <1>2, <1>5, <1>9, <2>1 DEF Atomic!Refund, Atomic!Becomes
  <2> QED BY <2>2 DEF Atomic!Request
<1>10. CASE kind[w] = "complete"
  <2>1. /\ order[o].pay = "refunding"
        /\ order'[o].status = "cancelled" /\ order'[o].pay = "refunded"
    BY <1>1, <1>10, CommittedOrder
  <2>2. Atomic!Complete(o)
    BY <1>2, <1>4, <1>10, <2>1, BecomesRow DEF Atomic!Complete, Releasing
  <2> QED BY <2>2 DEF Atomic!Request
<1> QED BY <1>2, <1>6, <1>7, <1>8, <1>9, <1>10

\* An administrator's write of an order is one step too.
LEMMA WriteOrderMaps ==
    ASSUME StockInv, NEW w \in Workers, WriteOrder(w)
    PROVE  \E o \in Orders : Atomic!Request(o)
<1>0. PICK o \in Orders : o = target[w]
  BY DEF WriteOrder, StockInv, OrderInv, LockInv, Phases, OrderKinds
<1>1. /\ "admin" \in Kinds /\ seenOrder[w] \in OrderRow
      /\ order[o].status # "none" /\ seenOrder[w].status \notin {"none", "pending"}
  BY <1>0 DEF WriteOrder, StockInv, OrderInv, LockInv, Phases, Decided, OrderKinds
<1>2. /\ order'[o] = seenOrder[w] /\ product' = product
      /\ \A other \in Orders : other # o => order'[other] = order[other]
  BY <1>0, <1>1 DEF WriteOrder, StockInv, OrderInv, LockInv, TypeOK
<1>3. /\ seenOrder[w].status \in {"paid", "shipped", "delivered", "cancelled"}
      /\ seenOrder[w].pay \in {"unpaid", "paid", "refunding", "refunded"}
  BY <1>1 DEF OrderRow, Statuses, PayStatuses
<1>4. PICK newStatus, newPay : newStatus = seenOrder[w].status /\ newPay = seenOrder[w].pay
  OBVIOUS
<1>5. Atomic!Becomes(o, newStatus, newPay)
  BY <1>2, <1>4, BecomesRow
<1>6. Atomic!SetStatus(o)
  BY <1>1, <1>2, <1>3, <1>4, <1>5 DEF Atomic!SetStatus
<1> QED BY <1>6 DEF Atomic!Request

\* ... and so is one of a product.
LEMMA WriteProductMaps ==
    ASSUME StockInv, StockNotNegative', NEW w \in Workers, WriteProduct(w)
    PROVE  \E p \in Products : Atomic!Restock(p)
<1>1. PICK p \in Products : p = target[w]
  BY DEF WriteProduct, StockInv, OrderInv, LockInv, Phases
<1>2. /\ order' = order /\ "edit" \in Kinds
      /\ \A q \in Products : q # p => product'[q] = product[q]
  BY <1>1 DEF WriteProduct, StockInv, OrderInv, LockInv, Phases, TypeOK
<1>3. product'[p].stock >= 0
  BY DEF StockNotNegative
<1>4. Atomic!Restock(p)
  BY <1>2, <1>3 DEF Atomic!Restock
<1> QED BY <1>4

(* OrderStock implements AtomicOrders: the interleaved transactions of      *)
(* concurrent requests change the tables as a sequence of whole requests    *)
(* would; Commit, WriteOrder and WriteProduct are the request's step, every *)
(* other one is a stutter.  Without the refresh that is the AtomicOrders of *)
(* late payments and stale releases, and nothing worse.                     *)
THEOREM TransactionsAreAtomic == Spec => RequestsAreAtomic
<1>1. Init => Atomic!Init
  BY DEF Init, Atomic!Init
<1>2. ASSUME StockInv, \A w \in Workers : Returned(w), StockNotNegative', Next
      PROVE  Atomic!Next \/ UNCHANGED Atomic!vars
  <2>1. ASSUME NEW w \in Workers, Commit(w)
        PROVE  Atomic!Next
    <3>1. PICK o \in Orders : o = target[w]
      BY <1>2, <2>1, CommittedOrder DEF StockInv
    <3>2. Atomic!Request(o)
      BY <1>2, <2>1, <3>1, CommitMaps
    <3> QED BY <3>2 DEF Atomic!Next
  <2>2. ASSUME NEW w \in Workers, WriteOrder(w)
        PROVE  Atomic!Next
    BY <1>2, <2>2, WriteOrderMaps DEF Atomic!Next
  <2>3. ASSUME NEW w \in Workers, WriteProduct(w)
        PROVE  Atomic!Next
    BY <1>2, <2>3, WriteProductMaps DEF Atomic!Next
  <2>4. CASE UNCHANGED rows
    BY <2>4 DEF rows, Atomic!vars
  <2> QED BY <1>2, <2>1, <2>2, <2>3, <2>4, RowsChange
<1>3. UNCHANGED vars => UNCHANGED Atomic!vars
  BY DEF vars, rows, Atomic!vars
<1>4. StockInv /\ (\A w \in Workers : Returned(w)) /\ StockNotNegative' /\ [Next]_vars
        => [Atomic!Next]_(Atomic!vars)
  BY <1>2, <1>3
<1> QED BY <1>1, <1>4, StockInvariant, ReturnedAlways, NeverNegative, PTL
        DEF Spec, RequestsAreAtomic, Atomic!Spec
=============================================================================
