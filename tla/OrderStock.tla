----------------------------- MODULE OrderStock -----------------------------
(***************************************************************************)
(* The order and stock core of the Java backend: what OrderServiceImpl,    *)
(* OrderPaymentServiceImpl, ProductServiceImpl and the two repositories do *)
(* to the rows of tables `orders` and `products` when requests run in      *)
(* concurrent MySQL transactions.                                          *)
(*                                                                         *)
(* A worker is a database connection serving one request at a time.  Its   *)
(* transaction takes InnoDB row locks (findByIdForUpdate), keeps them to   *)
(* its end, and works on the copies Hibernate loaded into its persistence  *)
(* context (seenOrder, seenProduct); the copies reach the rows at Commit.  *)
(* A dirty entity writes its whole row: no entity has @Version or          *)
(* @DynamicUpdate.                                                         *)
(*                                                                         *)
(* Of a user only the row lock matters here: a creation that carries an    *)
(* intent key takes it before its products, one without a key needs it     *)
(* last, for the foreign key of the row it inserts.  soldCount moves in    *)
(* step with stock and is left out; so are prices and addresses, which no  *)
(* property here tells apart.                                              *)
(***************************************************************************)
EXTENDS Integers, FiniteSets

CONSTANTS
    Orders,         \* order ids the database will hand out
    Products,       \* product ids, ordered as createOrder sorts them
    Qty,            \* Qty[o][p]: how many of p order o asks for
    InitialStock,   \* stock of each product before any order
    Users,          \* user ids
    Owner,          \* Owner[o]: the user who places order o
    Intent,         \* Intent[o]: the idempotencyKey of the request for o
    Restocks,       \* the stocks an administrator may set
    Workers,        \* database connections
    Kinds,          \* the requests the instance serves, a subset of AllKinds
    LockRefreshes,  \* does a locking query refresh an entity already loaded?
    NoIntent,       \* the Intent of a request without a key
    NoWorker,       \* owner of a free row lock
    NoTarget,       \* target of an idle worker
    NotLoaded       \* an entity the persistence context does not hold

OrderKinds  == {"create", "cancel", "expire", "pay", "admin", "refund", "complete"}
AllKinds    == OrderKinds \cup {"edit"}
\* Requests that put the stock of their order back.
Releasing   == {"cancel", "expire", "complete"}

Statuses    == {"none", "pending", "paid", "shipped", "delivered", "cancelled"}
PayStatuses == {"unpaid", "paid", "refunding", "refunded"}
OrderRow    == [status : Statuses, pay : PayStatuses]
ProductRow  == [stock : Int, onSale : BOOLEAN]

ASSUME OrderStockAssumption ==
    /\ Products \subseteq Int
    /\ Qty \in [Orders -> [Products -> Nat]]
    /\ InitialStock \in [Products -> Nat]
    /\ Owner \in [Orders -> Users]
    /\ Restocks \subseteq Nat    \* ProductDTO: @NotNull @Min(0)
    /\ Kinds \subseteq AllKinds
    /\ LockRefreshes \in BOOLEAN
    /\ NoWorker \notin Workers
    /\ NoTarget \notin Orders \cup Products
    /\ NotLoaded \notin OrderRow \cup ProductRow
    /\ \A o \in Orders : \E p \in Products : Qty[o][p] > 0

\* Products are finitely many: any of them have a greatest.
ASSUME ProductOrderAssumption ==
    \A S \in (SUBSET Products) \ {{}} : \E m \in S : \A p \in S : p <= m

VARIABLES
    order,          \* committed rows of table orders
    product,        \* committed rows of table products
    lines,          \* lines[o]: the pairs <<p, q>> of o's items with p saved before q
    userLock,       \* holder of each user row's exclusive lock
    orderLock,      \* holder of each order row's exclusive lock
    productLock,    \* holder of each product row's exclusive lock
    pc,             \* the statement each worker's transaction runs next
    kind,           \* the request each worker serves
    target,         \* the order, or for "edit" the product, it is about
    seenOrder,      \* the order entity in the worker's persistence context
    seenProduct,    \* its product entities
    taken           \* the pairs <<p, q>> with item p built before item q

rows    == <<order, product, lines>>
locks   == <<userLock, orderLock, productLock>>
request == <<kind, target>>
context == <<seenOrder, seenProduct, taken>>
vars    == <<rows, locks, pc, request, context>>

Steps == {"idle", "lockUser", "readOrder", "lockOrder", "loadItems", "lockProducts",
          "commit", "writeOrder", "readProduct", "writeProduct"}

TypeOK ==
    /\ order \in [Orders -> OrderRow]
    /\ product \in [Products -> ProductRow]
    /\ lines \in [Orders -> SUBSET (Products \X Products)]
    /\ userLock \in [Users -> Workers \cup {NoWorker}]
    /\ orderLock \in [Orders -> Workers \cup {NoWorker}]
    /\ productLock \in [Products -> Workers \cup {NoWorker}]
    /\ pc \in [Workers -> Steps]
    /\ kind \in [Workers -> AllKinds \cup {"none"}]
    /\ target \in [Workers -> Orders \cup Products \cup {NoTarget}]
    /\ seenOrder \in [Workers -> OrderRow \cup {NotLoaded}]
    /\ seenProduct \in [Workers -> [Products -> ProductRow \cup {NotLoaded}]]
    /\ taken \in [Workers -> SUBSET (Products \X Products)]

Init ==
    /\ order = [o \in Orders |-> [status |-> "none", pay |-> "unpaid"]]
    /\ product = [p \in Products |-> [stock |-> InitialStock[p], onSale |-> TRUE]]
    /\ lines = [o \in Orders |-> {}]
    /\ userLock = [u \in Users |-> NoWorker]
    /\ orderLock = [o \in Orders |-> NoWorker]
    /\ productLock = [p \in Products |-> NoWorker]
    /\ pc = [w \in Workers |-> "idle"]
    /\ kind = [w \in Workers |-> "none"]
    /\ target = [w \in Workers |-> NoTarget]
    /\ seenOrder = [w \in Workers |-> NotLoaded]
    /\ seenProduct = [w \in Workers |-> [p \in Products |-> NotLoaded]]
    /\ taken = [w \in Workers |-> {}]

-----------------------------------------------------------------------------
(* Helpers *)

Items(o) == {p \in Products : Qty[o][p] > 0}

\* The products of w's order whose row lock it does not hold yet.
Remaining(w) == {p \in Items(target[w]) : productLock[p] # w}

\* Mutant of NextProduct: createOrder takes the products as the request lists them.
CreateUnsorted(w, p) ==
    /\ p \in Remaining(w)
    /\ CASE kind[w] = "create"   -> TRUE
         [] kind[w] = "complete" -> \A q \in Remaining(w) : <<q, p>> \notin lines[target[w]]
         [] OTHER                -> \A q \in Remaining(w) : p <= q

\* createOrder and releaseStock sort the products by id before they lock them;
\* completeRefund takes the items as they come, which is as they were saved.
NextProduct(w, p) ==
    /\ p \in Remaining(w)
    /\ IF kind[w] = "complete"
       THEN \A q \in Remaining(w) : <<q, p>> \notin lines[target[w]]
       ELSE \A q \in Remaining(w) : p <= q

\* The row of order items is about the same purchase as that of o.
SameIntent(o, e) == Owner[e] = Owner[o] /\ Intent[e] = Intent[o]

\* findByUserIdAndIdempotencyKey finds an order.
Ordered(o) == \E e \in Orders : order[e].status # "none" /\ SameIntent(o, e)

\* Mutant of Accepts: cancels whatever the status.
AcceptsAnyCancel(k, row) ==
    \/ k \in {"cancel", "expire"}
    \/ k = "pay"      /\ row.status = "pending" /\ row.pay # "paid"
    \/ k = "refund"   /\ row.pay = "paid"
    \/ k = "complete" /\ row.pay = "refunding"

\* Mutant of Accepts: pays whatever has not been paid.
AcceptsUnpaid(k, row) ==
    \/ k \in {"cancel", "expire"} /\ row.status = "pending"
    \/ k = "pay"      /\ row.pay # "paid"
    \/ k = "refund"   /\ row.pay = "paid"
    \/ k = "complete" /\ row.pay = "refunding"

\* The checks each request makes of the order entity it works on.
Accepts(k, row) ==
    \/ k \in {"cancel", "expire"} /\ row.status = "pending"
    \/ k = "pay"      /\ row.status = "pending" /\ row.pay # "paid"
    \/ k = "refund"   /\ row.pay = "paid"
    \/ k = "complete" /\ row.pay = "refunding"

\* The order entity as the request leaves it.
Written(k, row) ==
    CASE k = "create"               -> [status |-> "pending", pay |-> "unpaid"]
      [] k \in {"cancel", "expire"} -> [status |-> "cancelled", pay |-> row.pay]
      [] k = "pay"                  -> [status |-> "paid", pay |-> "paid"]
      [] k = "refund"               -> [status |-> row.status, pay |-> "refunding"]
      [] k = "complete"             -> [status |-> "cancelled", pay |-> "refunded"]
      [] OTHER                      -> row

\* Mutant of AdminTargets: the number is stored as it comes.
AnyTarget(status) == Statuses \cup {"closed"}

\* validateStatusTransition: where an administrator may move an order.
AdminTargets(status) ==
    CASE status = "pending" -> {"paid", "cancelled"}
      [] status = "paid"    -> {"shipped", "cancelled"}
      [] status = "shipped" -> {"delivered", "cancelled"}
      [] OTHER              -> {}

\* Mutants of OrderUnderLock and ProductUnderLock: the copy loaded earlier.
StaleOrder(w) == IF seenOrder[w] = NotLoaded THEN order[target[w]] ELSE seenOrder[w]
StaleProduct(w, p) == IF seenProduct[w][p] = NotLoaded THEN product[p] ELSE seenProduct[w][p]

(* What SELECT ... FOR UPDATE hands to the code.  The row it reads is the   *)
(* committed one; but if the persistence context already holds the entity,  *)
(* Hibernate returns that instance, refreshed only when LockRefreshes.  The *)
(* bulk UPDATE of cancelIfPending always tests the row itself.              *)
OrderUnderLock(w) ==
    IF seenOrder[w] = NotLoaded \/ LockRefreshes \/ kind[w] = "expire"
    THEN order[target[w]] ELSE seenOrder[w]

ProductUnderLock(w, p) ==
    IF seenProduct[w][p] = NotLoaded \/ LockRefreshes
    THEN product[p] ELSE seenProduct[w][p]

\* The transaction ends: its locks go, the connection returns to the pool.
Finish(w) ==
    /\ pc' = [pc EXCEPT ![w] = "idle"]
    /\ kind' = [kind EXCEPT ![w] = "none"]
    /\ target' = [target EXCEPT ![w] = NoTarget]
    /\ seenOrder' = [seenOrder EXCEPT ![w] = NotLoaded]
    /\ seenProduct' = [seenProduct EXCEPT ![w] = [p \in Products |-> NotLoaded]]
    /\ taken' = [taken EXCEPT ![w] = {}]
    /\ userLock' = [u \in Users |-> IF userLock[u] = w THEN NoWorker ELSE userLock[u]]
    /\ orderLock' = [o \in Orders |-> IF orderLock[o] = w THEN NoWorker ELSE orderLock[o]]
    /\ productLock' = [p \in Products |-> IF productLock[p] = w THEN NoWorker ELSE productLock[p]]

-----------------------------------------------------------------------------
(* A request arrives *)

FirstStep(k, o) ==
    CASE k = "create"           -> IF Intent[o] # NoIntent THEN "lockUser" ELSE "lockProducts"
      [] k \in {"pay", "admin"} -> "readOrder"
      [] OTHER                  -> "lockOrder"

\* createOrder inserts under an id nobody else uses; the other requests name
\* an order that exists, the scheduler's one that it found pending.
Begin(w, k, o) ==
    /\ pc[w] = "idle"
    /\ k \in Kinds \cap OrderKinds
    /\ order[o].status = "none" <=> k = "create"
    /\ k = "create" => \A v \in Workers : ~(kind[v] = "create" /\ target[v] = o)
    /\ k = "expire" => order[o].status = "pending"
    /\ pc' = [pc EXCEPT ![w] = FirstStep(k, o)]
    /\ kind' = [kind EXCEPT ![w] = k]
    /\ target' = [target EXCEPT ![w] = o]
    /\ UNCHANGED <<rows, locks, context>>

BeginEdit(w, p) ==
    /\ pc[w] = "idle"
    /\ "edit" \in Kinds
    /\ pc' = [pc EXCEPT ![w] = "readProduct"]
    /\ kind' = [kind EXCEPT ![w] = "edit"]
    /\ target' = [target EXCEPT ![w] = p]
    /\ UNCHANGED <<rows, locks, context>>

-----------------------------------------------------------------------------
(* Order requests *)

\* Mutant of UserGranted: getUserById, with or without a key.
UserUnlocked(w) == TRUE

UserGranted(w) == userLock[Owner[target[w]]] = NoWorker

\* With an intent key createOrder locks the user's row before it looks for the
\* order of an earlier request with that key.
LockUser(w) ==
    /\ pc[w] = "lockUser"
    /\ UserGranted(w)
    /\ ~Ordered(target[w])
    /\ userLock' = [userLock EXCEPT ![Owner[target[w]]] = w]
    /\ pc' = [pc EXCEPT ![w] = "lockProducts"]
    /\ UNCHANGED <<rows, orderLock, productLock, request, context>>

\* The repeated request is answered with that order, or refused if it asks for
\* something else (409); either way nothing is written.
AnswerRepeat(w) ==
    /\ pc[w] = "lockUser"
    /\ UserGranted(w)
    /\ Ordered(target[w])
    /\ Finish(w)
    /\ UNCHANGED rows

\* confirmPayment's ownership check loads the order before locking it.
ReadOrder(w) ==
    /\ pc[w] = "readOrder"
    /\ kind[w] = "pay"
    /\ seenOrder' = [seenOrder EXCEPT ![w] = order[target[w]]]
    /\ pc' = [pc EXCEPT ![w] = "lockOrder"]
    /\ UNCHANGED <<rows, locks, request, seenProduct, taken>>

\* updateOrderStatus: read without a lock, validate, set the new status.
SetStatus(w) ==
    /\ pc[w] = "readOrder"
    /\ kind[w] = "admin"
    /\ \E status \in AdminTargets(order[target[w]].status) :
          seenOrder' = [seenOrder EXCEPT ![w] = [order[target[w]] EXCEPT !.status = status]]
    /\ pc' = [pc EXCEPT ![w] = "writeOrder"]
    /\ UNCHANGED <<rows, locks, request, seenProduct, taken>>

RefuseStatus(w) ==
    /\ pc[w] = "readOrder"
    /\ kind[w] = "admin"
    /\ Finish(w)
    /\ UNCHANGED rows

\* The flush at the end of updateOrderStatus needs the row lock, and writes
\* every column as it was read.
WriteOrder(w) ==
    /\ pc[w] = "writeOrder"
    /\ orderLock[target[w]] = NoWorker
    /\ order' = [order EXCEPT ![target[w]] = seenOrder[w]]
    /\ Finish(w)
    /\ UNCHANGED <<product, lines>>

\* findByIdForUpdate (or the UPDATE of cancelIfPending), then the check.
LockOrder(w) ==
    /\ pc[w] = "lockOrder"
    /\ orderLock[target[w]] = NoWorker
    /\ Accepts(kind[w], OrderUnderLock(w))
    /\ orderLock' = [orderLock EXCEPT ![target[w]] = w]
    /\ seenOrder' = [seenOrder EXCEPT ![w] = OrderUnderLock(w)]
    /\ pc' = [pc EXCEPT ![w] = IF kind[w] \in Releasing THEN "loadItems" ELSE "commit"]
    /\ UNCHANGED <<rows, userLock, productLock, request, seenProduct, taken>>

\* Mutant of RefuseOrder: waits for the status it needs.
AwaitOrder(w) ==
    /\ pc[w] = "lockOrder"
    /\ orderLock[target[w]] = NoWorker
    /\ ~Accepts(kind[w], OrderUnderLock(w))
    /\ UNCHANGED vars

RefuseOrder(w) ==
    /\ pc[w] = "lockOrder"
    /\ orderLock[target[w]] = NoWorker
    /\ ~Accepts(kind[w], OrderUnderLock(w))
    /\ Finish(w)
    /\ UNCHANGED rows

\* findByOrderId loads the items, and with them (@ManyToOne is eager) the
\* product entities, from a read view: no lock is taken.
LoadItems(w) ==
    /\ pc[w] = "loadItems"
    /\ seenProduct' = [seenProduct EXCEPT ![w] =
          [p \in Products |-> IF p \in Items(target[w]) THEN product[p] ELSE NotLoaded]]
    /\ pc' = [pc EXCEPT ![w] = "lockProducts"]
    /\ UNCHANGED <<rows, locks, request, seenOrder, taken>>

\* Mutant of InStock: trusts the stock the client saw.
OnSaleOnly(w, p) == ProductUnderLock(w, p).onSale

InStock(w, p) ==
    /\ ProductUnderLock(w, p).onSale
    /\ ProductUnderLock(w, p).stock >= Qty[target[w]][p]

\* Mutant of Granted: findById, which waits for nobody.
Unlocked(p) == TRUE

\* FOR UPDATE waits until no other transaction has the row.
Granted(p) == productLock[p] = NoWorker

\* getProductEntityForUpdate for the next product, and the new stock set on
\* the entity: taken by createOrder, given back by releaseStock.
LockProduct(w, p) ==
    /\ pc[w] = "lockProducts"
    /\ NextProduct(w, p)
    /\ Granted(p)
    /\ kind[w] = "create" => InStock(w, p)
    /\ LET change == IF kind[w] = "create" THEN -Qty[target[w]][p] ELSE Qty[target[w]][p]
       IN  seenProduct' = [seenProduct EXCEPT ![w][p] =
              [ProductUnderLock(w, p) EXCEPT !.stock = @ + change]]
    /\ productLock' = [productLock EXCEPT ![p] = w]
    /\ taken' = [taken EXCEPT ![w] =
          @ \cup {<<q, p>> : q \in {r \in Products : productLock[r] = w}}]
    /\ pc' = [pc EXCEPT ![w] = IF Remaining(w) = {p} THEN "commit" ELSE "lockProducts"]
    /\ UNCHANGED <<rows, userLock, orderLock, request, seenOrder>>

\* Off sale or out of stock: the exception rolls back every earlier item.
RefuseProduct(w, p) ==
    /\ pc[w] = "lockProducts"
    /\ NextProduct(w, p)
    /\ Granted(p)
    /\ kind[w] = "create"
    /\ ~InStock(w, p)
    /\ Finish(w)
    /\ UNCHANGED rows

(* Flush and commit: the order row, its items and every locked product row  *)
(* are written.  The INSERT of a new order takes a shared lock on its       *)
(* user's row (fk_orders_user), so it waits for any other transaction that  *)
(* has locked the row; nothing after it waits, and the shared lock goes     *)
(* with the step.                                                           *)
Commit(w) ==
    /\ pc[w] = "commit"
    /\ kind[w] = "create" => userLock[Owner[target[w]]] \in {NoWorker, w}
    /\ order' = [order EXCEPT ![target[w]] = Written(kind[w], seenOrder[w])]
    /\ product' = [p \in Products |->
          IF productLock[p] = w THEN seenProduct[w][p] ELSE product[p]]
    /\ lines' = IF kind[w] = "create" THEN [lines EXCEPT ![target[w]] = taken[w]] ELSE lines
    /\ Finish(w)

-----------------------------------------------------------------------------
(* Administration of products *)

\* What an administrator makes of a product: updateProduct sets the stock of
\* the request, deleteProduct takes the product off sale and keeps the stock.
Edited(row) ==
    [stock : Restocks, onSale : BOOLEAN] \cup {[stock |-> row.stock, onSale |-> FALSE]}

\* updateProduct and deleteProduct read without a lock ...
ReadProduct(w) ==
    /\ pc[w] = "readProduct"
    /\ \E row \in Edited(product[target[w]]) :
          seenProduct' = [seenProduct EXCEPT ![w][target[w]] = row]
    /\ pc' = [pc EXCEPT ![w] = "writeProduct"]
    /\ UNCHANGED <<rows, locks, request, seenOrder, taken>>

\* ... and write the whole row, stock included, once its lock is free.
WriteProduct(w) ==
    /\ pc[w] = "writeProduct"
    /\ productLock[target[w]] = NoWorker
    /\ product' = [product EXCEPT ![target[w]] = seenProduct[w][target[w]]]
    /\ Finish(w)
    /\ UNCHANGED <<order, lines>>

\* A transaction may fail at any statement: chosen as deadlock victim, lock
\* wait timeout (answered 409), connection or instance lost.
Rollback(w) ==
    /\ pc[w] # "idle"
    /\ Finish(w)
    /\ UNCHANGED rows

-----------------------------------------------------------------------------
\* The statements of w's transaction.
Progress(w) ==
    \/ LockUser(w) \/ AnswerRepeat(w)
    \/ ReadOrder(w) \/ SetStatus(w) \/ RefuseStatus(w) \/ WriteOrder(w)
    \/ LockOrder(w) \/ RefuseOrder(w) \/ LoadItems(w)
    \/ \E p \in Products : LockProduct(w, p) \/ RefuseProduct(w, p)
    \/ Commit(w)
    \/ ReadProduct(w) \/ WriteProduct(w)

Next ==
    \E w \in Workers :
        \/ \E k \in OrderKinds, o \in Orders : Begin(w, k, o)
        \/ \E p \in Products : BeginEdit(w, p)
        \/ Progress(w)
        \/ Rollback(w)

Spec == Init /\ [][Next]_vars

\* w's next statement waits for a row lock that v holds.
WaitsFor(w, v) ==
    \/ pc[w] = "lockUser" /\ userLock[Owner[target[w]]] = v
    \/ pc[w] \in {"lockOrder", "writeOrder"} /\ orderLock[target[w]] = v
    \/ pc[w] = "lockProducts" /\ \E p \in Products : NextProduct(w, p) /\ productLock[p] = v
    \/ pc[w] = "commit" /\ kind[w] = "create" /\ v # w /\ userLock[Owner[target[w]]] = v
    \/ pc[w] = "writeProduct" /\ productLock[target[w]] = v

\* Transactions that wait for one another in a circle.
Deadlock(S) ==
    /\ S # {}
    /\ \A w \in S : \E v \in S : WaitsFor(w, v)
    /\ \A w \in S : \E v \in S : WaitsFor(v, w)

\* InnoDB rolls one of them back.
BreakDeadlock == \E S \in SUBSET Workers : Deadlock(S) /\ \E w \in S : Rollback(w)

\* A connection keeps executing, and InnoDB grants a row lock to its waiters
\* in the order they came: a worker that is again and again able to go on does.
\* Deadlock detection is on, as it is by default, and acts at once.
FairSpec == Spec /\ (\A w \in Workers : SF_vars(Progress(w))) /\ WF_vars(BreakDeadlock)

-----------------------------------------------------------------------------
(* Properties *)

\* Orders that take stock: all but the cancelled ones.
Holding == {o \in Orders : order[o].status \notin {"none", "cancelled"}}
\* The pieces of p they take, each with its order.
Pieces(p) == UNION {{o} \X (1..Qty[o][p]) : o \in Holding}
Held(p) == Cardinality(Pieces(p))

\* Stock is neither lost nor made: what the rows say is left, with what the
\* live orders hold, is what there was (createOrder's decrement against the
\* increments of releaseStock and completeRefund).
StockConserved == \A p \in Products : product[p].stock + Held(p) = InitialStock[p]

\* The step that makes stock move is the one that creates or cancels an order,
\* and it moves exactly what that order asks for (createOrder, cancelOrder,
\* cancelExpiredOrder, completeRefund as single transactions).
StockMoves(o, sign) ==
    /\ \A p \in Products : product'[p].stock = product[p].stock + sign * Qty[o][p]
    /\ \A other \in Orders \ {o} : order'[other] = order[other]

StockFollowsOrders ==
    [][\/ /\ \A p \in Products : product'[p].stock = product[p].stock
          /\ \A o \in Orders : o \in Holding <=> o \in Holding'
       \/ \E o \in Orders :
             \/ o \notin Holding /\ o \in Holding' /\ StockMoves(o, -1)
             \/ o \in Holding /\ o \notin Holding' /\ StockMoves(o, 1)]_vars

\* The live orders never hold more than there was to sell (the stock check of
\* createOrder, made under the product's row lock).
NoOversell == \A p \in Products : Held(p) <= InitialStock[p]

\* No row ever shows less than nothing: createOrder compares before it takes,
\* and whatever stale copy a release or an edit writes back was once a stock.
StockNotNegative == \A p \in Products : product[p].stock >= 0

\* A new order takes from stock what it asks for, no matter which stale copies
\* other requests write (createOrder reads a product only under its lock).
CreationTakesStock ==
    [][\A o \in Orders :
          order[o].status = "none" /\ order'[o].status # "none" => StockMoves(o, -1)]_vars

\* Locking products in ascending order after the order row leaves one deadlock
\* for InnoDB to break: in every circle of these requests there is a creation
\* with a key, which holds its user's row and wants products, and one of the
\* same user without a key, which holds products and wants the user's row for
\* its INSERT (createOrder locks the row first only if there is a key).
OnlyIntentsDeadlock ==
    \A S \in (SUBSET Workers) \ {{}} :
        (\A w \in S : \E v \in S : WaitsFor(w, v)) =>
            \E w, v \in S :
                /\ kind[w] = "create" /\ Intent[target[w]] = NoIntent
                /\ kind[v] = "create" /\ Intent[target[v]] # NoIntent
                /\ Owner[target[w]] = Owner[target[v]]
                /\ pc[w] = "commit" /\ pc[v] = "lockProducts"

\* A purchase intent is ordered once, and its repetitions are answered with that
\* order: a creation that has looked for it, and goes on, is the only one that
\* can still make it, and does not run into the unique index on the key (the
\* user's row lock that createOrder takes before it looks).
IntentsOrderedOnce ==
    \A o \in Orders :
        Intent[o] # NoIntent =>
            /\ \A e \in Orders \ {o} :
                  order[o].status # "none" /\ SameIntent(o, e) => order[e].status = "none"
            /\ \A w \in Workers :
                  kind[w] = "create" /\ target[w] = o /\ pc[w] # "lockUser" => ~Ordered(o)

\* No request brings a cancelled order back to life: every transition out of
\* "pending" is decided on the locked row.
CancelledIsFinal ==
    [][\A o \in Orders : order[o].status = "cancelled" => order'[o].status = "cancelled"]_vars

\* As deployed, two requests may: a payment that read the order while it was
\* pending, and an administrator's write of a copy read while it was not
\* cancelled; never a cancellation, an expiry or a refund (findByIdForUpdate
\* after getOwnedOrder; updateOrderStatus, which takes no lock to decide).
RevivedByStaleCopies ==
    [][\A o \in Orders :
          order[o].status = "cancelled" /\ order'[o].status # "cancelled" =>
              \E w \in Workers :
                  /\ target[w] = o
                  /\ \/ /\ kind[w] = "pay" /\ pc[w] = "commit"
                        /\ ~LockRefreshes /\ seenOrder[w].status = "pending"
                        /\ order'[o].status = "paid"
                     \/ kind[w] = "admin" /\ pc[w] = "writeOrder"]_vars

\* Under the lock of its row, stock goes up only in the step that cancels a
\* pending order or completes a refund, so of two cancellations (by the user and
\* by the scheduler) or of two completions only one restores it.
RestoreOnlyWithCancel ==
    [][(\E p \in Products : product'[p].stock > product[p].stock /\ productLock[p] # NoWorker)
          => \E o \in Orders :
                \/ order[o].status = "pending" /\ order'[o].status = "cancelled"
                \/ order[o].pay = "refunding" /\ order'[o].pay = "refunded"]_vars

\* The two status columns agree: money taken only for an order that is not
\* cancelled, refunded only when it is (confirmPayment, completeRefund).
PaymentMatchesStatus ==
    \A o \in Orders :
        /\ order[o].pay \in {"paid", "refunding"} <=> order[o].status = "paid"
        /\ order[o].pay = "refunded" => order[o].status = "cancelled"

Atomic == INSTANCE AtomicOrders WITH
    LatePayments <- ~LockRefreshes,
    StaleReleases <- ~LockRefreshes,
    status <- [o \in Orders |-> order[o].status],
    pay <- [o \in Orders |-> order[o].pay],
    stock <- [p \in Products |-> product[p].stock]

\* However the statements of concurrent requests interleave, the rows change
\* as if each request that succeeds were a single step and the others nothing;
\* without the refresh a step may be that of a payment whose decision is out of
\* date, or of a release that puts back what it read too early.
RequestsAreAtomic == Atomic!Spec

\* Every request ends, though only victims of a deadlock need be rolled back.
RequestsEnd == \A w \in Workers : pc[w] # "idle" ~> pc[w] = "idle"
=============================================================================
