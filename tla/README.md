# OrderMate in TLA+

A verification project for OrderMate, an online shop with a conversational assistant: a Java
(Spring, JPA, MySQL) backend that owns orders, stock and carts, a Python (FastAPI) agent service
that turns conversations into confirmed calls of that backend, and a Vue frontend. The modules are
translated from the source under `src/`; TLC checks small instances, and TLAPS proves the central
theorems for every value of the constants.

Paths are shortened: `J/` is `src/src/main/java/com/ecommerce/`, `A/` is
`src/agent-service/app/`, `F/` is `src/frontend/src/`.

## 1. Inventory

| Part | State it keeps | Operations | What makes it correct |
|---|---|---|---|
| Orders and stock (`J/service/impl/OrderServiceImpl`, `OrderPaymentServiceImpl`, `ProductServiceImpl`) | rows of `orders`, `order_items`, `products` | place, cancel, expire, pay, refund, administrator's status change, product edit | stock neither lost nor sold twice; a cancelled order stays so; payment and status agree; what deadlocks, and that only it does |
| Order timeout scheduler (`J/scheduler/OrderTimeoutScheduler`) | local: cutoff, batch | a round each minute, on every instance | every expired unpaid order is cancelled, once; paid ones are kept |
| Purchase intents (`createOrder` with an idempotency key) | unique index user + key, request hash | place again with the same key | one order per intent, conflict on other content |
| Shopping cart (`ShoppingCartServiceImpl`) | rows of `shopping_cart` | add, update one, update many, remove, clear | no lost addition; many are changed all or none |
| Reviews, addresses, categories | rows | edits, likes, default address | one like per user, one default address |
| Users, JWT, rate limits | users, in-memory counters | register, log in, filter | limits hold |
| Operation journal (`A/operation_store.py`, `A/main.py`, `A/tools/registry.py`, `A/cart_operations.py`) | one record per confirmation token, in SQLite or Redis | offer, confirm, give up, execute, verify, recover, clear, maintain | a write is sent once; journal and answers are true |
| Session requests (`A/reliability.py`, `A/main.py`) | session lock (memory or Redis), demo quota, request budget | hold, release, count, settle, time out, drop a stream | requests of a session exclude one another; every way out returns what it took |
| Circuit breaker (`A/circuit_breaker.py`) | state, failures, half-open slots | call | opens at its threshold; half-open decides |
| Conversation memory (`A/conversation_memory.py`, `A/redis_stores.py`) | bounded message lists, summaries | append a turn, note a verified operation, compress, clear, expire | verified operations survive cutting and compression; what was cleared stays gone |
| Turns: agent, demo agent, tools, conversation state (`A/agent.py`, `A/demo_agent.py`, `A/tools/`, `A/conversation_state.py`) | references to products, cart lines and orders; pending confirmation; open question | chat, model rounds, guarded tool calls, direct paths, text confirmation, giving up | only writes that were asked for, on the object meant; nothing after an unclear write; a typed confirmation is not older than what was shown |
| Knowledge base, embeddings, MySQL client | read-only data; the client writes without the backend | search | out of scope (text ranking, an alternative client) |
| Frontend (`F/stores/chat.ts`, `F/composables/useChatStream.ts`) | messages, active run, cards | send, cancel, retry, confirm | late events never touch another run |

How they interact. The frontend streams a chat or posts a confirmation to the agent service. The
service counts the chat against a demo's quota, takes the session lock, works on history and
conversation state, lets the language model (behind the breaker) or the demo agent's word lists
choose tools, moves the journal record of a write that needs a confirmation, and calls the backend with
HTTP, without repeating writes. The backend runs each request in one MySQL transaction. The scheduler
of each backend instance competes with these requests for the order rows. A request may be cancelled
at any `await` by its 60 s budget or by a client that leaves.

The hard behaviours: row locks against copies kept in Hibernate's persistence context; several
backend instances and agent processes; writes whose receipt is lost; requests that are cancelled
at an `await`; locks and slots whose release is lost, late or outlived; compressions that work on a
copy; a language model that may call anything; restarts between two journal writes; batches that meet
failing orders. Every one is listed with its line under `hazards` in `PROJECT.json`.

## 2. Plan

The modules, in the order of the plan; all of them exist.

1. `AtomicOrders` (abstract) and `OrderStock` (+ proofs): transactions, row locks and persistence contexts
   implement requests that are one step each.
2. `ConfirmedWrite` (abstract) and `OperationJournal` (+ proofs): the journal implements the promise.
3. `CircuitBreaker` (+ proofs).
4. `TimeoutScheduler` (+ proofs): the loop around `OrderStock`'s "expire" request,
   another implementation of `AtomicOrders`.
5. `ChatTurn` (+ proofs): what a turn may do with tools, references and confirmations.
6. `ConversationMemory` (operators) and `ChatGate` (+ proofs): the way of requests through quota, lock
   and history; it composes the lease with the memory.

What one module takes from another: `OperationJournal` assumes with `Exclusive` what `ChatGate` shows of
the session lock (`OneAtATime`, up to outlived leases); `ChatTurn` has turns one after the other for the
same reason; `ChatTurn` ends where a confirmation is consumed (`Take`, `Press`), which is where
`OperationJournal` begins; `TimeoutScheduler` has the user requests and the cancellation of an order
as atomic steps and a payment as two (it decides on the order it read before the lock): they are those of
`AtomicOrders`, which `OrderStock`'s statements implement.

## 3. Modules and the code they stand for

### AtomicOrders and OrderStock
`AtomicOrders` is what the shop promises: create, cancel, pay, refund, complete, an administrator's
change of an order (`SetStatus`) and of a product (`Restock`) are single steps on `status`, `pay` and
`stock`, each with the condition the services state (an order is cancelled while
pending, created if all its products are there). `Kinds` are the requests served. Two constants say
how far a step may rest on what its request read before it had the lock: with `LatePayments` a payment
may find any order that was pending once, with `StaleReleases` a release may put back what it asked for on
top of a stock that is out of date. `OrderStock!Atomic` and `TimeoutScheduler!Atomic` are its instances
with the refinement mappings. `OrderStock` has both exactly when locks do not refresh, which is the
deployed case; the scheduler has late payments and, as each of its orders asks for one piece of a product of
its own (whose stock is `released` once the order is placed), no stale releases.

A *worker* is a database connection serving one request; `pc` is its next SQL statement. `order`
and `product` are the committed rows, `userLock`, `orderLock` and `productLock` the InnoDB row locks, held to
the end of the transaction (`Finish`). `seenOrder` and `seenProduct` are the entities of the persistence
context: the code computes on them, and they are written, whole rows, at `Commit`, `WriteOrder` or
`WriteProduct` (no entity has `@Version` or `@DynamicUpdate`). `taken` is the order in which a creation
built its items, and `lines` the order in which an order's items were saved.

| Request | Code | Steps |
|---|---|---|
| create | `OrderServiceImpl.createOrder` | with an intent key LockUser, or AnswerRepeat if it was ordered; LockProduct (ascending ids) ..., Commit, or RefuseProduct |
| cancel | `cancelOrder`, `releaseStock` | LockOrder, LoadItems, LockProduct ..., Commit |
| expire | `cancelExpiredOrder`, `cancelIfPending` | the same, deciding on the row itself |
| pay | `OrderServiceImpl.confirmPayment`, `OrderPaymentServiceImpl.confirmPayment` | ReadOrder (ownership), LockOrder, Commit |
| refund, complete | `initiateRefund`, `completeRefund` | LockOrder, (LoadItems, LockProduct in the order the items were saved ...,) Commit |
| admin | `updateOrderStatus` | SetStatus from an unlocked read, WriteOrder |
| edit | `updateProduct`, `deleteProduct` | ReadProduct without a lock, the stock of the request (`Restocks`) or that of the copy, WriteProduct |

`Rollback` may strike before any statement: lock wait timeout, deadlock victim, lost connection.
The constant `LockRefreshes` names the one thing not under `src/`: whether a locking JPQL query
(`findByIdForUpdate`) refreshes an entity that the persistence context already holds. Hibernate does
not for entities without a version, so FALSE is the deployed behaviour; TRUE is the reading the
code's comments suppose. Runs and theorems say which they use.

The user's row. With an intent key `createOrder` locks it before its products (`OrderServiceImpl:52`), looks for an order
with that key, and answers with it or refuses; without one it takes no such lock, but its
INSERT needs a shared lock on the row for the foreign key `fk_orders_user`
(`V1__baseline_business_schema.sql:67`; Hibernate only validates the schema, so this is what is deployed). That
is the last lock a creation asks for, so `Commit` waits while another transaction has the row, and the shared lock begins and ends
in that step. `WaitsFor` and `Deadlock` say who waits for whom, and `BreakDeadlock` is InnoDB rolling one of a
circle back; `Rollback` by itself stands for every other reason.

Left out: prices and addresses; `soldCount`, which moves with `stock`; creation of products; the cart rows
that `createOrder` removes. Of the foreign keys only `fk_orders_user` is there: the parents of order items are
rows the same transaction has locked or inserted. Requests that insert cart rows or reviews take shared locks on users and products
for theirs; they are no part of the model, and what is said of deadlocks is said of orders, payments and products only.

### ConfirmedWrite and OperationJournal
`ConfirmedWrite` is what the service promises of one write: offered, taken by one confirmation,
committed to, sent at most once, and concluded only with a true verdict. `OperationJournal` is the
code: `journal` holds the record statuses of `operation_store.py` (`transition` is a compare and set),
`pc`/`token`/`via`/`approved`/`snapshot` a request in flight (button `confirm`, text confirmation of
`AgentService.chat`, `operation_status`), `request` and `held` the backend, `told` the last answer
about a token. Every `await` that others can overtake separates two actions:
Lookup, Consume, Accept, Reject/Block/Approve, Execute, SendWrite, the outcomes
(Succeeded, Refused, Unclear), Verified/Unverified/StillThere, Record, Remember, and Respond/Find/Recover for
a repeated or interrupted confirmation. Around them: Issue, Expire, ClearConversation, Cleanup (hourly
maintenance), Interrupt (request budget, client gone: nothing is told), Caught (the same cut, but `chat` catches the
exception, drops the pending confirmation and answers with its words, `agent.py:1048`), Restart (any handlers die; the read-only switch
may turn), Arrive (the backend applies, refuses or loses the request, perhaps later) and
ReachedByOthers (another client of the account).

A cart receipt is not believed: the cart is read back after it ("readback"), and a removal that was acknowledged while
the item is still there (`request` "ignored") is settled as failed (`StillThere`, `cart_operations.py:31-36`). The other classes
believe their receipts.

`class` is the kind of write a token stands for, as `_perform_confirmed_action` distinguishes them:
"create" is found again by its intent key; "order" (pay, cancel) is judged by the order's state, which
another client may have brought about; "cart" by reading the cart back; "blind" (clear cart, refund)
only by its receipt. `Exclusive` says that requests of a session exclude one another across
processes: one process, or the Redis lease (its life, max(90, budget + 30) s, exceeds the 60 s
budget). FALSE is several processes without Redis.

### CircuitBreaker
`AsyncCircuitBreaker` with its `asyncio.Lock`: admission, half-open slots, the outcome counted in the
state it finds, the alert sent while the lock is held, and `Cancel`, the `CancelledError` that
`except Exception` does not catch. `failures` is counted up to the threshold, where it stops
mattering. `probing` and `lost` are no variables of the code: they say whose the slots of the present
half-open state are, running probes' or cancelled ones'.

### TimeoutScheduler
One scheduler per instance: StartRound fixes `now`, Select takes the first `BatchSize` pending expired
unlocked orders, then Take (cancelIfPending), Release (commit) or Skip for each, and the loop
ends when a batch was not full (`Continue`). The selection runs in no transaction, so it leaves no lock;
`lock` is held only from Take to Release. Users place, pay and cancel at any time. A payment is two steps, ReadToPay and Pay,
because `confirmPayment` decides on the copy it read before the lock: `paying` are the orders a payment has found
pending, and it may pay them when they are no longer. FailOnce and
Abort are transient faults (lock wait timeout, failed selection, restart), at most `MaxFaults` of them;
`Broken` orders are those whose `releaseStock` throws as long as its cause lasts. Other user requests are
atomic here: their inner steps are `OrderStock`'s.

### ChatTurn
The turns of one conversation. `saved` and `pending` are the stored conversation state and its pending
confirmation, `view` and `holding` what the turn works on; `aliased` is the local store, which hands
out the object itself, so that an aborted turn leaves its changes behind (`Leave`). `ops` is what became of
each confirmation, `cards` those that were displayed. A message is what the code's word lists
make of it: whose words it contains (`ask`), how it names its object (`by` an id, a name, or "it"), and whether it
asks, denies or consults. `said` is the message as the user wrote it, which the tools look at; `msg` is what the turn works on, which
an open question may have replaced. `mode` chooses between `AgentService` and `DemoAgentService`.

| Action | Code |
|---|---|
| Say, Save, Leave, Abort | `chat`'s frame, `get_or_create`, `save`, the budget |
| Refuse, Complete, AskQuantity, WhichProduct | refund and denial replies, `complete_cart_clarification`, `cart_clarification_reply` |
| Abandon, Take, Executed, NothingPending | typed confirmation and giving up |
| DirectCancel ... DirectUpdate, FetchCart, FetchedCall, NoLine, BadQuantity | the direct paths before the model |
| ToModel, CallTool, CallRefused, Answered | the model loop with `_guard_tool_call` and `_infer_from_state`; where a round ends makes no difference |
| DemoCall, DemoSearch, DemoFound, DemoAnswer, DemoFollowUp | the demo agent's routes |
| Deliver, Lose, Press, Expire, Forget, ClearConversation | display, button, and what happens between turns |

`Resolve*` say what a message means in a state, `After` what a successful call leaves in it, `Execute` how
a call may end: `Succeeds`, `Fails`, `Offers` a confirmation, or is `Unclear`. The language model is
any choice of tools and arguments in any number of rounds: nothing is assumed of it. Results of the
backend (which products are found, what is in the cart) are any subset of `Things`.

Names. `match_named_entity` takes the candidate of that name and, failing it, the only one that shares a word
with the message (`conversation_state.py:302-304`). So does `Named`: `Alike` says which names share
words, and in the run all do, so that a product that is not known resolves to the one that is. `WritesAsked` says
accordingly what "the object that is named" means: the thing of that name, and another only while that one is
unknown.

Open questions. `complete_cart_clarification` takes any message with a quantity and a clear cart line for
the answer, without a look at denials (`Complete`, `MayAnswer`, `AnswerLine`); what then becomes of a denial is
the run `denied_update`.

Abstractions: a message has the words of one tool; of denials and questions only those about a cart line
name their object, others say "it"; no name contains another; one conversation has one subject (`about`), which is where one tool's call changes what another's
reference means; the mode does not change during a conversation, and the copy of an anonymous
visitor's product context at login is left out. Quantities, wording and the cart's real content are left out, and with
them the words the model ends a turn with: which questions the code insists on looking up
(`_required_business_tools`, `agent.py:434-459`) is a matter of regular expressions.

### ConversationMemory and ChatGate
`ConversationMemory` has the operations of both stores on a sequence of messages: `Cut` (a summary
in front stays), `WithTurn` (`append_turn`), `WithNote` (`record_operations`; only the Redis store cuts
here) and `Compressed` (`summarize_and_compress`). A message is what later decisions read: whether it is a summary,
and which verified operations it names.

`ChatGate` takes up to three requests of one session through the service: `Arrive` (the demo quota's slot),
`Lock`/`LockFails`, `ReadHistory`, `Compress`, `Note`, `Finish` or `Interrupt` (budget, failure, client gone),
`Unlock`/`UnlockFails`, `Settle` (the slot goes back). Around them: `CountedInVain` (Redis counted, its answer was lost),
`NeverOpened` (a stream whose generator never runs), `UnlockLate` (a release given up on arrives after all),
`LockExpires`, `SlotExpires`, `HistoryExpires`, `Die` (one process of several) and `Restart` (the only one).
`shared` says whether Redis is behind all three stores, `demo` whether there is a quota; both are
chosen at the start. `lapsed` remembers who outlived a lease.

Abstractions: each request is served once; it verifies at most two operations, which bear its name; the history
is followed for the operations of `Watched` and not in a demo, where quota and lock are what is looked at; without
a quota a stream goes the way of a chat.

`MemoryAssumption` is what the code enforces: at least two messages (`conversation_memory.py:64`), and a compressed history
below the threshold (6 + 1 < 10, constants of the code). That a turn below the threshold has room (`Roomy`, 10 + 2 <= 12) is
true of the default only, since `CONVERSATION_MAX_MESSAGES` may be set to anything (`config.py:104`): `NotesKept` names it as an
exception, the other properties do without it.

`MC*` modules give TLC finite sets; `*Proofs` modules hold theorems.

## 4. Runs

| Run | Question and bounds | Result |
|---|---|---|
| fresh_locks | `LockRefreshes` TRUE, fairness: 2 workers, 3 orders of one user that each want one of both products, two pieces of each; two of them are requests for one intent, the third has no key; all user requests and expiry, rollbacks | OnlyIntentsDeadlock, IntentsOrderedOnce, StockConserved, StockFollowsOrders, CancelledIsFinal, RequestsAreAtomic, RequestsEnd hold |
| admin_requests | `LockRefreshes` FALSE: 2 workers, 2 orders of one user, with and without a key, one product, one piece of it; create, cancel, expire, pay, administrator's writes, product edits that set the stock to 0 or 1 | TypeOK, StockNotNegative, RestoreOnlyWithCancel, CreationTakesStock, RevivedByStaleCopies, RequestsAreAtomic hold |
| pay_after_cancel | `LockRefreshes` FALSE, create/cancel/pay | CancelledIsFinal **violated** |
| lost_release | `LockRefreshes` FALSE, create/cancel | StockConserved **violated** |
| shared_writes | 1 write of any class, 2 processes without a common lock, restarts that turn the read-only switch | TypeOK, SentOnce, JournalTruthful, AnswersTruthful, VerdictIsFinal, ImplementsPromise hold |
| abandoned_answer | 1 order write, 1 handler | AbandonedIsUnsent **violated** |
| breaker_calls | 3 callers, threshold 2, 2 slots, cancellations, fairness | TypeOK, TripsAtThreshold, SlotsAccounted, HalfOpenDecides hold |
| lost_probe | the same with 1 slot | HalfOpenEnds **violated** |
| expired_orders | 2 instances, 3 orders, batches of 2, one broken, one fault, payments decided on older copies, fairness | TypeOK, ReleasedOnce, PaidIsKept, OnlyExpiredCancelled, RoundsAreAtomic, OthersNotAffected, RoundsEnd hold |
| chat_turns | 2 things whose names share a word, conversations about buying, adding, the cart or orders, both modes, both stores; 1 confirmation for buying, 2 for orders, none for adding and the cart; any number of model rounds and turns | TypeOK, WritesAsked, UnknownEndsTurn, TypedNewest hold |
| denied_update | the same | DenialsObeyed **violated** |
| chat_gate | 3 requests of any kind, a quota of 2, one or several processes, demo or not; 5 messages kept, compression from 3, the newest kept; the first request's operations watched | TypeOK, OneAtATime, NothingLeaks, NotesKept, SummariesKept, ClearedStaysCleared hold |

A run takes between a few seconds and three minutes; the largest (shared_writes) has 671,254 states.

Why the bounds are enough. The deadlock of creations needs two workers, two requests of one user with and without a key,
and a product; that there is no other needs two products that orders could take in opposite order. Three rival orders for two
pieces make the last one fail and a release matter to another, and a repeated intent meets the order before and after it is
made. Races on one order need two contenders, as does a copy that is out of date. What
administrators do concerns one order or one product; the second order is there to notice it. A token meets itself only through
handlers, so two handlers suffice for one token, and tokens share nothing but the session lock. Three callers exceed both
threshold and slots. Three orders exceed a batch of two,
so a full batch, a short one and a second selection occur. Two things are enough for "which one", and for a name that
is taken for another; a typed
confirmation of the wrong operation needs two operations, and only orders have two kinds of them
at a time. Three requests are a holder, one that outlived its lease, and one more to be let in beside
them; they exceed the quota; and with five messages, two for a turn and two for its notes, each of
three requests can reach the cut and the compression. The watched request's notes are what the other two push out.
The proofs lift the safety properties to any sizes. Symmetry is used only in runs without liveness, among
workers, handlers and things, and in chat_gate among the requests that are not watched.

The breaker runs and chat_gate set `CHECK_DEADLOCK FALSE`: with every slot lost and no caller active the
breaker really stops, and once its three requests are served the gate has nothing left to do.

### Divergences found
- **pay_after_cancel** (`J/service/impl/OrderServiceImpl.java:272`): `confirmPayment` loads the order for its
  ownership check, then locks it, and gets the loaded copy back; an order cancelled in between is paid.
- **lost_release** (`OrderServiceImpl.java:325`): `findByOrderId` loads the products before they are
  locked; two releases that share a product lose an increment.
- **abandoned_answer** (`A/agent.py:1015`): giving up an operation that was already sent is answered
  "本次未支付，订单保持不变。".
- **lost_probe** (`A/circuit_breaker.py:75`): a cancelled probe never returns its half-open slot.
- **denied_update** (`A/business_fields.py:40`): while the service waits for a cart quantity, "不要把框架指南数量改成3件" is taken for
  the answer and carried out, although denials authorise no write (`A/prompts.py:34`) and the guard answers them without one (`A/agent.py:231`).

Seen while modelling, without a run of their own:

- `updateProduct` writes the stock of the request over what orders took since the administrator saw it (`ProductServiceImpl.java:63`), `deleteProduct` the stock
  it read without a lock, and an administrator's cancellation releases no stock (`OrderServiceImpl.java:224`). All are in
  `OrderStock` (requests "edit" and "admin"), and are why the stock theorems exclude those requests.
- Two purchases of one user, one with a key and one without, that share a product can deadlock (`OrderServiceImpl.java:52` against
  the INSERT at 129 and `fk_orders_user`); InnoDB rolls one of them back. `OnlyIntentsDeadlock` says that no other requests on orders and products do.
- A full batch of failing orders is selected again for ever in one round
  (`OrderTimeoutScheduler.java:74`, against the comment on line 21): `OthersNotAffected` and
  `RoundsEnd` hold with fewer broken orders than a batch has places, which is what the run has.
- Confirmations live 180 s where `docs/agent-rules.md:75` says 5 minutes; `docs/agent-rules.md:80` speaks of three
  retries where writes are never repeated.
- A confirmation prepared in a turn that ends early (unknown result, abort, lost reply) is remembered
  but never displayed, and a typed "confirm" executes it: hence `TypedNewest` says "not older than
  what was displayed" and not "displayed".
- A stream that is dropped before its generator runs never returns its slot of the demo quota, in one
  process not until a restart: `NothingLeaks` counts these slots as taken.
- With `CONVERSATION_MAX_MESSAGES` below 12 the history can be cut before it is compressed, and notes of verified operations go
  without having reached a summary (`A/config.py:104`).
- A turn with two verified operations, or several confirmations by button on Redis, can push an older note out of the
  history (`NotesKept` excepts exactly these).
- The model may call `add_to_cart` twice in a turn; a relative quantity is computed from a cart read
  earlier; two additions of a product read the cart row without a lock; the demo agent's search keeps the
  product names of the search before.

## 5. Fairness

- `OrderStock!FairSpec`: strong fairness of each worker's `Progress`, weak fairness of `BreakDeadlock`. A connection keeps executing,
  InnoDB grants a row lock to waiters in the order they came, and its deadlock detection, on by default, rolls back one of a
  circle. No other rollback is fair, and neither are new requests: `RequestsEnd` shows that nothing but a deadlock needs a victim.
- `CircuitBreaker!FairSpec`: strong fairness of each running call (asyncio runs ready tasks; the lock
  wakes waiters in order; model call and webhook have timeouts) and weak fairness of time. Callers
  need not come, and any may be cancelled: `HalfOpenDecides` therefore excepts half-open states that lost a probe. With one slot, the violation of `lost_probe` does not depend on that: nobody who
  comes is let through.
- `TimeoutScheduler!FairSpec`: strong fairness of each scheduler (`@Scheduled` starts the next round;
  lock queue). Transient faults are finitely many, users and the clock are not fair.
- `OperationJournal`, `ChatTurn` and `ChatGate` have safety properties only: the code promises no end to an
  operation, a user need not go on, and what ends a request that hangs is its lease or budget, which are
  steps of the model that may come at any time.

## 6. Proofs

`TLAPS` checks every step; there is no assumption but the named ones on constants. The invariants and action
properties of the passing runs are proved, under the hypotheses given here, and so are the three refinements.

**OrderStockProofs.** The invariants need no hypothesis; what differs in the theorems on stock is which
requests may run beside each other and whether locked entities are refreshed.

- `LockInv` = types and, for every worker, which locks it holds at which step: user rows only with a creation that has a key,
  order rows with the requests that use them, products only from "lockProducts" on.
- `ItemInv` adds in which order products are taken: a worker's locked products lie below all it still wants
  (`Itemised`), and the items of every order were saved in ascending order (`Saved`), for `completeRefund` follows that
  order and would otherwise know none. From it `OneDeadlock`: in a set of workers that wait for one another there is a creation
  without a key that waits for its user's row, and the holder of that row is one with a key; without it, the holder of the
  greatest product in question (`ProductOrderAssumption`) would wait for a greater one, or for nobody.
- `IntentInv`: of two creations for one intent only one is past the user's row, and only as long as there is no order of it.
- `OrderInv` adds what each worker's copy of an order may differ in from the row (`Decided`): under the lock in nothing, but for a payment
  where locks do not refresh. `StockInv` says what the copies and
  the pending change of locked products are, `Sellable` that no row and no locked copy is below zero.
- `Held` counts pieces (pairs of an order and a number), so that the library's facts on cardinalities give
  the sum over live orders without an induction: an order more adds its pieces to a disjoint finite set
  (`MorePieces`).

| Theorem | Property | Holds for |
|---|---|---|
| OneDeadlock | OnlyIntentsDeadlock | any requests, refreshed or not |
| IntentsOnce | IntentsOrderedOnce | any requests, refreshed or not |
| RevivalsAreKnown | RevivedByStaleCopies | any requests, refreshed or not |
| CreationsTakeStock | CreationTakesStock | any requests, refreshed or not: `createOrder` sees a product first under its lock |
| NeverNegative | StockNotNegative | any requests, refreshed or not |
| PaymentAgrees | PaymentMatchesStatus (in no run) | all but the administrator's, refreshed or not: even a payment of a cancelled order writes both columns |
| RestoresOnce | RestoreOnlyWithCancel | any requests, refreshed or not |
| StockMovesWithOrders, StockIsConserved, NothingOversold | StockFollowsOrders, StockConserved, NoOversell | `FreshStock`: no administrator's writes, no edits; refreshed, or no releases (the deployed code while orders are placed, paid and refunds asked for: `NoneCancelled`) |
| TransactionsAreAtomic | RequestsAreAtomic | any requests, refreshed or not; without a refresh `AtomicOrders` has late payments and stale releases |

`CancelledIsFinal` as fresh_locks checks it is the case of `RevivalsAreKnown` where locks refresh and no administrator writes: then
neither of the two ways back is open. `NoOversell` follows from `StockConserved` and stock that is never negative, and has no run of its own.
What `FreshStock` excludes is what breaks those properties in the code: `lost_release`, and the administrator's writes and product
edits noted below it. `TransactionsAreAtomic`
maps `Commit`, `WriteOrder` and `WriteProduct` to the request's one step and every other statement, `Rollback` included, to a stutter;
it needs that the copies a release
works on, however old, leave at least what it puts back (`Returned`).

**OperationJournalProofs.** `IInv` = TypeOK, BackendInv (request and sends agree), HandlerInv (what each
step may rely on), OneExecutor (one handler between taking and recording a token) and
JournalTruthful; one lemma per action. SentOnce alone is not inductive: it needs that a handler about to
send is the only one and has sent nothing. From `IInv`: TypeOK, SentOnce, JournalTruthful,
VerdictIsFinal, and `JournalImplementsPromise`: every step of the journal is a step of
`ConfirmedWrite` or leaves its variables alone. **OperationAnswersProofs** adds to `IInv` what was told and what
is remembered: `AnswersAreTrue`, and `NotedOnce`, which needs that only the handler that recorded a success still
has its note to make, and that requests of a session exclude one another (`Exclusive`); it has no run, for in one handler at a time
there is little to interleave.

**CircuitBreakerProofs.** `BreakerInvariant` = types, the count of failures, `SlotsAccounted`, no probes outside
half-open, and `ProbersReport`: a probe is on its way to an outcome, which is why a new probe is a new caller
and a cancellation gives up exactly one. From it `BreakerTypes`, `Trips`, `SlotsHeld` (only a cancellation
takes a slot away, and no late outcome frees one while its probe runs) and, with the limit on slots, `ProbesBounded`,
for any callers, threshold and slots.

**TimeoutSchedulerProofs.** `RowInvariant` adds that a row locked by a scheduler is pending and that what a payment
has read exists; `ReleasesOnce` and `KeepsPaid` follow for any instances, batch size and faults. `SchedulerTypes` adds
that a batch is never larger than its limit. `RoundsAreLate` says that what a round selected, kept or
locked has expired, as time does not run back: hence `CancelsExpired`, although the update itself does not
look at `expire_at`. `SchedulersAreUsers` is the refinement of `AtomicOrders` with late payments: `Release` is a user's
`Cancel`, and everything else a round does is invisible.

**ChatTurnProofs.** `TurnInvariant` = TypeOK, `Journal` (confirmations are issued in order, those displayed, held or
pending were issued, and what is pending is not older than what is displayed), `Course` (what is known of
message and state at each step of the turn) and WritesAsked. `Answer` says what a message that replaced the user's may be:
the update of the line asked about or named. `Fits` says that a reference resolves to what the message may mean, by number, by name or by
another name while that one is unknown. The model's calls are covered by one lemma on `Execute` (`Called`),
the other actions by what they have in common (`Moved`, `Ended`, `JournalKept`, `JournalOffers`). `WritesAreAsked` needs
that what "it" means cannot have changed when an addition is called: a call that changed it belongs to a
message that is not an addition.

**ChatGateProofs.** `GateInvariant`: who works and keeps to its lease owns the lock; a release that may still
arrive is that of a request that has left; in one process slots and lock are exactly those of the requests
under way. `SessionsExclude` and `EverythingReturned` follow for any number of requests.
**ConversationMemoryProofs** first proves what `Cut`, `WithTurn`, `WithNote` and `Compressed` keep of any history
within `MemoryAssumption`, then adds `Turns`: where the limits leave room (`Roomy`) and while no lease was outlived, a turn that works has begun below the
threshold, so that its note and its two messages fit. From it `NotesAreKept`; `SummariesAreKept` and
`ClearedIsGone` hold for any limits and need no lease at all. `GateTypesHold` includes that the quota is never overdrawn.

Only model-checked: liveness under fairness (RequestsEnd, HalfOpenDecides, OthersNotAffected, RoundsEnd), which
is out of the prover's reach, and the violated properties.

## 7. Mutants

Each property of a passing run has a mutant: a definition in the model that changes a mapped one as a
plausible bug would (`CreateUnsorted` locks in request order, `UserUnlocked` looks for an intent without the user's lock, `StaleProduct` trusts the loaded copy,
`AcceptsUnpaid` pays whatever is not paid, `Unlocked` goes on without the row lock, `AwaitOrder` waits where the code refuses, `CountOnly` takes a failed probe for any failure,
`AnyPending` selects orders that have time left, `AcceptBlindly` takes a confirmation without compare and set, `Resend` repeats a write without a
receipt, `TakeSelected` cancels what the selection found, `GuardedByWords` does not compare a call's arguments with
the message, `RememberFirst` keeps the older confirmation, `ReleaseAny` deletes the lock without a look at
its owner, `ReplacedBlindly` writes a summary over a cleared history, `CutOldest` drops the summary first, ...).
Mutant definitions stand directly before what they change and are used nowhere else.

## 8. Not modelled

See `components` in `PROJECT.json`; the reasons in short:

- *Shopping cart, reviews, addresses, categories*: each operation reads a row and saves it, and no
  other part depends on the result but for the rows their foreign keys lock; what a lost addition needs is visible in three lines.
- *Users, JWT, rate limits*: authentication precedes every modelled request; the limits are counters that no other part
  reads.
- *Knowledge base and embeddings, prompts, wording*: text ranking and formatting over read-only data.
- *Direct MySQL client*: an alternative for local data without the backend; its rules repeat the backend's
  without a journal.
- *What the model says* when it calls no tool, and names of products that contain one another.
- *Frontend, legacy page*: how the service sees a client (dropped streams, buttons pressed twice or
  late, lost answers) is in `ChatGate`, `OperationJournal` and `ChatTurn`; what the page shows in between is left out,
  as is the order of a stream's events.
- *Conversation state of anonymous visitors, configuration, metrics, schema, scripts*: no state that another modelled part
  depends on.
