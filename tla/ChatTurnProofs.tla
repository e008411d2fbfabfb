--------------------------- MODULE ChatTurnProofs ---------------------------
(***************************************************************************)
(* Theorems about ChatTurn, for any products and orders, any number of     *)
(* confirmations, and any calls of the language model.                     *)
(***************************************************************************)
EXTENDS ChatTurn, FiniteSetTheorems, WellFoundedInduction, TLAPS

-----------------------------------------------------------------------------
(* What a message and a state can mean                                      *)

Ids == Things \cup {Nothing}
Moods == {"asks", "denies", "consults"}

LEMMA MessageShape ==
    ASSUME NEW m \in Message
    PROVE  /\ m.by \in {"none", "id", "name", "it"} /\ m.mood \in Moods /\ m.to \in Ids
           /\ m.by \in {"id", "name"} => m.to \in Things
           /\ m.ask \in Whole => m.by = "none"
BY TurnAssumption DEF Message, Moods, Ids, Lists, Talk, Whole, Objects, ProductTools,
   CartTools, OrderTools, Doubted

LEMMA TheOne ==
    ASSUME NEW S, Cardinality(S) = 1
    PROVE  (CHOOSE t \in S : TRUE) \in S
<1>1. S # {}
  BY FS_EmptySet
<1>2. QED
  BY <1>1

\* A name finds the thing it means or none.
LEMMA NamedThing ==
    ASSUME NEW S \in SUBSET Things, NEW name \in Things
    PROVE  /\ Named(name, S) \in Ids
           /\ Named(name, S) # Nothing => Means(name, Named(name, S), S)
<1> DEFINE hits == Similar(name, S)
<1>1. CASE name \in S
  BY <1>1 DEF Named, Ids, Means
<1>2. CASE name \notin S /\ Cardinality(hits) = 1
  <2>1. Named(name, S) = CHOOSE t \in hits : TRUE
    BY <1>2 DEF Named
  <2>2. Named(name, S) \in hits
    BY <1>2, <2>1, TheOne
  <2>3. QED
    BY <1>2, <2>2 DEF Similar, Ids, Means
<1>3. CASE name \notin S /\ Cardinality(hits) # 1
  BY <1>3 DEF Named, Ids
<1>4. QED
  BY <1>1, <1>2, <1>3

\* A name goes on meaning a thing as long as no other becomes known.
LEMMA MeansKept ==
    ASSUME NEW name, NEW t, NEW S, NEW T, T \subseteq S \cup {t}, Means(name, t, S)
    PROVE  Means(name, t, T)
BY DEF Means

\* What a message that names its object finds.
Fits(v, m, tool, t) ==
    /\ m.by = "id" => t = m.to
    /\ m.by = "name" => MeansFor(v, tool, m.to, t)

LEMMA ProductFound ==
    ASSUME NEW v \in State, NEW m \in Message
    PROVE  /\ ResolveProduct(v, m) \in Ids
           /\ m.by = "id" => ResolveProduct(v, m) = m.to
           /\ m.by = "name" /\ ResolveProduct(v, m) # Nothing =>
                 Means(m.to, ResolveProduct(v, m), KnownProducts(v))
<1>1. CASE m.by = "id"
  <2>1. ResolveProduct(v, m) = m.to
    BY <1>1, Zenon DEF ResolveProduct
  <2>2. QED
    BY <1>1, <2>1, MessageShape
<1>2. CASE m.by = "name"
  <2>1. ResolveProduct(v, m) = Named(m.to, KnownProducts(v))
    BY <1>2, Zenon DEF ResolveProduct
  <2>2. KnownProducts(v) \in SUBSET Things
    BY DEF KnownProducts, State
  <2>3. QED
    BY <1>2, <2>1, <2>2, MessageShape, NamedThing
<1>3. CASE m.by = "it"
  <2>1. ResolveProduct(v, m) = IF v.many THEN Nothing ELSE v.product
    BY <1>3, Zenon DEF ResolveProduct
  <2>2. QED
    BY <1>3, <2>1 DEF Ids, State
<1>4. CASE m.by = "none"
  <2>1. ResolveProduct(v, m) = Nothing
    BY <1>4, Zenon DEF ResolveProduct
  <2>2. QED
    BY <1>4, <2>1 DEF Ids
<1>5. QED
  BY <1>1, <1>2, <1>3, <1>4, MessageShape

LEMMA LineFound ==
    ASSUME NEW v \in State, NEW m \in Message
    PROVE  /\ ResolveCart(v, m) \in Ids
           /\ m.by = "id" => ResolveCart(v, m) = m.to
           /\ m.by = "name" /\ ResolveCart(v, m) # Nothing =>
                 Means(m.to, ResolveCart(v, m), v.items)
<1>0. v.items \in SUBSET Things
  BY DEF State
<1>1. CASE m.by = "id"
  <2>1. ResolveCart(v, m) = m.to
    BY <1>1, Zenon DEF ResolveCart
  <2>2. QED
    BY <1>1, <2>1, MessageShape
<1>2. CASE m.by = "name"
  <2>1. ResolveCart(v, m) = Named(m.to, v.items)
    BY <1>2, Zenon DEF ResolveCart
  <2>2. QED
    BY <1>0, <1>2, <2>1, MessageShape, NamedThing
<1>3. CASE m.by = "it" /\ Cardinality(v.items) = 1
  <2>1. ResolveCart(v, m) = CHOOSE t \in v.items : TRUE
    BY <1>3, Zenon DEF ResolveCart
  <2>2. QED
    BY <1>0, <1>3, <2>1, TheOne DEF Ids
<1>4. CASE m.by = "it" /\ Cardinality(v.items) # 1
  <2>1. ResolveCart(v, m) = Nothing
    BY <1>4, Zenon DEF ResolveCart
  <2>2. QED
    BY <1>4, <2>1 DEF Ids
<1>5. CASE m.by = "none"
  <2>1. ResolveCart(v, m) = Nothing
    BY <1>5, Zenon DEF ResolveCart
  <2>2. QED
    BY <1>5, <2>1 DEF Ids
<1>6. QED
  BY <1>1, <1>2, <1>3, <1>4, <1>5, MessageShape

LEMMA OrderFound ==
    ASSUME NEW v \in State, NEW m \in Message
    PROVE  /\ ResolveOrder(v, m) \in Ids
           /\ m.by = "id" => ResolveOrder(v, m) = m.to
           /\ m.by = "name" => ResolveOrder(v, m) \in {m.to, Nothing}
<1>1. CASE m.by = "id"
  <2>1. ResolveOrder(v, m) = m.to
    BY <1>1, Zenon DEF ResolveOrder
  <2>2. QED
    BY <1>1, <2>1, MessageShape
<1>2. CASE m.by = "name"
  <2>1. ResolveOrder(v, m) = IF m.to = v.order THEN m.to ELSE Nothing
    BY <1>2, Zenon DEF ResolveOrder
  <2>2. QED
    BY <1>2, <2>1, MessageShape DEF Ids
<1>3. CASE m.by = "it" /\ v.topic = "order" /\ v.picked
  <2>1. ResolveOrder(v, m) = v.order
    BY <1>3, Zenon DEF ResolveOrder
  <2>2. QED
    BY <1>3, <2>1 DEF Ids, State
<1>4. CASE m.by = "it" /\ ~(v.topic = "order" /\ v.picked)
  <2>1. ResolveOrder(v, m) = Nothing
    BY <1>4, Zenon DEF ResolveOrder
  <2>2. QED
    BY <1>4, <2>1 DEF Ids
<1>5. CASE m.by = "none"
  <2>1. ResolveOrder(v, m) = Nothing
    BY <1>5, Zenon DEF ResolveOrder
  <2>2. QED
    BY <1>5, <2>1 DEF Ids
<1>6. QED
  BY <1>1, <1>2, <1>3, <1>4, <1>5, MessageShape

\* A message that names an object finds what it means or nothing.
LEMMA Resolved ==
    ASSUME NEW v \in State, NEW m \in Message, NEW tool
    PROVE  /\ Resolve(v, m, tool) \in Ids
           /\ Resolve(v, m, tool) # Nothing => Fits(v, m, tool, Resolve(v, m, tool))
<1> DEFINE r == Resolve(v, m, tool)
<1>0. ProductTools \cap OrderTools = {} /\ (CartTools \cup {"vague", "quantity"}) \cap OrderTools = {}
  BY DEF ProductTools, CartTools, OrderTools
<1>1. CASE r = Nothing
  BY <1>1 DEF Ids
<1>2. CASE r # Nothing /\ tool \in ProductTools
  <2>1. r = ResolveProduct(v, m)
    BY <1>2 DEF Resolve
  <2>2. QED
    BY <1>0, <1>2, <2>1, ProductFound DEF Fits, MeansFor
<1>3. CASE r # Nothing /\ tool \notin ProductTools /\ tool \in CartTools \cup {"vague", "quantity"}
  <2>1. r = ResolveCart(v, m)
    BY <1>3 DEF Resolve
  <2>2. QED
    BY <1>0, <1>3, <2>1, LineFound DEF Fits, MeansFor
<1>4. CASE r # Nothing /\ tool \notin ProductTools /\ tool \notin CartTools \cup {"vague", "quantity"}
  <2>1. r = ResolveOrder(v, m)
    BY <1>4 DEF Resolve
  <2>2. QED
    BY <1>4, <2>1, OrderFound DEF Fits, MeansFor, Means
<1>5. QED
  BY <1>1, <1>2, <1>3, <1>4

LEMMA Recorded ==
    ASSUME NEW v \in State
    PROVE  /\ \A t \in Things : RecordProduct(v, t) \in State
           /\ \A f \in Ids, sure \in BOOLEAN : RecordOrder(v, f, sure) \in State
           /\ \A R \in SUBSET Things : RecordCart(v, R) \in State
           /\ \A R \in SUBSET Things, f \in Ids : RecordSearch(v, R, f) \in State
           /\ \A f \in Ids, b \in BOOLEAN : [v EXCEPT !.asked = b, !.clar = f] \in State
           /\ [v EXCEPT !.topic = "other"] \in State
<1> USE DEF State, Ids
<1>1. ASSUME NEW t \in Things PROVE RecordProduct(v, t) \in State
  BY DEF RecordProduct
<1>2. ASSUME NEW f \in Ids, NEW sure \in BOOLEAN PROVE RecordOrder(v, f, sure) \in State
  BY DEF RecordOrder
<1>3. ASSUME NEW R \in SUBSET Things PROVE RecordCart(v, R) \in State
  BY DEF RecordCart
<1>4. ASSUME NEW R \in SUBSET Things, NEW f \in Ids PROVE RecordSearch(v, R, f) \in State
  BY DEF RecordSearch
<1>5. ASSUME NEW f \in Ids, NEW b \in BOOLEAN PROVE [v EXCEPT !.asked = b, !.clar = f] \in State
  OBVIOUS
<1>6. [v EXCEPT !.topic = "other"] \in State
  OBVIOUS
<1>7. QED
  BY <1>1, <1>2, <1>3, <1>4, <1>5, <1>6

\* Whatever a call returns, it leaves a state of the conversation.
LEMMA Afterwards ==
    ASSUME NEW v \in State, NEW tool, NEW to \in Ids, Needs(tool) => to \in Things
    PROVE  After(v, tool, to) \subseteq State
<1>1. v.items \subseteq Things /\ Things \subseteq Ids /\ Nothing \in Ids
  BY DEF State, Ids
<1>2. CASE tool = "search_products"
  <2>1. After(v, tool, to) =
          UNION {{RecordSearch(v, R, t) : t \in First(R)} : R \in SUBSET Things}
    BY <1>2, Zenon DEF After
  <2>2. ASSUME NEW R \in SUBSET Things, NEW t \in First(R)
        PROVE  RecordSearch(v, R, t) \in State
    <3>1. t \in Ids
      BY <1>1 DEF First
    <3>2. QED
      BY <3>1, Recorded
  <2>3. QED
    BY <2>1, <2>2
<1>3. CASE tool = "get_product_detail"
  <2>1. After(v, tool, to) =
          {RecordProduct(v, to)}
    BY <1>3, Zenon DEF After
  <2>2. to \in Things
    BY <1>3 DEF Needs, ProductTools, CartTools, OrderTools
  <2>3. QED
    BY <1>1, <2>1, <2>2, Recorded
<1>4. CASE tool = "get_my_orders"
  <2>1. After(v, tool, to) =
          UNION {{RecordOrder(v, t, Cardinality(R) = 1) : t \in First(R)} : R \in SUBSET Things}
    BY <1>4, Zenon DEF After
  <2>2. ASSUME NEW R \in SUBSET Things, NEW t \in First(R)
        PROVE  RecordOrder(v, t, Cardinality(R) = 1) \in State
    <3>1. t \in Ids
      BY <1>1 DEF First
    <3>2. QED
      BY <3>1, Recorded
  <2>3. QED
    BY <2>1, <2>2
<1>5. CASE tool = "get_order_detail"
  <2>1. After(v, tool, to) =
          {RecordOrder(v, to, TRUE)}
    BY <1>5, Zenon DEF After
  <2>2. to \in Things
    BY <1>5 DEF Needs, ProductTools, CartTools, OrderTools
  <2>3. QED
    BY <1>1, <2>1, <2>2, Recorded
<1>6. CASE tool = "get_cart"
  <2>1. After(v, tool, to) =
          {RecordCart(v, R) : R \in SUBSET Things}
    BY <1>6, Zenon DEF After
  <2>2. QED
    BY <1>1, <2>1, Recorded
<1>7. CASE tool = "add_to_cart"
  <2>1. After(v, tool, to) =
          {RecordCart(RecordProduct(v, to), R) :
            R \in IF mode = "demo" /\ ~aliased THEN {v.items} ELSE {v.items, v.items \cup {to}}}
    BY <1>7, Zenon DEF After
  <2>2. to \in Things
    BY <1>7 DEF Needs, ProductTools, CartTools, OrderTools
  <2>3. RecordProduct(v, to) \in State
    BY <2>2, Recorded
  <2>4. QED
    BY <1>1, <2>1, <2>2, <2>3, Recorded
<1>8. CASE tool = "search_knowledge_base"
  <2>1. After(v, tool, to) =
          {[v EXCEPT !.topic = "other"]}
    BY <1>8, Zenon DEF After
  <2>2. QED
    BY <1>1, <2>1, Recorded
<1>9. CASE tool = "update_cart"
  <2>1. After(v, tool, to) =
          {RecordCart(v, R) : R \in {v.items, v.items \cup {to}}}
    BY <1>9, Zenon DEF After
  <2>2. to \in Things
    BY <1>9 DEF Needs, ProductTools, CartTools, OrderTools
  <2>3. QED
    BY <1>1, <2>1, <2>2, Recorded
<1>10. CASE tool = "remove_from_cart"
  <2>1. After(v, tool, to) =
          {RecordCart(v, v.items \ {to})}
    BY <1>10, Zenon DEF After
  <2>2. QED
    BY <1>1, <2>1, Recorded
<1>11. CASE tool \notin {"search_products", "get_product_detail", "get_my_orders", "get_order_detail",
                      "get_cart", "add_to_cart", "search_knowledge_base", "update_cart",
                      "remove_from_cart"}
  <2>1. After(v, tool, to) = {RecordCart(v, v.items)}
    BY <1>11, Zenon DEF After
  <2>2. QED
    BY <1>1, <2>1, Recorded
<1>12. QED
  BY <1>2, <1>3, <1>4, <1>5, <1>6, <1>7, <1>8, <1>9, <1>10, <1>11

LEMMA NotedState ==
    ASSUME NEW v \in State, NEW tool
    PROVE  Noted(v, tool) \in State
<1>1. /\ v.items \subseteq Things
      /\ RecordCart(v, v.items) = [v EXCEPT !.items = v.items, !.topic = "other"]
  BY DEF State, RecordCart
<1>2. QED
  BY <1>1 DEF Noted, State

\* A write makes no thing known but the one it is called for.
LEMMA KnownAfter ==
    ASSUME NEW v \in State, NEW tool \in Unconfirmed, NEW to, NEW w \in After(v, tool, to)
    PROVE  w.items \subseteq v.items \cup {to} /\ KnownProducts(w) \subseteq KnownProducts(v) \cup {to}
<1> USE DEF State, KnownProducts
<1>1. CASE tool = "add_to_cart"
  <2>1. After(v, tool, to) =
          {RecordCart(RecordProduct(v, to), R) :
            R \in IF mode = "demo" /\ ~aliased THEN {v.items} ELSE {v.items, v.items \cup {to}}}
    BY <1>1, Zenon DEF After
  <2>2. PICK R \in {v.items, v.items \cup {to}} : w = RecordCart(RecordProduct(v, to), R)
    BY <2>1
  <2>3. w.items = R /\ w.shown = v.shown \cup {to} /\ w.product = to
    BY <2>2 DEF RecordCart, RecordProduct
  <2>4. QED
    BY <2>2, <2>3
<1>2. CASE tool = "update_cart"
  <2>1. After(v, tool, to) = {RecordCart(v, R) : R \in {v.items, v.items \cup {to}}}
    BY <1>2, Zenon DEF After
  <2>2. PICK R \in {v.items, v.items \cup {to}} : w = RecordCart(v, R)
    BY <2>1
  <2>3. w.items = R /\ w.shown = v.shown /\ w.product = v.product
    BY <2>2 DEF RecordCart
  <2>4. QED
    BY <2>2, <2>3
<1>3. CASE tool = "remove_from_cart"
  <2>1. After(v, tool, to) = {RecordCart(v, v.items \ {to})}
    BY <1>3, Zenon DEF After
  <2>2. w.items = v.items \ {to} /\ w.shown = v.shown /\ w.product = v.product
    BY <2>1 DEF RecordCart
  <2>3. QED
    BY <2>2
<1>4. CASE tool = "update_cart_items"
  <2>1. After(v, tool, to) = {RecordCart(v, v.items)}
    BY <1>4, Zenon DEF After
  <2>2. w.items = v.items /\ w.shown = v.shown /\ w.product = v.product
    BY <2>1 DEF RecordCart
  <2>3. QED
    BY <2>2
<1>5. QED
  BY <1>1, <1>2, <1>3, <1>4 DEF Unconfirmed

LEMMA KnownNoted ==
    ASSUME NEW v \in State, NEW tool, NEW to, NEW w \in {v, Noted(v, tool), RecordOrder(v, to, TRUE)}
    PROVE  w.items = v.items /\ KnownProducts(w) = KnownProducts(v)
<1>1. w.items = v.items /\ w.shown = v.shown /\ w.product = v.product
  BY DEF Noted, RecordCart, RecordOrder, State
<1>2. QED
  BY <1>1 DEF KnownProducts

\* What a name meant before a write it still means after it.
LEMMA MeantAfter ==
    ASSUME view \in State, NEW tool \in Writes, NEW to, Execute(tool, to), NEW name,
           MeansFor(view, tool, name, to)
    PROVE  MeansFor(view', tool, name, to)
<1>1. /\ view'.items \subseteq view.items \cup {to}
      /\ KnownProducts(view') \subseteq KnownProducts(view) \cup {to}
  <2>1. CASE Succeeds(tool, to)
    BY <2>1, KnownAfter DEF Succeeds, Writes
  <2>2. CASE Fails(tool, to) \/ Unclear(tool, to) \/ Offers(tool, to)
    <3>1. view' \in {view, Noted(view, tool), RecordOrder(view, to, TRUE)}
      BY <2>2 DEF Fails, Unclear, Offers
    <3>2. view'.items = view.items /\ KnownProducts(view') = KnownProducts(view)
      BY <3>1, KnownNoted
    <3>3. QED
      BY <3>2
  <2>3. QED
    BY <2>1, <2>2 DEF Execute
<1>2. QED
  BY <1>1, MeansKept DEF MeansFor

-----------------------------------------------------------------------------
(* The invariant                                                            *)

Records == [tool : Tools \cup {"none"}, to : Ids,
            outcome : {"none", "success", "error", "offer", "unknown"}]

\* Confirmations are issued in order; one that was displayed or is about to be
\* is not newer than the one a typed confirmation would take.
Newest(t) == t # 0 => \A card \in cards : card <= t
Journal ==
    /\ \A t, u \in Tokens : t < u /\ ops[t] = "none" => ops[u] = "none"
    /\ \A t \in cards : ops[t] # "none"
    /\ offer # 0 => ops[offer] # "none"
    /\ Live => /\ Newest(holding) /\ Newest(pending)
               /\ LET keeper == IF pc = "reply" THEN pending ELSE holding
                  IN  keeper # 0 => offer <= keeper
    /\ pc = "idle" => offer = 0
    /\ pc = "reply" => offer # 0

\* What a step of the turn may rely on.
Answer ==
    /\ msg.ask = "update_cart" /\ msg.by = "id" /\ msg.to \in Things /\ msg.mood = "asks"
    /\ Fits(view, said, "update_cart", msg.to)
    /\ Bare(said) => msg.to = meant
Course ==
    /\ pc \notin {"model", "save"} => last = NoCall
    /\ last.outcome = "unknown" => pc = "save"
    /\ pc = "fetched" =>
          /\ msg.mood # "denies"
          /\ msg.ask \in {"create_order", "add_to_cart"} =>
                /\ msg.by = "name" /\ view.product \in Things
                /\ Means(msg.to, view.product, KnownProducts(view))
    /\ pc \in {"start", "route"} /\ msg.ask = "add_to_cart" => meant = ResolveProduct(view, msg)
    /\ pc = "start" /\ Bare(msg) => meant = view.clar
    /\ pc = "model" /\ msg.ask = "add_to_cart" /\ msg.by = "it" => msg.mood # "asks"
    /\ msg = said \/ pc = "save" \/ (pc = "route" /\ Answer)

TurnInvariant == TypeOK /\ Journal /\ Course /\ WritesAsked

LEMMA TokensNat == TypeOK => Tokens \subseteq Nat \ {0}
BY TurnAssumption DEF TypeOK, Tokens

LEMMA InitTurn == Init => TurnInvariant
<1> SUFFICES ASSUME Init PROVE TurnInvariant
  OBVIOUS
<1>1. NoMessage \in Message /\ Blank \in State
  BY DEF NoMessage, Blank, Message, State, Talk, Lists
<1>2. TypeOK
  BY <1>1 DEF Init, TypeOK, NoCall, Tools
<1>3. Journal
  BY DEF Init, Journal, Newest
<1>4. Course /\ WritesAsked
  BY DEF Init, Course, WritesAsked, Wrote, NoCall, NoMessage, Bare, Writes, Confirmed, Unconfirmed
<1>5. QED
  BY <1>2, <1>3, <1>4 DEF TurnInvariant

\* The least of the confirmations that are left exists.
LEMMA Least ==
    ASSUME TypeOK, Unissued # {}
    PROVE  LET t == CHOOSE u \in Unissued : \A w \in Unissued : u <= w
           IN  t \in Unissued /\ \A w \in Unissued : t <= w
<1>1. Unissued \subseteq Nat
  BY TokensNat DEF Unissued
<1>2. PICK t \in Unissued : \A w \in Unissued : ~(<<w, t>> \in OpToRel(<, Nat))
  BY <1>1, NatLessThanWellFounded, WFMin
<1>3. ASSUME NEW w \in Unissued PROVE t <= w
  <2>1. w \in Nat /\ t \in Nat /\ <<w, t>> \in Nat \X Nat
    BY <1>1
  <2>2. ~(w < t)
    BY <1>2, <2>1 DEF OpToRel
  <2>3. QED
    BY <2>1, <2>2
<1>4. QED
  BY <1>3

-----------------------------------------------------------------------------
(* What a step does to the confirmations                                    *)

\* Nothing is issued or displayed.
LEMMA JournalKept ==
    ASSUME TypeOK, Journal, UNCHANGED <<about, mode, cards>>,
           \A t \in Tokens : ops'[t] = "none" <=> ops[t] = "none",
           holding' \in {holding, pending, 0}, pending' \in {holding, pending, 0},
           offer' \in {offer, 0},
           offer' # 0 => /\ pc # "reply"
                         /\ IF pc' = "reply" THEN pending' \in {holding, 0}
                            ELSE holding' \in {holding, 0},
           pc' = "idle" => offer' = 0,
           pc' = "reply" => offer' # 0
    PROVE  Journal'
<1>1. /\ Tokens' = Tokens /\ Tokens \subseteq Nat /\ cards \subseteq Tokens
      /\ offer \in Tokens \cup {0} /\ holding \in Tokens \cup {0} /\ pending \in Tokens \cup {0}
  BY TokensNat DEF Tokens, TypeOK
<1>2. Live' => Live
  BY DEF Live
<1>3. (\A t, u \in Tokens : t < u /\ ops[t] = "none" => ops[u] = "none")'
  BY <1>1 DEF Journal
<1>4. (\A t \in cards : ops[t] # "none")' /\ (offer # 0 => ops[offer] # "none")'
  BY <1>1 DEF Journal
<1>5. Live' => Newest(holding)' /\ Newest(pending)'
  BY <1>1, <1>2 DEF Journal, Newest
<1>6. Live' => LET keeper == IF pc = "reply" THEN pending ELSE holding
               IN  (keeper # 0 => offer <= keeper)'
  <2>1. {holding, pending, offer} \subseteq Nat
    BY <1>1
  <2>2. CASE offer' = 0
    BY <2>1, <2>2
  <2>3. CASE offer' # 0 /\ pc' = "reply"
    BY <1>2, <2>1, <2>3 DEF Journal
  <2>4. CASE offer' # 0 /\ pc' # "reply"
    BY <1>2, <2>1, <2>4 DEF Journal
  <2>5. QED
    BY <2>2, <2>3, <2>4
<1>7. QED
  BY <1>3, <1>4, <1>5, <1>6 DEF Journal

\* The next confirmation is issued.
LEMMA JournalOffers ==
    ASSUME TypeOK, Journal, NEW tool, NEW to, Offers(tool, to),
           UNCHANGED <<about, mode, pending, cards>>,
           pc' \notin {"idle", "reply"}
    PROVE  Journal' /\ ops' \in [Tokens -> {"none", "prepared", "gone"}]
                    /\ {holding', offer'} \subseteq Tokens \cup {0}
<1> DEFINE t == CHOOSE u \in Unissued : \A w \in Unissued : u <= w
<1>1. t \in Unissued /\ \A w \in Unissued : t <= w
  BY Least DEF Offers
<1>2. ops' = [ops EXCEPT ![t] = "prepared"] /\ holding' = Remember(t) /\ offer' = t
  BY DEF Offers
<1> HIDE DEF t
<1>3. Tokens' = Tokens /\ Tokens \subseteq Nat \ {0} /\ cards \subseteq Tokens /\ t \in Tokens
  BY <1>1, TokensNat DEF Tokens, TypeOK, Unissued
<1>4. ops \in [Tokens -> {"none", "prepared", "gone"}] /\ ops[t] = "none"
  BY <1>1 DEF TypeOK, Unissued
<1>5. \A u \in Tokens : ops'[u] = IF u = t THEN "prepared" ELSE ops[u]
  BY <1>2, <1>4
<1>6. (\A a, b \in Tokens : a < b /\ ops[a] = "none" => ops[b] = "none")'
  <2> SUFFICES ASSUME NEW a \in Tokens, NEW b \in Tokens, a < b, ops'[a] = "none"
               PROVE  ops'[b] = "none"
    BY <1>3
  <2>1. a # t /\ ops[a] = "none" /\ a \in Unissued
    BY <1>5 DEF Unissued
  <2>2. t <= a /\ b # t
    BY <1>1, <1>3, <2>1
  <2>3. ops[b] = "none"
    BY <2>1 DEF Journal
  <2>4. QED
    BY <1>5, <2>2, <2>3
<1>7. (\A card \in cards : ops[card] # "none")' /\ (offer # 0 => ops[offer] # "none")'
  BY <1>2, <1>3, <1>5 DEF Journal
<1>8. \A card \in cards : card <= t
  <2> SUFFICES ASSUME NEW card \in cards, t < card PROVE FALSE
    BY <1>3
  <2>1. ops[card] = "none"
    BY <1>3, <1>4 DEF Journal
  <2>2. QED
    BY <2>1 DEF Journal
<1>9. Live' => holding' = t /\ Live
  BY <1>2 DEF Remember, Live
<1>10. Live' => Newest(holding)' /\ Newest(pending)'
  BY <1>8, <1>9 DEF Journal, Newest
<1>11. Live' => LET keeper == IF pc = "reply" THEN pending ELSE holding
                IN  (keeper # 0 => offer <= keeper)'
  BY <1>2, <1>3, <1>9
<1>12. ops' \in [Tokens -> {"none", "prepared", "gone"}] /\ {holding', offer'} \subseteq Tokens \cup {0}
  BY <1>2, <1>3, <1>4 DEF Remember, TypeOK
<1>13. QED
  BY <1>6, <1>7, <1>10, <1>11, <1>12 DEF Journal

-----------------------------------------------------------------------------
(* What a step does to the turn                                             *)

LEMMA NoWrite == last' = NoCall => WritesAsked'
BY DEF WritesAsked, Wrote, NoCall, Writes, Confirmed, Unconfirmed

\* A tool call: of the object the message names, if it writes.
LEMMA Called ==
    ASSUME TurnInvariant, NEW tool \in Tools \cup {"none"}, NEW to \in Ids, Execute(tool, to),
           Needs(tool) => to \in Things,
           tool \in Writes =>
              /\ \/ said.ask = tool /\ said.mood # "denies"
                 \/ msg # said /\ tool = "update_cart"
              /\ Fits(view, said, tool, to)
              /\ (said.by = "it" /\ tool = "add_to_cart") \/ Bare(said) => to = meant,
           pc \in {"route", "fetched", "model"}, pc' \in {"save", "model"},
           pc' = "model" => pc = "model",
           last'.outcome = "unknown" => pc' = "save",
           UNCHANGED <<about, aliased, mode, saved, pending, cards, msg, said, meant>>
    PROVE  TurnInvariant'
<1>1. TypeOK /\ Journal /\ Course /\ view \in State /\ msg \in Message
  BY DEF TurnInvariant, TypeOK
<1>2. Journal' /\ ops' \in [Tokens -> {"none", "prepared", "gone"}]
               /\ {holding', offer'} \subseteq Tokens \cup {0}
  <2>1. CASE Offers(tool, to)
    BY <1>1, <2>1, JournalOffers
  <2>2. CASE UNCHANGED <<holding, ops>> /\ offer' \in {offer, 0}
    <3>1. Journal'
      BY <1>1, <2>2, JournalKept
    <3>2. QED
      BY <1>1, <2>2, <3>1 DEF TypeOK
  <2>3. QED
    BY <2>1, <2>2 DEF Execute, Fails, Succeeds, Unclear
<1>3. \E outcome \in {"success", "error", "offer", "unknown"} :
         /\ Record(tool, to, outcome)
         /\ outcome # "error" => said.mood # "consults" \/ tool \notin Writes
  BY DEF Execute, Fails, Succeeds, Unclear, Offers, Confirmed, Unconfirmed, Writes
<1>4. PICK outcome \in {"success", "error", "offer", "unknown"} :
         /\ Record(tool, to, outcome)
         /\ outcome # "error" => said.mood # "consults" \/ tool \notin Writes
  BY <1>3
<1>5. /\ last' \in Records /\ last'.outcome = outcome
      /\ last'.tool \in Writes => last'.tool = tool /\ last'.to = to
  <2>1. last' = [tool |-> last'.tool, to |-> last'.to, outcome |-> outcome]
    BY <1>4 DEF Record
  <2>2. /\ last'.tool \in {tool, "none"} /\ last'.to \in {to, Nothing}
        /\ last'.tool \in Writes => last'.tool = tool /\ last'.to = to
    BY <1>4 DEF Record, Writes, Confirmed, Unconfirmed
  <2>3. QED
    BY <2>1, <2>2 DEF Records, Ids
<1>6. view' \in State
  BY <1>1, Afterwards, NotedState, Recorded DEF Execute, Fails, Succeeds, Unclear, Offers
<1>7. TypeOK'
  BY <1>1, <1>2, <1>5, <1>6 DEF TypeOK, Tokens, Records, Ids
<1>8. Course'
  BY <1>1 DEF Course
<1>9. WritesAsked'
  <2> SUFFICES ASSUME Wrote'
               PROVE  /\ \/ said.ask = tool /\ said.mood = "asks"
                         \/ msg # said /\ tool = "update_cart" /\ said.mood # "consults"
                      /\ said.by = "id" => to = said.to
                      /\ said.by = "name" => MeansFor(view', tool, said.to, to)
                      /\ (said.by = "it" /\ tool = "add_to_cart") \/ Bare(said) => to = meant
    BY <1>5 DEF WritesAsked, Wrote, Bare, MeansFor, KnownProducts
  <2>1. said.mood \in Moods
    BY <1>1, MessageShape DEF TypeOK
  <2>2. tool \in Writes /\ said.mood # "consults"
    BY <1>4, <1>5 DEF Wrote
  <2>3. said.by = "name" => MeansFor(view', tool, said.to, to)
    BY <1>1, <2>2, MeantAfter DEF Fits
  <2>4. QED
    BY <2>1, <2>2, <2>3 DEF Moods, Fits
<1>10. QED
  BY <1>2, <1>7, <1>8, <1>9 DEF TurnInvariant

\* The turn goes on, and at most its view has changed.
LEMMA Moved ==
    ASSUME TurnInvariant, view' \in State,
           pc \in {"start", "taken", "route", "fetched"},
           pc' \in {"taken", "fetched", "model", "save"},
           pc' = "fetched" =>
              /\ msg.mood # "denies"
              /\ msg.ask \in {"create_order", "add_to_cart"} =>
                    /\ msg.by = "name" /\ view'.product \in Things
                    /\ Means(msg.to, view'.product, KnownProducts(view')),
           pc' = "save" \/ msg = said,
           pc' = "model" /\ msg.ask = "add_to_cart" /\ msg.by = "it" => msg.mood # "asks",
           \A t \in Tokens : ops'[t] = "none" <=> ops[t] = "none",
           ops' \in [Tokens -> {"none", "prepared", "gone"}],
           holding' \in {holding, 0},
           UNCHANGED <<about, aliased, mode, saved, pending, cards, msg, said, meant, last, offer>>
    PROVE  TurnInvariant'
<1>1. TypeOK /\ Journal /\ Course /\ WritesAsked
  BY DEF TurnInvariant
<1>2. Journal'
  BY <1>1, JournalKept DEF Journal
<1>3. TypeOK'
  BY <1>1 DEF TypeOK, Tokens
<1>4. Course'
  BY <1>1 DEF Course
<1>5. WritesAsked'
  BY <1>1, NoWrite DEF Course
<1>6. QED
  BY <1>2, <1>3, <1>4, <1>5 DEF TurnInvariant

\* The turn ends without a save.
LEMMA Ended ==
    ASSUME TurnInvariant, EndTurn, pc # "idle",
           saved' \in {saved, view, Blank}, pending' \in {pending, holding, 0},
           UNCHANGED <<about, aliased, mode, ops, cards>>
    PROVE  TurnInvariant'
<1>1. TypeOK /\ Journal
  BY DEF TurnInvariant
<1>2. NoMessage \in Message /\ Blank \in State
  BY DEF NoMessage, Blank, Message, State, Talk, Lists
<1>3. Journal'
  BY <1>1, JournalKept DEF EndTurn, Reset
<1>4. TypeOK'
  <2>1. last' \in Records
    BY DEF EndTurn, Reset, NoCall, Records, Ids
  <2>2. saved' \in State /\ view' \in State /\ {msg', said'} \subseteq Message
    BY <1>1, <1>2 DEF EndTurn, Reset, TypeOK
  <2>3. Tokens' = Tokens /\ {pending', holding', offer'} \subseteq Tokens \cup {0}
    BY <1>1 DEF EndTurn, Reset, TypeOK, Tokens
  <2>4. QED
    BY <1>1, <2>1, <2>2, <2>3 DEF EndTurn, Reset, TypeOK, Records, Ids
<1>5. Course' /\ WritesAsked'
  BY NoWrite DEF EndTurn, Reset, Course, NoCall
<1>6. QED
  BY <1>3, <1>4, <1>5 DEF TurnInvariant

LEMMA UnsavedKept ==
    ASSUME TurnInvariant, Unsaved, pc \in {"start", "route", "fetched"}
    PROVE  TurnInvariant'
<1>1. CASE mode = "live"
  <2>1. Leave /\ EndTurn /\ UNCHANGED <<about, aliased, mode, ops, cards>>
    BY <1>1 DEF Unsaved
  <2>2. saved' \in {saved, view, Blank} /\ pending' \in {pending, holding, 0}
    BY <2>1 DEF Leave
  <2>3. QED
    BY <2>1, <2>2, Ended
<1>2. CASE mode # "live"
  <2>1. pc' = "save" /\ UNCHANGED <<convers, msg, said, view, holding, meant, last, offer>>
    BY <1>2 DEF Unsaved
  <2>2. QED
    BY <2>1, Moved DEF convers, TurnInvariant, TypeOK
<1>3. QED
  BY <1>1, <1>2

LEMMA SayKept == ASSUME TurnInvariant, NEW m \in Message, Say(m) PROVE TurnInvariant'
<1>1. TypeOK /\ Journal /\ Course
  BY DEF TurnInvariant
<1>2. Blank \in State
  BY DEF Blank, State
<1>3. Journal'
  BY <1>1, JournalKept DEF Say, AtStep, Journal
<1>4. meant' \in Ids
  BY <1>1, ProductFound DEF Say, TypeOK, Ids, State
<1>5. TypeOK'
  BY <1>1, <1>2, <1>4 DEF Say, TypeOK, Tokens, Ids
<1>6. Course' /\ WritesAsked'
  BY <1>1, NoWrite DEF Say, AtStep, Course, Bare
<1>7. QED
  BY <1>3, <1>5, <1>6 DEF TurnInvariant

\* The line an answer is about is the one the message means.
LEMMA LineMeant ==
    ASSUME TurnInvariant, pc = "start", AnswerLine(view, msg) # Nothing
    PROVE  LET line == AnswerLine(view, msg) IN
           /\ line \in Things
           /\ Bare(msg) => line = meant
           /\ Fits(view, msg, "update_cart", line)
<1>1. view \in State /\ msg \in Message /\ Course
  BY DEF TurnInvariant, TypeOK
<1>2. CASE Bare(msg)
  BY <1>1, <1>2 DEF AnswerLine, Bare, Course, State, Fits
<1>3. CASE ~Bare(msg)
  BY <1>1, <1>3, Resolved DEF AnswerLine, Ids
<1>4. QED
  BY <1>2, <1>3

LEMMA CompleteKept == ASSUME TurnInvariant, Complete PROVE TurnInvariant'
<1> DEFINE line == AnswerLine(view, msg)
           answer == [ask |-> "update_cart", by |-> "id", to |-> line, mood |-> "asks"]
<1>1. /\ TypeOK /\ Journal /\ Course /\ view \in State /\ msg \in Message
      /\ pc = "start" /\ pc' = "route" /\ last = NoCall /\ msg = said
      /\ UNCHANGED <<convers, said, holding, meant, last, offer>>
  BY DEF TurnInvariant, TypeOK, Complete, AtStep, Course
<1>2. line # Nothing => line \in Things /\ answer \in Message
  BY LineMeant, <1>1 DEF Message, Objects, CartTools
<1>3. msg' = msg \/ (line # Nothing /\ msg' = answer)
  BY DEF Complete
<1>4. view' \in State /\ msg' \in Message
  <2>1. view' = [view EXCEPT !.asked = FALSE, !.clar = Nothing]
    BY DEF Complete
  <2>2. QED
    BY <1>1, <1>2, <1>3, <2>1, Recorded DEF Ids
<1>5. Journal'
  BY <1>1, JournalKept DEF convers
<1>6. TypeOK'
  BY <1>1, <1>4 DEF convers, TypeOK, Tokens
<1>7. /\ view'.shown = view.shown /\ view'.items = view.items
      /\ view'.product = view.product /\ view'.many = view.many
  BY <1>1 DEF Complete, State
<1>8. msg'.ask = "add_to_cart" => meant' = ResolveProduct(view', msg')
  <2>1. ResolveProduct(view', msg) = ResolveProduct(view, msg)
    BY <1>7, Zenon DEF ResolveProduct, KnownProducts
  <2>2. msg'.ask = "add_to_cart" => msg' = msg
    BY <1>3
  <2>3. QED
    BY <1>1, <2>1, <2>2 DEF Course
<1>9. msg' = said' \/ Answer'
  <2>1. CASE line # Nothing /\ msg' = answer
    <3>1. Fits(view, said, "update_cart", line) /\ (Bare(said) => line = meant) /\ line \in Things
      BY <1>1, <2>1, LineMeant
    <3>2. Fits(view', said', "update_cart", line)
      BY <1>1, <1>7, <3>1 DEF Fits, MeansFor, KnownProducts
    <3>3. QED
      BY <1>1, <2>1, <3>1, <3>2 DEF Answer, Bare
  <2>2. QED
    BY <1>1, <1>3, <2>1
<1>10. Course'
  BY <1>1, <1>8, <1>9 DEF Course, NoCall
<1>11. QED
  BY <1>1, <1>5, <1>6, <1>10, NoWrite DEF TurnInvariant

LEMMA AnsweredKept ==
    ASSUME TurnInvariant, Answered PROVE TurnInvariant'
<1>1. TypeOK /\ Journal
  BY DEF TurnInvariant
<1>2. NoMessage \in Message
  BY DEF NoMessage, Message, Talk
<1>3. Journal'
  BY <1>1, JournalKept DEF Answered, AtStep, convers
<1>4. NoCall \in Records
  BY DEF NoCall, Records, Ids
<1>5. TypeOK'
  BY <1>1, <1>2, <1>4 DEF Answered, convers, TypeOK, Tokens, Records, Ids
<1>6. Course' /\ WritesAsked'
  BY NoWrite DEF Answered, Course, NoCall
<1>7. QED
  BY <1>3, <1>5, <1>6 DEF TurnInvariant

LEMMA SaveKept == ASSUME TurnInvariant, Save PROVE TurnInvariant'
<1>1. TypeOK /\ Journal
  BY DEF TurnInvariant
<1>2. NoMessage \in Message /\ Blank \in State /\ NoCall \in Records
  BY DEF NoMessage, Blank, Message, State, Talk, Lists, NoCall, Records, Ids
<1>3. Journal'
  BY <1>1, JournalKept DEF Save, AtStep, Reset
<1>4. TypeOK'
  <2>1. Tokens' = Tokens /\ {pending', holding', offer'} \subseteq Tokens \cup {0}
    BY <1>1 DEF Save, Reset, TypeOK, Tokens
  <2>2. saved' \in State /\ view' \in State /\ {msg', said'} \subseteq Message /\ last' \in Records
    BY <1>1, <1>2 DEF Save, Reset, TypeOK
  <2>3. QED
    BY <1>1, <2>1, <2>2 DEF Save, Reset, TypeOK, Records, Ids
<1>5. Course' /\ WritesAsked'
  BY NoWrite DEF Save, Reset, Course, NoCall
<1>6. QED
  BY <1>3, <1>4, <1>5 DEF TurnInvariant

LEMMA DeliverKept == ASSUME TurnInvariant, Deliver PROVE TurnInvariant'
<1>1. TypeOK /\ Journal
  BY DEF TurnInvariant
<1>2. NoMessage \in Message /\ Blank \in State /\ NoCall \in Records
  BY DEF NoMessage, Blank, Message, State, Talk, Lists, NoCall, Records, Ids
<1>3. offer \in Tokens
  BY <1>1 DEF Deliver, AtStep, Journal, TypeOK
<1>4. Journal'
  BY <1>1, <1>3 DEF Deliver, AtStep, EndTurn, Reset, Journal, Newest, Tokens, Live
<1>5. TypeOK'
  <2>1. /\ Tokens' = Tokens /\ {pending', holding', offer'} \subseteq Tokens \cup {0}
        /\ cards' \subseteq Tokens
    BY <1>1, <1>3 DEF Deliver, EndTurn, Reset, TypeOK, Tokens
  <2>2. saved' \in State /\ view' \in State /\ {msg', said'} \subseteq Message /\ last' \in Records
    BY <1>1, <1>2 DEF Deliver, EndTurn, Reset, TypeOK
  <2>3. QED
    BY <1>1, <2>1, <2>2 DEF Deliver, EndTurn, Reset, TypeOK, Records, Ids
<1>6. Course' /\ WritesAsked'
  BY NoWrite DEF Deliver, EndTurn, Reset, Course, NoCall
<1>7. QED
  BY <1>4, <1>5, <1>6 DEF TurnInvariant

\* Between two turns confirmations come to an end and states are forgotten.
LEMMA IdleKept ==
    ASSUME TurnInvariant, Idle, saved' \in {saved, Blank}, pending' \in {pending, 0},
           ops' \in [Tokens -> {"none", "prepared", "gone"}],
           \A t \in Tokens : ops'[t] = "none" <=> ops[t] = "none"
    PROVE  TurnInvariant'
<1>1. TypeOK /\ Journal /\ Course /\ WritesAsked
  BY DEF TurnInvariant
<1>2. Blank \in State
  BY DEF Blank, State
<1>3. Journal'
  BY <1>1, JournalKept DEF Idle, turn, AtStep, Journal
<1>4. TypeOK'
  BY <1>1, <1>2 DEF Idle, turn, TypeOK, Tokens
<1>5. Course' /\ WritesAsked'
  BY <1>1, NoWrite DEF Idle, turn, AtStep, Course
<1>6. QED
  BY <1>3, <1>4, <1>5 DEF TurnInvariant

-----------------------------------------------------------------------------
(* Every action is one of these                                             *)

LEMMA Targeted ==
    ASSUME TurnInvariant, NEW tool, msg.ask = tool
    PROVE  /\ Target \in Ids
           /\ Target # Nothing => Fits(view, msg, tool, Target)
           /\ pc = "route" /\ tool = "add_to_cart" => Target = meant
<1>1. view \in State /\ msg \in Message /\ Course
  BY DEF TurnInvariant, TypeOK
<1>2. Target \in Ids /\ (Target # Nothing => Fits(view, msg, tool, Target))
  BY <1>1, Resolved DEF Target
<1>3. ASSUME pc = "route", tool = "add_to_cart" PROVE Target = meant
  <2>1. SameKind(msg, msg.ask)
    BY <1>3 DEF SameKind, Kinds, ProductTools
  <2>2. Target = ResolveProduct(view, msg)
    BY <1>3, <2>1 DEF Target, Resolve, ProductTools
  <2>3. QED
    BY <1>1, <1>3, <2>2 DEF Course
<1>4. QED
  BY <1>2, <1>3

\* A call by the words of the message, or by its answer.
LEMMA DirectKept ==
    ASSUME TurnInvariant, NEW tool \in Tools, Call(tool, Target, "save"), Target # Nothing,
           msg.ask = tool, msg.mood # "denies", pc = "route" \/ (pc = "fetched" /\ tool \in CartTools)
    PROVE  TurnInvariant'
<1>1. Target \in Things /\ Fits(view, msg, tool, Target)
  BY Targeted DEF Ids
<1>2. tool = "add_to_cart" => pc = "route"
  BY DEF CartTools
<1>3. Course /\ tool # "quantity"
  BY DEF TurnInvariant, Tools, ProductTools, CartTools, OrderTools, Lists, Whole
<1>4. /\ \/ said.ask = tool /\ said.mood # "denies"
         \/ msg # said /\ tool = "update_cart"
      /\ Fits(view, said, tool, Target)
      /\ (said.by = "it" /\ tool = "add_to_cart") \/ Bare(said) => Target = meant
  <2>1. CASE msg = said
    BY <1>1, <1>2, <1>3, <2>1, Targeted DEF Bare
  <2>2. CASE msg # said
    <3>1. Answer
      BY <1>3, <2>2 DEF Course, CartTools
    <3>2. tool = "update_cart" /\ Target = msg.to
      BY <1>1, <3>1 DEF Answer, Fits
    <3>3. QED
      BY <2>2, <3>1, <3>2 DEF Answer
  <2>3. QED
    BY <2>1, <2>2
<1>5. QED
  BY <1>1, <1>4, Called DEF Call, Ids

\* A call without an object.
LEMMA WholeKept ==
    ASSUME TurnInvariant, NEW tool \in Tools, Call(tool, Nothing, "save"), ~Needs(tool),
           tool \in Writes => msg.ask = tool /\ tool \in Whole /\ msg.mood # "denies",
           pc \in {"route", "fetched"}
    PROVE  TurnInvariant'
<1>1. msg \in Message /\ Course
  BY DEF TurnInvariant, TypeOK
<1>2. tool \in Writes => msg.by = "none" /\ msg = said
  BY <1>1, MessageShape DEF Course, Answer, Whole
<1>3. tool \in Writes => Fits(view, said, tool, Nothing) /\ ~Bare(said)
  BY <1>2 DEF Fits, Bare, Whole
<1>4. QED
  BY <1>1, <1>2, <1>3, Called DEF Call, Ids

LEMMA CallToolKept ==
    ASSUME TurnInvariant, NEW tool \in Tools, NEW to \in Ids, CallTool(tool, to)
    PROVE  TurnInvariant'
<1>1. view \in State /\ msg \in Message /\ Course /\ pc = "model" /\ msg = said
  BY DEF TurnInvariant, TypeOK, CallTool, Calling, AtStep, Course
<1> DEFINE object == Inferred(tool, to)
<1>2. /\ object \in Ids
      /\ Needs(tool) => object \in Things /\ object = Resolve(view, msg, tool)
  <2>1. Resolve(view, msg, tool) \in Ids
    BY <1>1, Resolved
  <2>2. CASE Needs(tool)
    <3>1. Resolve(view, msg, tool) # Nothing /\ to \in {Nothing, Resolve(view, msg, tool)}
      BY <2>2 DEF CallTool, Guarded
    <3>2. object = Resolve(view, msg, tool)
      BY <2>2, <3>1 DEF CallTool, Inferred, Needs
    <3>3. QED
      BY <2>1, <3>1, <3>2 DEF Ids
  <2>3. CASE ~Needs(tool)
    BY <2>1, <2>3 DEF Inferred
  <2>4. QED
    BY <2>2, <2>3
<1>3. ASSUME tool \in Writes
      PROVE  /\ msg.ask = tool /\ msg.mood = "asks"
             /\ Fits(view, msg, tool, object) /\ ~Bare(msg)
             /\ ~(msg.by = "it" /\ tool = "add_to_cart")
  <2>1. Words(tool) = {tool}
    <3>1. tool \notin {"get_my_orders", "get_order_detail", "get_cart", "search_products",
                       "get_product_detail"}
      BY <1>3 DEF Writes, Confirmed, Unconfirmed
    <3>2. QED
      BY <3>1, Zenon DEF Words
  <2>2. msg.ask = tool /\ msg.mood = "asks"
    BY <1>3, <2>1 DEF CallTool, Guarded, Writes, Confirmed, Unconfirmed
  <2>3. ~(msg.by = "it" /\ tool = "add_to_cart")
    BY <1>1, <2>2 DEF Course
  <2>4. Fits(view, msg, tool, object)
    <3>1. CASE Needs(tool)
      BY <1>1, <1>2, <3>1, Resolved, TurnAssumption
    <3>2. CASE ~Needs(tool)
      <4>1. tool \in Whole
        BY <1>3, <3>2 DEF Whole, Writes, Confirmed, Unconfirmed, Needs, ProductTools,
           CartTools, OrderTools
      <4>2. QED
        BY <1>1, <2>2, <4>1, MessageShape DEF Fits
    <3>3. QED
      BY <3>1, <3>2
  <2>5. QED
    BY <1>3, <2>2, <2>3, <2>4 DEF Bare, Writes, Confirmed, Unconfirmed
<1>4. Counted
  BY DEF CallTool, Calling
<1>5. pc' \in {"save", "model"} /\ (last'.outcome = "unknown" => pc' = "save")
  BY <1>1, <1>4 DEF Counted
<1>6. QED
  BY <1>1, <1>2, <1>3, <1>5, Called DEF CallTool, Calling

LEMMA StepKept == TurnInvariant /\ TurnStep => TurnInvariant'
<1> SUFFICES ASSUME TurnInvariant, TurnStep PROVE TurnInvariant'
  OBVIOUS
<1>0. /\ ops \in [Tokens -> {"none", "prepared", "gone"}] /\ view \in State /\ msg \in Message
      /\ Course /\ pending \in Tokens \cup {0} /\ holding \in Tokens \cup {0}
      /\ msg = said \/ pc = "save" \/ (pc = "route" /\ Answer)
      /\ Nothing \in Ids /\ Things \subseteq Ids
  BY DEF TurnInvariant, TypeOK, Ids, Course
<1>1. CASE Refuse
  <2>1. saved' \in {saved, view, Blank} /\ pending' \in {pending, holding, 0}
    BY <1>1 DEF Refuse
  <2>2. QED
    BY <1>1, <2>1, Ended DEF Refuse, AtStep
<1>2. CASE Abandon
  <2>1. /\ ops' \in [Tokens -> {"none", "prepared", "gone"}]
        /\ \A t \in Tokens : ops'[t] = "none" <=> ops[t] = "none"
    BY <1>0, <1>2 DEF Abandon
  <2>2. QED
    BY <1>0, <1>2, <2>1, Moved DEF Abandon, Turning, AtStep
<1>3. CASE Take
  <2>1. /\ ops' \in [Tokens -> {"none", "prepared", "gone"}]
        /\ \A t \in Tokens : ops'[t] = "none" <=> ops[t] = "none"
    BY <1>0, <1>3 DEF Take
  <2>2. holding' \in {holding, 0} /\ view' = view /\ pc' \in {"taken", "save"}
    BY <1>3 DEF Take, Turning
  <2>3. QED
    BY <1>0, <1>3, <2>1, <2>2, Moved DEF Take, Turning, AtStep
<1>4. CASE Executed
  BY <1>0, <1>4, Moved DEF Executed, Turning, AtStep
<1>5. CASE NothingPending
  BY <1>5, UnsavedKept DEF NothingPending, AtStep
<1>6. CASE Complete
  BY <1>6, CompleteKept
<1>7. CASE AskQuantity
  <2>1. PICK line \in {ResolveCart(view, msg)} \cup {n \in {Nothing} : msg.by = "it"} :
           view' = [view EXCEPT !.asked = TRUE, !.clar = line]
    BY <1>7 DEF AskQuantity
  <2>2. view' \in State
    BY <1>0, <2>1, Recorded, LineFound
  <2>3. QED
    BY <1>0, <1>7, <2>2, Moved DEF AskQuantity, Turning, AtStep, Routed
<1>8. CASE WhichProduct
  BY <1>8, UnsavedKept DEF WhichProduct, Routed, AtStep
<1>9. CASE DirectCancel
  BY <1>9, DirectKept DEF DirectCancel, Routed, AtStep, Tools, OrderTools
<1>10. CASE DirectClear
  BY <1>10, WholeKept DEF DirectClear, Routed, AtStep, Tools, Whole, Needs, ProductTools,
     CartTools, OrderTools
<1>11. CASE DirectAdd
  BY <1>11, DirectKept DEF DirectAdd, Routed, AtStep, Tools, ProductTools
<1>12. CASE DirectUpdate
  BY <1>12, DirectKept DEF DirectUpdate, Routed, AtStep, Tools, CartTools
<1>13. CASE FetchCart
  <2>1. /\ pc = "route" /\ msg.mood # "denies" /\ msg.ask \notin {"create_order", "add_to_cart"}
        /\ msg = said
    BY <1>13 DEF FetchCart, Routed, AtStep
  <2>2. CASE Unsaved
    BY <2>1, <2>2, UnsavedKept
  <2>3. ASSUME NEW R \in SUBSET Things, view' = RecordCart(view, R), UNCHANGED <<holding, ops>>,
               Turning("fetched")
        PROVE  TurnInvariant'
    <3>1. view' \in State
      BY <1>0, <2>3, Recorded
    <3>2. QED
      BY <1>0, <2>1, <2>3, <3>1, Moved DEF Turning
  <2>4. QED
    BY <1>13, <2>2, <2>3 DEF FetchCart
<1>14. CASE NoLine
  BY <1>0, <1>14, Moved DEF NoLine, Turning, AtStep
<1>15. CASE BadQuantity
  BY <1>15, UnsavedKept DEF BadQuantity, Routed, AtStep
<1>16. CASE FetchedCall
  <2>1. pc = "fetched" /\ msg.mood # "denies"
    BY <1>0, <1>16 DEF FetchedCall, AtStep, Course
  <2>2. CASE msg.ask \in CartTools /\ Target # Nothing /\ Call(msg.ask, Target, "save")
    BY <2>1, <2>2, DirectKept DEF Tools
  <2>3. CASE msg.ask = "update_cart_items" /\ Call(msg.ask, Nothing, "save")
    BY <2>1, <2>3, WholeKept DEF Tools, Whole, Needs, ProductTools, CartTools, OrderTools
  <2>4. QED
    BY <1>16, <2>2, <2>3 DEF FetchedCall
<1>17. CASE ToModel
  <2>1. msg.ask = "add_to_cart" /\ msg.by = "it" => msg.mood # "asks"
    BY <1>17 DEF ToModel, Lists, Talk
  <2>2. msg = said
    BY <1>0, <1>17 DEF ToModel, Answer, AtStep, Lists, Talk
  <2>3. QED
    BY <1>0, <1>17, <2>1, <2>2, Moved DEF ToModel, Turning, AtStep
<1>18. CASE Answered
  BY <1>18, AnsweredKept
<1>19. CASE CallRefused
  <2>1. Fails("none", Nothing) /\ Calling /\ pc = "model" /\ Counted
    BY <1>19 DEF CallRefused, Calling, AtStep
  <2>2. pc' \in {"save", "model"} /\ (last'.outcome = "unknown" => pc' = "save")
    BY <2>1 DEF Counted
  <2>3. "none" \notin Writes /\ ~Needs("none")
    BY DEF Writes, Confirmed, Unconfirmed, Needs, ProductTools, CartTools, OrderTools
  <2>4. QED
    BY <1>0, <2>1, <2>2, <2>3, Called DEF Calling, Execute
<1>20. ASSUME NEW tool \in Tools, NEW to \in Things \cup {Nothing}, CallTool(tool, to)
       PROVE  TurnInvariant'
  BY <1>20, CallToolKept DEF Ids
<1>21. CASE DemoCall
  <2>1. ASSUME NEW ask \in {"search_knowledge_base", "clear_cart", "get_cart", "get_my_orders",
                            "search_products"},
               DemoRouted(ask), Call(ask, Nothing, "save")
        PROVE  TurnInvariant'
    BY <2>1, WholeKept DEF DemoRouted, Routed, AtStep, Tools, Lists, Whole, Needs, ProductTools,
       CartTools, OrderTools, Writes, Confirmed, Unconfirmed
  <2>2. ASSUME NEW ask \in ProductTools \cup OrderTools, DemoRouted(ask), Target # Nothing,
               Call(ask, Target, "save")
        PROVE  TurnInvariant'
    BY <2>2, DirectKept DEF DemoRouted, Routed, AtStep, Tools
  <2>3. ASSUME NEW list \in {"get_my_orders", "search_products"}, pc = "route",
               Call(list, Nothing, "save")
        PROVE  TurnInvariant'
    BY <2>3, WholeKept DEF Tools, Lists, Needs, ProductTools, CartTools, OrderTools, Writes,
       Confirmed, Unconfirmed
  <2>4. QED
    BY <1>21, <2>1, <2>2, <2>3 DEF DemoCall, DemoRouted, Routed, AtStep
<1>22. CASE DemoSearch
  <2>1. PICK v \in After(view, "search_products", Nothing) :
           LET found == msg.by = "name" /\ ResolveProduct(v, msg) # Nothing IN
           /\ view' = IF found THEN RecordProduct(v, ResolveProduct(v, msg)) ELSE v
           /\ Turning(IF found THEN "fetched" ELSE "save")
    BY <1>22 DEF DemoSearch
  <2>2. v \in State
    BY <1>0, Afterwards DEF Needs, ProductTools, CartTools, OrderTools
  <2>3. pc' \in {"fetched", "save"} /\ (pc' = "fetched" => msg.by = "name")
    BY <2>1 DEF Turning
  <2>4. /\ pc = "route" /\ msg.mood # "denies" /\ UNCHANGED <<holding, ops>>
        /\ msg.ask \in {"create_order", "add_to_cart"} /\ msg = said
    BY <1>0, <1>22 DEF DemoSearch, DemoRouted, Routed, AtStep, Answer
  <2>5. CASE msg.by = "name" /\ ResolveProduct(v, msg) # Nothing
    <3> DEFINE r == ResolveProduct(v, msg)
    <3>1. r \in Things /\ Means(msg.to, r, KnownProducts(v))
      BY <1>0, <2>2, <2>5, ProductFound DEF Ids
    <3>2. view' = RecordProduct(v, r) /\ view' \in State
      BY <2>1, <2>2, <2>5, <3>1, Recorded
    <3>3. view'.product = r /\ view'.shown = v.shown \cup {r} /\ view'.items = v.items
      BY <2>2, <3>2 DEF RecordProduct, State
    <3>4. KnownProducts(view') \subseteq KnownProducts(v) \cup {r}
      BY <3>3 DEF KnownProducts
    <3>5. Means(msg.to, view'.product, KnownProducts(view'))
      BY <3>1, <3>3, <3>4, MeansKept
    <3>6. QED
      BY <1>0, <2>1, <2>3, <2>4, <3>1, <3>2, <3>3, <3>5, Moved DEF Turning
  <2>6. CASE ~(msg.by = "name" /\ ResolveProduct(v, msg) # Nothing)
    BY <1>0, <2>1, <2>2, <2>4, <2>6, Moved DEF Turning
  <2>7. QED
    BY <2>5, <2>6
<1>23. CASE DemoFound
  <2>1. /\ pc = "fetched" /\ msg.ask \in {"create_order", "add_to_cart"} /\ msg = said
        /\ msg.mood # "denies" /\ msg.by = "name" /\ view.product \in Things
        /\ Means(msg.to, view.product, KnownProducts(view))
    BY <1>0, <1>23 DEF DemoFound, AtStep, Course
  <2>2. msg.ask \in Tools /\ Call(msg.ask, view.product, "save")
    BY <1>23 DEF DemoFound, Tools, ProductTools
  <2>3. Fits(view, msg, msg.ask, view.product) /\ ~Bare(msg)
    BY <2>1 DEF Fits, MeansFor, Bare, ProductTools, OrderTools
  <2>4. QED
    BY <1>0, <2>1, <2>2, <2>3, Called DEF Call
<1>24. CASE DemoAnswer
  BY <1>0, <1>24, Moved DEF DemoAnswer, Turning, AtStep
<1>25. CASE DemoFollowUp
  <2>1. PICK outcome \in {"success", "error"} : Record("get_order_detail", view.order, outcome)
    BY <1>25 DEF DemoFollowUp
  <2>2. last' = [tool |-> "none", to |-> Nothing, outcome |-> outcome]
    BY <2>1 DEF Record, Writes, Confirmed, Unconfirmed
  <2>3. UNCHANGED <<convers, msg, said, view, holding, meant, offer>> /\ pc = "route"
        /\ pc' = "save"
    BY <1>25 DEF DemoFollowUp, DemoRouted, Routed, AtStep
  <2>4. Journal'
    BY <2>3, JournalKept DEF TurnInvariant, convers
  <2>5. last' \in Records
    BY <2>2 DEF Records, Ids
  <2>6. TypeOK'
    BY <2>3, <2>5 DEF TurnInvariant, TypeOK, convers, Tokens, Records, Ids
  <2>7. Course' /\ WritesAsked'
    BY <2>2, <2>3 DEF Course, WritesAsked, Wrote, Writes, Confirmed, Unconfirmed
  <2>8. QED
    BY <2>4, <2>6, <2>7 DEF TurnInvariant
<1>26. CASE Save
  BY <1>26, SaveKept
<1>27. CASE Deliver
  BY <1>27, DeliverKept
<1>28. CASE Lose
  BY <1>28, Ended DEF Lose, AtStep, convers
<1>29. CASE Abort
  <2>1. saved' \in {saved, view, Blank} /\ pending' \in {pending, holding, 0}
    BY <1>29 DEF Abort, Leave
  <2>2. QED
    BY <1>29, <2>1, Ended DEF Abort
<1>30. QED
  BY <1>1, <1>2, <1>3, <1>4, <1>5, <1>6, <1>7, <1>8, <1>9, <1>10, <1>11, <1>12, <1>13, <1>14, <1>15,
     <1>16, <1>17, <1>18, <1>19, <1>20, <1>21, <1>22, <1>23, <1>24, <1>25, <1>26,
     <1>27, <1>28, <1>29 DEF TurnStep

LEMMA NextTurn == TurnInvariant /\ [Next]_vars => TurnInvariant'
<1> SUFFICES ASSUME TurnInvariant, [Next]_vars PROVE TurnInvariant'
  OBVIOUS
<1>1. ASSUME NEW m \in Message, Say(m) PROVE TurnInvariant'
  BY <1>1, SayKept
<1>2. CASE TurnStep
  BY <1>2, StepKept
<1>3. ops \in [Tokens -> {"none", "prepared", "gone"}]
  BY DEF TurnInvariant, TypeOK
<1>4. ASSUME NEW t \in Tokens, Press(t) PROVE TurnInvariant'
  BY <1>3, <1>4, IdleKept DEF Press
<1>5. ASSUME NEW t \in Tokens, Expire(t) PROVE TurnInvariant'
  BY <1>3, <1>5, IdleKept DEF Expire
<1>6. CASE Forget
  BY <1>3, <1>6, IdleKept DEF Forget
<1>7. CASE ClearConversation
  BY <1>3, <1>7, IdleKept DEF ClearConversation
<1>8. CASE UNCHANGED vars
  BY <1>8 DEF vars, convers, turn, TurnInvariant, TypeOK, Tokens, Journal, Newest, Live,
     Course, Answer, Fits, MeansFor, KnownProducts, Bare, WritesAsked, Wrote
<1>9. QED
  BY <1>1, <1>2, <1>4, <1>5, <1>6, <1>7, <1>8 DEF Next

LEMMA UnsavedOnly == ASSUME Unsaved PROVE pc' # "taken"
<1>1. CASE mode = "live"
  BY <1>1 DEF Unsaved, EndTurn
<1>2. CASE mode # "live"
  BY <1>2 DEF Unsaved
<1>3. QED
  BY <1>1, <1>2

\* Only Take begins an execution, and what was left to be saved is saved or lost.
LEMMA Otherwise ==
    ASSUME TurnStep, ~Take, ~Save, ~Abort
    PROVE  pc # "save" /\ pc' # "taken"
<1> DEFINE Other == pc # "save" /\ pc' # "taken"
<1> USE DEF AtStep, Turning, Routed, DemoRouted, Call
<1>1. Refuse \/ Lose \/ Deliver => Other
  BY DEF Refuse, Lose, Deliver, EndTurn
<1>2. Abandon \/ Executed \/ AskQuantity \/ NoLine \/ ToModel \/ DemoAnswer => Other
  BY DEF Abandon, Executed, AskQuantity, NoLine, ToModel, DemoAnswer
<1>3. NothingPending \/ WhichProduct \/ BadQuantity => Other
  BY UnsavedOnly DEF NothingPending, WhichProduct, BadQuantity
<1>4. FetchCart => Other
  BY UnsavedOnly DEF FetchCart
<1>5. Complete \/ Answered => Other
  BY DEF Complete, Answered
<1>6. DirectCancel \/ DirectClear \/ DirectAdd \/ DirectUpdate \/ FetchedCall => Other
  BY DEF DirectCancel, DirectClear, DirectAdd, DirectUpdate, FetchedCall
<1>7. Calling => Other
  BY DEF Calling, Counted
<1>8. CallRefused => Other
  BY <1>7 DEF CallRefused
<1>9. ASSUME NEW tool \in Tools, NEW to \in Things \cup {Nothing}, CallTool(tool, to) PROVE Other
  BY <1>7, <1>9 DEF CallTool
<1>10. DemoCall => Other
  BY DEF DemoCall
<1>11. DemoFound \/ DemoFollowUp => Other
  BY DEF DemoFound, DemoFollowUp
<1>12. DemoSearch => Other
  <2> SUFFICES ASSUME DemoSearch PROVE Other
    OBVIOUS
  <2>1. PICK v \in After(view, "search_products", Nothing) :
           Turning(IF msg.by = "name" /\ ResolveProduct(v, msg) # Nothing THEN "fetched" ELSE "save")
    BY DEF DemoSearch
  <2>2. pc = "route"
    BY DEF DemoSearch
  <2>3. QED
    BY <2>1, <2>2
<1>13. QED
  BY <1>1, <1>2, <1>3, <1>4, <1>5, <1>6, <1>8, <1>9, <1>10, <1>11, <1>12 DEF TurnStep

\* Nor does anything between two turns.
LEMMA Between ==
    ASSUME [Next]_vars, ~TurnStep
    PROVE  UNCHANGED last /\ (pc' = pc \/ (pc = "idle" /\ pc' = "start"))
BY DEF Next, vars, turn, Say, Press, Expire, Forget, ClearConversation, Idle, AtStep

LEMMA AlwaysTurn == Spec => []TurnInvariant
BY InitTurn, NextTurn, PTL DEF Spec

-----------------------------------------------------------------------------
\* The state of a conversation, its confirmations and the turn keep their
\* types, for any products, orders and number of confirmations.
THEOREM TurnTypes == Spec => []TypeOK
<1>1. TurnInvariant => TypeOK
  BY DEF TurnInvariant
<1>2. QED
  BY <1>1, AlwaysTurn, PTL

\* Whatever the model calls in however many rounds, a write that is carried out
\* or offered is asked for by the user's words, or answers the question the
\* service had asked, and it is on the object that the words name: on another of
\* a similar name only when the named one is unknown.
THEOREM WritesAreAsked == Spec => []WritesAsked
<1>1. TurnInvariant => WritesAsked
  BY DEF TurnInvariant
<1>2. QED
  BY <1>1, AlwaysTurn, PTL

\* After a write whose outcome is unknown the turn calls no further tool,
\* whatever the rest of the model's response asks for.
THEOREM UnknownIsLast == Spec => UnknownEndsTurn
<1>1. TurnInvariant /\ [Next]_vars => (last.outcome = "unknown" => last' \in {last, NoCall})
  <2> SUFFICES ASSUME TurnInvariant, [Next]_vars, last.outcome = "unknown"
               PROVE  last' \in {last, NoCall}
    OBVIOUS
  <2>1. pc = "save"
    BY DEF TurnInvariant, Course
  <2>2. CASE TurnStep
    BY <2>1, <2>2, Otherwise DEF Take, AtStep, Save, Reset, Abort, EndTurn
  <2>3. CASE ~TurnStep
    BY <2>3, Between
  <2>4. QED
    BY <2>2, <2>3
<1>2. QED
  BY <1>1, AlwaysTurn, PTL DEF Spec, UnknownEndsTurn

\* Replies may be lost and turns aborted: typing "confirm" never executes an
\* operation older than one that was displayed since.
THEOREM TypedIsNewest == Spec => TypedNewest
<1>1. TurnInvariant /\ [Next]_vars => (pc # "taken" /\ pc' = "taken" => \A t \in cards : t <= holding)
  <2> SUFFICES ASSUME TurnInvariant, [Next]_vars, pc # "taken", pc' = "taken"
               PROVE  \A t \in cards : t <= holding
    OBVIOUS
  <2>1. Take
    BY Otherwise, Between DEF Save, Abort, EndTurn
  <2>2. QED
    BY <2>1 DEF Take, TurnInvariant, Journal, Newest
<1>2. QED
  BY <1>1, AlwaysTurn, PTL DEF Spec, TypedNewest
=============================================================================
