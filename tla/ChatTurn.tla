------------------------------ MODULE ChatTurn ------------------------------
(***************************************************************************)
(* The turns of one conversation: AgentService.chat with a language model  *)
(* that may call any tool with any arguments (agent.py), DemoAgentService  *)
(* without one (demo_agent.py), the conversation state they resolve        *)
(* references with (conversation_state.py), and the tools as the registry  *)
(* runs them (tools/registry.py).                                          *)
(*                                                                         *)
(* A message is what the code's word lists make of it: the tool whose      *)
(* words it contains, how it names its object, and its mood.  The session  *)
(* lock makes turns sequential; a turn can be cut short at every await.    *)
(***************************************************************************)
EXTENDS Naturals, FiniteSets

CONSTANTS
    Things,      \* ids: of products, of their cart lines, and of orders
    Nothing,     \* no id
    Alike,       \* pairs <<x, y>>: a message that names x has a word of the name of y
    MaxOps       \* bound on the confirmations issued, for each subject

VARIABLES
    about, aliased,   \* rigid: subject of the conversation; local state store?
    mode,             \* rigid: live or demo (runtime_config.force_demo)
    saved, pending,   \* the stored conversation state, its pending confirmation
    ops, cards,       \* what became of each confirmation; those displayed
    pc, msg, view, holding,      \* the turn: its message and its own state
    said,                        \* the message as the user wrote it
    meant,                       \* what the message referred to when the turn began
    last, offer                  \* last record, confirmation to display

convers == <<about, aliased, mode, saved, pending, ops, cards>>
turn == <<pc, msg, view, holding, said, meant, last, offer>>
vars == <<convers, turn>>

Tokens == 1..MaxOps[about]
ProductTools == {"get_product_detail", "add_to_cart", "create_order"}
CartTools    == {"update_cart", "remove_from_cart"}
OrderTools   == {"get_order_detail", "cancel_order", "pay_order"}
Lists        == {"search_products", "get_my_orders", "get_cart", "search_knowledge_base"}
Whole        == {"clear_cart", "update_cart_items"}
Tools        == ProductTools \cup CartTools \cup OrderTools \cup Lists \cup Whole
Confirmed    == {"clear_cart", "create_order", "pay_order", "cancel_order"}
Unconfirmed  == {"add_to_cart", "update_cart", "update_cart_items", "remove_from_cart"}
Writes       == Confirmed \cup Unconfirmed

Subjects == [
    buying  |-> {"search_products", "get_product_detail", "create_order", "clear_cart"},
    adding  |-> {"search_products", "get_cart", "add_to_cart", "vague"},
    cart    |-> {"get_cart", "update_cart", "remove_from_cart", "clear_cart",
                 "update_cart_items", "vague", "quantity"},
    order   |-> {"get_my_orders", "get_order_detail", "cancel_order", "pay_order",
                 "search_knowledge_base"}]
ASSUME TurnAssumption ==
    /\ Nothing \notin Things
    /\ Alike \subseteq Things \X Things
    /\ MaxOps \in [DOMAIN Subjects -> Nat]

Talk == {"confirm", "abandon", "chat", "refund"}

\* "vague" wants a cart line changed and says no quantity, or only a difference;
\* "quantity" is a number, by itself or with a cart line.  A message asks for
\* something, denies that it wants it, or asks about it.
Doubted == {"add_to_cart", "create_order", "update_cart", "remove_from_cart", "cancel_order"}
Objects == ProductTools \cup CartTools \cup OrderTools \cup {"vague", "quantity"}
Message ==
    [ask : Lists \cup Talk \cup Whole \cup {"quantity"}, by : {"none"}, to : {Nothing},
     mood : {"asks"}]
    \cup [ask : Objects, by : {"id", "name"}, to : Things, mood : {"asks"}]
    \cup [ask : Objects, by : {"it"}, to : {Nothing}, mood : {"asks"}]
    \cup [ask : Doubted, by : {"it"}, to : {Nothing}, mood : {"denies", "consults"}]
    \cup [ask : {"update_cart"}, by : {"id", "name"}, to : Things, mood : {"denies", "consults"}]
NoMessage == [ask |-> "chat", by |-> "none", to |-> Nothing, mood |-> "asks"]
NoCall == [tool |-> "none", to |-> Nothing, outcome |-> "none"]

State == [topic : {"other", "product", "order"},
          product : Things \cup {Nothing}, many : BOOLEAN, shown : SUBSET Things,
          order : Things \cup {Nothing}, picked : BOOLEAN,
          items : SUBSET Things,
          asked : BOOLEAN, clar : Things \cup {Nothing}]
Blank == [topic |-> "other", product |-> Nothing, many |-> FALSE, shown |-> {},
          order |-> Nothing, picked |-> FALSE,
          items |-> {}, asked |-> FALSE, clar |-> Nothing]

TypeOK ==
    /\ about \in DOMAIN Subjects /\ aliased \in BOOLEAN /\ mode \in {"live", "demo"}
    /\ saved \in State /\ view \in State
    /\ {pending, holding, offer} \subseteq Tokens \cup {0}
    /\ ops \in [Tokens -> {"none", "prepared", "gone"}]
    /\ cards \subseteq Tokens
    /\ pc \in {"idle", "start", "taken", "route", "fetched", "model", "save", "reply"}
    /\ {msg, said} \subseteq Message /\ meant \in Things \cup {Nothing}
    /\ last \in [tool : Tools \cup {"none"}, to : Things \cup {Nothing},
                 outcome : {"none", "success", "error", "offer", "unknown"}]

Init ==
    /\ about \in DOMAIN Subjects /\ aliased \in BOOLEAN /\ mode \in {"live", "demo"}
    /\ saved = Blank /\ pending = 0
    /\ ops = [t \in Tokens |-> "none"] /\ cards = {}
    /\ pc = "idle" /\ msg = NoMessage /\ view = Blank /\ holding = 0
    /\ said = NoMessage /\ meant = Nothing
    /\ last = NoCall /\ offer = 0

-----------------------------------------------------------------------------
(* References: what a message means in a conversation state                 *)

Similar(name, candidates) == {t \in candidates : <<name, t>> \in Alike}

\* match_named_entity: the candidate of that name; failing it, the only one
\* that shares a word with it (a quoted name shares none).  No name holds another.
Named(name, candidates) ==
    IF name \in candidates THEN name
    ELSE IF Cardinality(Similar(name, candidates)) = 1
         THEN CHOOSE t \in Similar(name, candidates) : TRUE
         ELSE Nothing

KnownProducts(v) == (v.shown \cup v.items \cup {v.product}) \ {Nothing}

ResolveProduct(v, m) ==
    CASE m.by = "id"   -> m.to
      [] m.by = "name" -> Named(m.to, KnownProducts(v))
      [] m.by = "it"   -> IF v.many THEN Nothing ELSE v.product
      [] OTHER         -> Nothing

\* Mutant of ResolveCart: the lines that match are returned, not the one line.
MatchingLines(v, m) == IF m.by = "it" THEN v.items ELSE v.items \cap {m.to}

ResolveCart(v, m) ==
    CASE m.by = "id"   -> m.to
      [] m.by = "name" -> Named(m.to, v.items)
      [] m.by = "it" /\ Cardinality(v.items) = 1 -> CHOOSE t \in v.items : TRUE
      [] OTHER         -> Nothing

ResolveOrder(v, m) ==
    CASE m.by = "id"   -> m.to
      [] m.by = "name" -> IF m.to = v.order THEN m.to ELSE Nothing
      [] m.by = "it" /\ v.topic = "order" /\ v.picked -> v.order
      [] OTHER         -> Nothing

\* A number names an object of the message's own kind, a product's name also
\* its cart line, and a pronoun may stand for anything.
Kinds == {ProductTools, CartTools \cup {"vague", "quantity"}, OrderTools}
SameKind(m, tool) ==
    \/ \E kind \in Kinds : {m.ask, tool} \subseteq kind
    \/ m.by = "name" /\ {m.ask, tool} \cap OrderTools = {}
    \/ m.by = "it"
Resolve(v, m, tool) ==
    IF ~SameKind(m, tool) THEN Nothing
    ELSE IF tool \in ProductTools THEN ResolveProduct(v, m)
    ELSE IF tool \in CartTools \cup {"vague", "quantity"} THEN ResolveCart(v, m)
    ELSE ResolveOrder(v, m)
Needs(tool) == tool \in ProductTools \cup CartTools \cup OrderTools

(* What a successful call can leave in the state *)
RecordProduct(v, t) == [v EXCEPT !.product = t, !.many = FALSE, !.shown = @ \cup {t},
                                 !.topic = "product"]
RecordOrder(v, t, sure) == [v EXCEPT !.order = t, !.picked = sure, !.topic = "order"]
RecordCart(v, R) == [v EXCEPT !.items = R, !.topic = "other"]
\* The demo agent's search records ids only: the names shown stay the old ones.
RecordSearch(v, R, t) ==
    LET shown == IF mode = "live" THEN R ELSE v.shown IN
    [v EXCEPT !.product = t, !.shown = shown, !.topic = "product",
              !.many = Cardinality(R) > 1 \/ Cardinality(shown) > 1]
First(R) == IF R = {} THEN {Nothing} ELSE R

After(v, tool, to) ==
    CASE tool = "search_products" ->
            UNION {{RecordSearch(v, R, t) : t \in First(R)} : R \in SUBSET Things}
      [] tool = "get_product_detail" -> {RecordProduct(v, to)}
      [] tool = "get_my_orders" ->
            UNION {{RecordOrder(v, t, Cardinality(R) = 1) : t \in First(R)} : R \in SUBSET Things}
      [] tool = "get_order_detail" -> {RecordOrder(v, to, TRUE)}
      [] tool = "get_cart" -> {RecordCart(v, R) : R \in SUBSET Things}
      [] tool = "add_to_cart" ->      \* the snapshot may be missing
            {RecordCart(RecordProduct(v, to), R) :
                R \in IF mode = "demo" /\ ~aliased THEN {v.items} ELSE {v.items, v.items \cup {to}}}
      [] tool = "search_knowledge_base" -> {[v EXCEPT !.topic = "other"]}
      [] tool = "update_cart" -> {RecordCart(v, R) : R \in {v.items, v.items \cup {to}}}
      [] tool = "remove_from_cart" -> {RecordCart(v, v.items \ {to})}
      [] OTHER -> {RecordCart(v, v.items)}

\* What the demo agent notes before it knows the outcome of the call.
Noted(v, tool) ==
    IF mode = "live" THEN v
    ELSE IF tool \in {"clear_cart", "get_cart"} THEN RecordCart(v, v.items)
    ELSE IF tool = "search_knowledge_base" THEN [v EXCEPT !.topic = "other"] ELSE v

-----------------------------------------------------------------------------
(* One tool call: ToolRegistry.execute and what the agent keeps of it       *)

\* The record of a call, without what nothing later looks at.
Record(tool, to, outcome) ==
    last' = [tool |-> IF outcome # "error" /\ tool \in Writes THEN tool ELSE "none",
             to |-> IF outcome = "error" \/ tool \notin Writes THEN Nothing ELSE to,
             outcome |-> outcome]
Unissued == {t \in Tokens : ops[t] = "none"}

Fails(tool, to) ==
    /\ Record(tool, to, "error")
    /\ view' = Noted(view, tool)
    /\ UNCHANGED <<holding, ops, offer>>

\* What the user wrote decides, not what the turn made of it: a question or a
\* quoted order changes nothing, whoever asks for the tool.
Succeeds(tool, to) ==
    /\ tool \notin Confirmed
    /\ tool \in Writes => said.mood # "consults"
    /\ view' \in After(view, tool, to)
    /\ Record(tool, to, "success")
    /\ UNCHANGED <<holding, ops, offer>>

\* A write without confirmation whose receipt is lost and cannot be verified.
Unclear(tool, to) ==
    /\ tool \in Unconfirmed /\ said.mood # "consults"
    /\ Record(tool, to, "unknown")
    /\ offer' = 0     \* the reply that ends the turn leaves a confirmation out
    /\ UNCHANGED <<view, holding, ops>>

\* Mutant of Remember: an operation already pending is not replaced.
RememberFirst(t) == IF holding = 0 THEN t ELSE holding

\* Only the live agent remembers what a typed confirmation is about.
Remember(t) == IF mode = "live" THEN t ELSE holding

Offers(tool, to) ==
    /\ tool \in Confirmed /\ said.mood # "consults"
    /\ Unissued # {}
    /\ LET t == CHOOSE u \in Unissued : \A w \in Unissued : u <= w IN
         /\ ops' = [ops EXCEPT ![t] = "prepared"]
         /\ holding' = Remember(t)
         /\ offer' = t
    /\ view' = IF mode = "demo" /\ tool = "cancel_order" THEN RecordOrder(view, to, TRUE)
               ELSE Noted(view, tool)
    /\ Record(tool, to, "offer")

Execute(tool, to) ==
    Fails(tool, to) \/ Succeeds(tool, to) \/ Unclear(tool, to) \/ Offers(tool, to)

-----------------------------------------------------------------------------
(* The frame of a turn                                                      *)

AtStep(step) == pc = step
Live == mode = "live"

Reset ==
    /\ msg' = NoMessage /\ said' = NoMessage /\ view' = Blank /\ holding' = 0
    /\ meant' = Nothing
    /\ last' = NoCall
EndTurn == pc' = "idle" /\ offer' = 0 /\ Reset

\* The local store hands out the object itself, which the turn then works on:
\* what it changed stays without a save, unless the object is evicted meanwhile.
Leave ==
    IF aliased THEN \/ saved' = view /\ pending' = holding
                    \/ saved' = Blank /\ pending' = 0
    ELSE UNCHANGED <<saved, pending>>

\* A number and nothing else.
Bare(m) == m.ask = "quantity" /\ m.by = "none"

Say(m) ==
    /\ AtStep("idle")
    /\ m.ask \in Subjects[about] \cup Talk
    /\ pc' = "start" /\ msg' = m /\ said' = m /\ view' = saved /\ holding' = pending
    /\ meant' = IF m.ask = "add_to_cart" THEN ResolveProduct(saved, m)
                ELSE IF Bare(m) THEN saved.clar ELSE Nothing
    /\ IF aliased THEN saved' = Blank /\ pending' = 0 ELSE UNCHANGED <<saved, pending>>
    /\ UNCHANGED <<about, aliased, mode, ops, cards, last, offer>>

\* Answers the live agent returns without saving; the demo agent always saves.
Unsaved ==
    IF mode = "live" THEN Leave /\ EndTurn /\ UNCHANGED <<about, aliased, mode, ops, cards>>
    ELSE pc' = "save" /\ UNCHANGED <<convers, msg, said, view, holding, meant, last, offer>>

\* Refunds, and denied writes in the demo, are answered before the state is read.
Refuse ==
    /\ AtStep("start")
    /\ msg.ask = "refund" \/ (~Live /\ msg.mood = "denies")
    /\ saved' = IF aliased THEN view ELSE saved
    /\ pending' = IF aliased THEN holding ELSE pending
    /\ EndTurn
    /\ UNCHANGED <<about, aliased, mode, ops, cards>>

Save ==
    /\ AtStep("save")
    /\ saved' = view /\ pending' = holding
    /\ pc' = IF offer = 0 THEN "idle" ELSE "reply"
    /\ Reset
    /\ UNCHANGED <<about, aliased, mode, ops, cards, offer>>

\* The reply with its confirmation reaches the user; or approval_workflow
\* fails to start, or the client is gone.
Deliver ==
    /\ AtStep("reply")
    /\ cards' = cards \cup {offer}
    /\ EndTurn
    /\ UNCHANGED <<about, aliased, mode, saved, pending, ops>>

Lose ==
    /\ AtStep("reply")
    /\ EndTurn
    /\ UNCHANGED convers

\* The request budget, a failed model, the client leaving: nothing is saved.
Abort ==
    /\ pc \notin {"idle", "reply"}
    /\ Leave
    /\ EndTurn
    /\ UNCHANGED <<about, aliased, mode, ops, cards>>

-----------------------------------------------------------------------------
(* Typed confirmations                                                      *)

Turning(step) ==
    /\ pc' = step
    /\ UNCHANGED <<about, aliased, mode, saved, pending, cards, msg, said, meant, last, offer>>

Abandon ==
    /\ AtStep("start") /\ Live
    /\ msg.ask = "abandon" /\ holding # 0
    /\ ops' = [ops EXCEPT ![holding] = IF @ = "prepared" THEN "gone" ELSE @]
    /\ holding' = 0
    /\ UNCHANGED view /\ Turning("save")

Take ==
    /\ AtStep("start") /\ Live
    /\ msg.ask = "confirm" /\ holding # 0
    /\ IF ops[holding] = "prepared"
       THEN /\ ops' = [ops EXCEPT ![holding] = "gone"]
            /\ UNCHANGED <<view, holding>> /\ Turning("taken")
       ELSE /\ holding' = 0
            /\ UNCHANGED <<view, ops>> /\ Turning("save")

Executed ==
    /\ AtStep("taken")
    /\ holding' = 0
    /\ UNCHANGED <<view, ops>> /\ Turning("save")

NothingPending ==
    /\ AtStep("start") /\ Live
    /\ msg.ask = "confirm" /\ holding = 0
    /\ Unsaved

-----------------------------------------------------------------------------
(* From the message to a direct call                                        *)

\* The cart line that the answer to an open question is about.
AnswerLine(v, m) == IF Bare(m) THEN v.clar ELSE Resolve(v, m, "update_cart")

\* Messages that may hold a quantity and none of the words of another topic.
MayAnswer(m) ==
    \/ m.ask \in CartTools \cup {"quantity"}
    \/ m.ask \in {"vague", "add_to_cart", "get_product_detail"} /\ m.by # "it"

\* complete_cart_clarification: a quantity for a line that is clear answers the
\* open question, whatever else the message says; any message closes it.
Complete ==
    /\ AtStep("start")
    /\ msg.ask # "refund" /\ (Live \/ msg.mood # "denies")
    /\ Live => msg.ask # "confirm" /\ ~(msg.ask = "abandon" /\ holding # 0)
    /\ LET line == AnswerLine(view, msg)
           answers == view.asked /\ MayAnswer(msg) /\ line # Nothing IN
       \/ /\ answers
          /\ msg' = [ask |-> "update_cart", by |-> "id", to |-> line, mood |-> "asks"]
       \/ /\ ~answers \/ msg.ask # "quantity"
          /\ UNCHANGED msg
    /\ view' = [view EXCEPT !.asked = FALSE, !.clar = Nothing]
    /\ pc' = "route"
    /\ UNCHANGED <<convers, said, holding, meant, last, offer>>

Routed(ask) == AtStep("route") /\ msg.ask = ask /\ msg.mood # "denies"
Target == Resolve(view, msg, msg.ask)

\* cart_clarification_reply: a vague change, or one without a cart line.
AskQuantity ==
    /\ \/ Routed("vague")
       \/ Routed("update_cart") /\ Target = Nothing
       \/ AtStep("fetched") /\ msg.ask = "update_cart" /\ Target = Nothing
    /\ \E line \in {ResolveCart(view, msg)} \cup {n \in {Nothing} : msg.by = "it"} :
          view' = [view EXCEPT !.asked = TRUE, !.clar = line]
    /\ UNCHANGED <<holding, ops>> /\ Turning("save")

WhichProduct ==
    /\ Routed("add_to_cart") /\ msg.by = "it" /\ Target = Nothing /\ Live
    /\ Unsaved

Call(tool, to, step) ==
    /\ Execute(tool, to)
    /\ pc' = step
    /\ UNCHANGED <<about, aliased, mode, saved, pending, cards, msg, said, meant>>

DirectCancel == Routed("cancel_order") /\ Live /\ Target # Nothing /\ Call("cancel_order", Target, "save")
DirectClear  == Routed("clear_cart") /\ Live /\ Call("clear_cart", Nothing, "save")
DirectAdd    == Routed("add_to_cart") /\ Live /\ Target # Nothing /\ Call("add_to_cart", Target, "save")
DirectUpdate == Routed("update_cart") /\ Target # Nothing /\ Call("update_cart", Target, "save")

\* Removals, bulk changes and "one more" start from the cart as it is now.
FetchCart ==
    /\ \E ask \in {"remove_from_cart", "update_cart_items", "update_cart"} : Routed(ask)
    /\ msg = said     \* an answer says how many, not how many more
    /\ \/ /\ \E R \in SUBSET Things : view' = RecordCart(view, R)
          /\ UNCHANGED <<holding, ops>> /\ Turning("fetched")
       \/ /\ Unsaved

\* Nothing to do, or a quantity that cannot be: answered without a call.
NoLine ==
    /\ AtStep("fetched")
    /\ \/ msg.ask = "remove_from_cart" /\ Target = Nothing
       \/ msg.ask \in {"update_cart", "update_cart_items"} /\ view.items = {}
    /\ UNCHANGED <<view, holding, ops>> /\ Turning("save")

BadQuantity ==
    /\ \/ AtStep("fetched") /\ msg.ask \in {"update_cart", "update_cart_items"}
       \/ Routed("update_cart")
    /\ Unsaved

FetchedCall ==
    /\ AtStep("fetched")
    /\ \/ msg.ask \in CartTools /\ Target # Nothing /\ Call(msg.ask, Target, "save")
       \/ msg.ask = "update_cart_items" /\ view.items # {} /\ Call(msg.ask, Nothing, "save")

-----------------------------------------------------------------------------
(* The model loop: any number of rounds (max_tool_rounds), each with any     *)
(* number of calls; where one round ends makes no difference here, nor that *)
(* a round without a call may be repeated once (forced_tool_retry)          *)

\* What no direct path takes.  Some removals in question form count as such.
ToModel ==
    /\ AtStep("route") /\ Live
    /\ \/ msg.ask \in Lists \cup Talk \cup {"quantity", "get_product_detail", "get_order_detail",
                     "create_order", "pay_order"}
       \/ msg.mood = "denies"
       \/ msg.ask = "remove_from_cart" /\ msg.mood = "consults"
       \/ msg.ask \in {"cancel_order", "add_to_cart"} /\ msg.by # "it" /\ Target = Nothing
       \/ msg.ask = "cancel_order" /\ Target = Nothing
    /\ UNCHANGED <<view, holding, ops>> /\ Turning("model")

\* A response without a call, the last round, or a result that ends the turn.
Answered ==
    /\ AtStep("model") /\ pc' = "save"
    /\ msg' = NoMessage /\ said' = NoMessage /\ last' = NoCall
    /\ UNCHANGED <<convers, view, holding, meant, offer>>

\* The messages whose words let a tool through the guard.
Words(tool) ==
    CASE tool \in {"get_my_orders", "get_order_detail"} -> Subjects.order
      [] tool = "get_cart" -> Subjects.cart \cup Subjects.adding
      [] tool = "search_products" -> Subjects.buying \cup Subjects.adding
      [] tool = "get_product_detail" -> UNION {Subjects[s] : s \in DOMAIN Subjects}
      [] OTHER -> {tool}
RefersTo(topic) == msg.by = "it" /\ view.topic = topic

\* Mutant of Guarded: the arguments are not compared with the message.
GuardedByWords(tool, to) ==
    /\ tool \in Writes => msg.mood = "asks"
    /\ Needs(tool) => to # Nothing
    /\ msg.ask \in Words(tool)

\* _guard_tool_call: may the model call this tool with this object?
Guarded(tool, to) ==
    /\ tool \in Writes => msg.mood = "asks"
    /\ Needs(tool) => LET expected == Resolve(view, msg, tool) IN
                      expected # Nothing /\ to \in {Nothing, expected}
    /\ \/ msg.ask \in Words(tool)
       \/ tool = "get_order_detail" /\ RefersTo("order")
       \/ tool = "search_products" /\ RefersTo("product")

\* _check_missing_params and _infer_from_state; cart lines are not inferred.
Inferred(tool, to) ==
    IF to = Nothing /\ tool \in ProductTools \cup OrderTools THEN Resolve(view, msg, tool) ELSE to

\* Mutant of Counted: an unclear result counts as any other.
CountedOn == pc' = "model"

\* After a call: another, of the same response or of the next, or the end.
Counted == pc' = IF last'.outcome = "unknown" THEN "save" ELSE "model"

Calling ==
    /\ AtStep("model") /\ Counted
    /\ UNCHANGED <<about, aliased, mode, saved, pending, cards, msg, said, meant>>

\* A call of the model's response with arguments that are no JSON, that the
\* guard refuses, or without one that is needed: a result for the model too.
CallRefused == Fails("none", Nothing) /\ Calling

CallTool(tool, to) ==
    /\ Needs(tool) \/ to = Nothing
    /\ Guarded(tool, to) /\ (tool \in CartTools => to # Nothing)
    /\ Execute(tool, Inferred(tool, to))
    /\ Calling

-----------------------------------------------------------------------------
(* The demo agent's routes: one call, chosen by word lists                  *)

DemoRouted(ask) == Routed(ask) /\ ~Live

DemoCall ==
    \/ \E ask \in {"search_knowledge_base", "clear_cart", "get_cart", "get_my_orders",
                  "search_products"} : DemoRouted(ask) /\ Call(ask, Nothing, "save")
    \/ \E ask \in ProductTools \cup OrderTools :
          DemoRouted(ask) /\ Target # Nothing /\ Call(ask, Target, "save")
    \/ DemoRouted("get_order_detail") /\ Target = Nothing /\ Call("get_my_orders", Nothing, "save")
    \/ DemoRouted("get_product_detail") /\ Target = Nothing /\ Call("search_products", Nothing, "save")

\* An unknown product is searched for; only its name then counts as found.
DemoSearch ==
    /\ \E ask \in {"create_order", "add_to_cart"} : DemoRouted(ask) /\ Target = Nothing
    /\ \E v \in After(view, "search_products", Nothing) :
          LET found == msg.by = "name" /\ ResolveProduct(v, msg) # Nothing IN
          /\ view' = IF found THEN RecordProduct(v, ResolveProduct(v, msg)) ELSE v
          /\ Turning(IF found THEN "fetched" ELSE "save")
    /\ UNCHANGED <<holding, ops>>

DemoFound ==
    /\ AtStep("fetched") /\ msg.ask \in {"create_order", "add_to_cart"}
    /\ Call(msg.ask, view.product, "save")

\* Clarifications, help and small talk; a typed confirmation is small talk.
DemoAnswer ==
    /\ AtStep("route") /\ ~Live
    /\ \/ msg.ask \in Talk \cup {"quantity"}
       \/ msg.ask \in ProductTools \cup OrderTools /\ Target = Nothing
    /\ UNCHANGED <<view, holding, ops>> /\ Turning("save")

\* _handle_followup: "more of it", read from the last topic and not recorded.
DemoFollowUp ==
    /\ DemoRouted("chat") /\ view.topic = "order" /\ view.order # Nothing
    /\ \E outcome \in {"success", "error"} : Record("get_order_detail", view.order, outcome)
    /\ pc' = "save"
    /\ UNCHANGED <<convers, msg, said, view, holding, meant, offer>>

-----------------------------------------------------------------------------
(* Between two turns                                                        *)

Idle == AtStep("idle") /\ UNCHANGED <<about, aliased, mode, cards, turn>>

\* The button of a card that is on display, or its refusal (main.py, confirm_once).
Press(t) ==
    /\ Idle
    /\ t \in cards /\ ops[t] = "prepared"
    /\ ops' = [ops EXCEPT ![t] = "gone"]
    /\ pending' = IF pending = t THEN 0 ELSE pending
    /\ UNCHANGED saved

Expire(t) ==
    /\ Idle
    /\ ops[t] = "prepared"
    /\ ops' = [ops EXCEPT ![t] = "gone"]
    /\ UNCHANGED <<saved, pending>>

\* The stored state outlives its time to live, or is evicted.
Forget ==
    /\ Idle
    /\ saved' = Blank /\ pending' = 0
    /\ UNCHANGED ops

ClearConversation ==
    /\ Idle
    /\ saved' = Blank /\ pending' = 0
    /\ ops' = [t \in Tokens |-> IF ops[t] = "prepared" THEN "gone" ELSE ops[t]]

-----------------------------------------------------------------------------
TurnStep ==
    \/ Refuse \/ Abandon \/ Take \/ Executed \/ NothingPending \/ Complete
    \/ AskQuantity \/ WhichProduct \/ DirectCancel \/ DirectClear \/ DirectAdd \/ DirectUpdate
    \/ FetchCart \/ NoLine \/ BadQuantity \/ FetchedCall
    \/ ToModel \/ Answered \/ CallRefused
    \/ \E tool \in Tools, to \in Things \cup {Nothing} : CallTool(tool, to)
    \/ DemoCall \/ DemoSearch \/ DemoFound \/ DemoAnswer \/ DemoFollowUp
    \/ Save \/ Deliver \/ Lose \/ Abort

Next ==
    \/ \E m \in Message : Say(m)
    \/ TurnStep
    \/ \E t \in Tokens : Press(t) \/ Expire(t)
    \/ Forget \/ ClearConversation

Spec == Init /\ [][Next]_vars

-----------------------------------------------------------------------------
\* By a name is meant the thing of that name, and another only as long as that
\* one is unknown.  Order numbers have to be right.
Means(name, t, known) == t = name \/ (name \notin known /\ <<name, t>> \in Alike)
MeansFor(v, tool, name, t) ==
    IF tool \in OrderTools THEN t = name
    ELSE Means(name, t, IF tool \in ProductTools THEN KnownProducts(v) ELSE v.items)

Wrote == last.tool \in Writes /\ last.outcome \in {"success", "offer", "unknown"}

\* A write that is carried out or offered is the one the user's words of this
\* turn ask for, or an answer to the open question about the cart; never on a
\* mere question, and on the object that is named.  "Add it" adds what "it" meant
\* when the turn began and a number changes the line that was asked about,
\* whatever was called in between.
WritesAsked ==
    Wrote =>
        /\ \/ said.ask = last.tool /\ said.mood = "asks"
           \/ msg # said /\ last.tool = "update_cart" /\ said.mood # "consults"
        /\ said.by = "id" => last.to = said.to
        /\ said.by = "name" => MeansFor(view, last.tool, said.to, last.to)
        /\ (said.by = "it" /\ last.tool = "add_to_cart") \/ Bare(said) => last.to = meant

\* "Denials do not authorise a write in this turn" (prompts.py:34): the message
\* that denies a change is answered without one.
DenialsObeyed == said.mood = "denies" => ~Wrote

\* After a write whose outcome is unknown the turn calls no further tool.
UnknownEndsTurn == [][last.outcome = "unknown" => last' \in {last, NoCall}]_vars

\* A typed confirmation never executes an operation older than one that was
\* displayed since, whatever was lost, aborted or forgotten in between.
TypedNewest ==
    [][pc # "taken" /\ pc' = "taken" => \A t \in cards : t <= holding]_vars
=============================================================================
