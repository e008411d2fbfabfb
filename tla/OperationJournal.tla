-------------------------- MODULE OperationJournal --------------------------
(***************************************************************************)
(* Confirmed writes of the agent service: the operation journal            *)
(* (operation_store.py), the confirmation endpoints of main.py, the text   *)
(* confirmation of agent.py, and the business backend as they see it.      *)
(*                                                                         *)
(* All tokens belong to one user and conversation, so their requests share *)
(* one session lock.  A handler is a request in flight; every await of the *)
(* code that others can overtake is a step of its own.                     *)
(***************************************************************************)
EXTENDS Naturals

CONSTANTS
    Tokens,      \* confirmation tokens, each the key of one journal record
    Offered,     \* the kinds of writes on offer, a subset of Classes
    Handlers,    \* requests the service works on at the same time
    Exclusive,   \* does the session lock span every process (one process, or Redis)?
    Reconfigures,  \* may a restart find the read-only switch turned?
    Idle         \* token of a handler that serves no request

\* "create": create_order, found again by its intent key.  "order": pay and
\* cancel, judged by the state of their order.  "cart": judged by reading the
\* cart back at once.  "blind": clear_cart and refund, never judged.
Classes == {"create", "order", "cart", "blind"}
\* Only an order placed carries the key of its intent: other clients of the
\* account can bring about what the rest aim at.
Shared  == {"order", "cart", "blind"}

ASSUME JournalAssumption ==
    /\ Offered \subseteq Classes
    /\ Exclusive \in BOOLEAN
    /\ Reconfigures \in BOOLEAN
    /\ Idle \notin Tokens

VARIABLES
    journal,     \* status of each record
    expired,     \* has its confirmation time passed?
    waiting,     \* tokens a conversation state still holds as pending
    readOnly,    \* is the service configured read-only?
    recorded,    \* how often the memory notes the operation as verified
    told,        \* what the user was last told of each token
    pc, token, via, approved, snapshot,     \* the handlers
    request,     \* what became of the write request at the backend
    sends,       \* how many write requests were sent
    held,        \* has the state the write aims at ever held?
    class        \* the kind of write each token stands for; it never changes

service == <<journal, expired, waiting, readOnly, recorded, told>>
handler == <<pc, token, via, approved, snapshot>>
backend == <<request, sends, held, class>>
vars    == <<service, handler, backend>>

Statuses  == {"absent", "prepared", "accepted", "processing", "executed",
              "failed", "cancelled", "unknown", "deleted"}
Terminal  == {"executed", "failed", "cancelled"}
Unresolved == {"accepted", "processing", "unknown"}
\* "ignored": acknowledged as a success although the item stayed as it was.
Requests  == {"unsent", "sent", "applied", "refused", "ignored", "lost"}
Fates     == Requests \ {"unsent", "sent"}
\* "error": the words of an exception, which say nothing of the outcome.
Answers   == {"executed", "failed", "cancelled", "unknown", "abandoned", "error"}
NothingYet == "nothing"
Channels  == {"button", "text", "query"}
Steps     == {"idle", "lookup", "consume", "accept", "decide", "execute", "send",
              "receive", "verify", "readback", "record", "remember", "respond", "recover"}

TypeOK ==
    /\ journal \in [Tokens -> Statuses]
    /\ expired \in [Tokens -> BOOLEAN]
    /\ waiting \subseteq Tokens
    /\ readOnly \in BOOLEAN
    /\ recorded \in [Tokens -> Nat]
    /\ told \in [Tokens -> Answers \cup {NothingYet}]
    /\ pc \in [Handlers -> Steps]
    /\ token \in [Handlers -> Tokens \cup {Idle}]
    /\ via \in [Handlers -> Channels]
    /\ approved \in [Handlers -> BOOLEAN]
    /\ snapshot \in [Handlers -> Statuses]
    /\ request \in [Tokens -> Requests]
    /\ sends \in [Tokens -> Nat]
    /\ held \in [Tokens -> BOOLEAN]
    /\ class \in [Tokens -> Offered]

Init ==
    /\ journal = [t \in Tokens |-> "absent"]
    /\ expired = [t \in Tokens |-> FALSE]
    /\ waiting = {}
    /\ readOnly = FALSE
    /\ recorded = [t \in Tokens |-> 0]
    /\ told = [t \in Tokens |-> NothingYet]
    /\ pc = [h \in Handlers |-> "idle"]
    /\ token = [h \in Handlers |-> Idle]
    /\ via = [h \in Handlers |-> "query"]
    /\ approved = [h \in Handlers |-> FALSE]
    /\ snapshot = [h \in Handlers |-> "absent"]
    /\ request = [t \in Tokens |-> "unsent"]
    /\ sends = [t \in Tokens |-> 0]
    /\ held = [t \in Tokens |-> FALSE]
    /\ class \in [Tokens -> Offered]

-----------------------------------------------------------------------------
(* Helpers *)

\* Mutant of Transition: writes whatever the status is.
Overwrite(t, expected, status) ==
    journal' = IF expected # {} THEN [journal EXCEPT ![t] = status] ELSE journal

\* OperationStore.transition: compare-and-set of a record's status.
Transition(t, expected, status) ==
    journal' = IF journal[t] \in expected THEN [journal EXCEPT ![t] = status] ELSE journal

At(h, step)  == pc[h] = step
Goto(h, step) == pc' = [pc EXCEPT ![h] = step]

\* The handler answers and releases the session lock.
End(h) ==
    /\ pc' = [pc EXCEPT ![h] = "idle"]
    /\ token' = [token EXCEPT ![h] = Idle]
    /\ via' = [via EXCEPT ![h] = "query"]
    /\ approved' = [approved EXCEPT ![h] = FALSE]
    /\ snapshot' = [snapshot EXCEPT ![h] = "absent"]

Tell(t, answer) == told' = [told EXCEPT ![t] = answer]

\* The text path clears the pending confirmation when it answers; the button
\* cleared it before it resumed the approval.
ClearText(h) == waiting' = IF via[h] = "text" THEN waiting \ {token[h]} ELSE waiting

Working(t) == \E h \in Handlers : token[h] = t

\* SessionCoordinator.hold: 409 while another request of the session runs.
SessionFree == Exclusive => \A h \in Handlers : pc[h] = "idle"

Start(h, t, channel, approve, step) ==
    /\ At(h, "idle")
    /\ SessionFree
    /\ pc' = [pc EXCEPT ![h] = step]
    /\ token' = [token EXCEPT ![h] = t]
    /\ via' = [via EXCEPT ![h] = channel]
    /\ approved' = [approved EXCEPT ![h] = approve]
    /\ UNCHANGED <<snapshot, service, backend>>

-----------------------------------------------------------------------------
(* Offering a write, and requests about it *)

\* _prepare_confirmation and JournaledConfirmations.issue; the new pending
\* action replaces the one in the conversation state.
Issue(t) ==
    /\ journal[t] = "absent"
    /\ SessionFree
    /\ ~readOnly
    /\ journal' = [journal EXCEPT ![t] = "prepared"]
    /\ waiting' = IF Exclusive THEN {t} ELSE waiting \cup {t}
    /\ UNCHANGED <<expired, readOnly, recorded, told, handler, backend>>

\* POST /confirm with the user's choice.
Press(h, t, approve) ==
    journal[t] # "absent" /\ Start(h, t, "button", approve, "lookup")

\* A chat message that confirms, or gives up, the pending action.
Say(h, t, approve) ==
    t \in waiting /\ Start(h, t, "text", approve, "consume")

\* GET /operations/{id}.
Ask(h, t) ==
    journal[t] # "absent" /\ Start(h, t, "query", FALSE, "lookup")

\* POST /conversation/clear: cancel_prepared in one transaction.
ClearConversation ==
    /\ SessionFree
    /\ journal' = [t \in Tokens |-> IF journal[t] = "prepared" THEN "cancelled" ELSE journal[t]]
    /\ waiting' = {}
    /\ UNCHANGED <<expired, readOnly, recorded, told, handler, backend>>

Expire(t) ==
    /\ journal[t] # "absent" /\ ~expired[t]
    /\ expired' = [expired EXCEPT ![t] = TRUE]
    /\ UNCHANGED <<journal, waiting, readOnly, recorded, told, handler, backend>>

\* Mutant of Cleanup: archives unresolved operations that expired, too.
CleanupUnresolved(old) ==
    /\ \A t \in old : journal[t] \in Terminal /\ ~Working(t)
    /\ journal' = [t \in Tokens |->
          IF t \in old THEN "deleted"
          ELSE IF journal[t] \in {"prepared", "unknown"} /\ expired[t] THEN "cancelled"
          ELSE journal[t]]
    /\ UNCHANGED <<expired, waiting, readOnly, recorded, told, handler, backend>>

\* The hourly maintenance.  It archives what expired unconfirmed and deletes
\* records that ended days ago, when no request (60 s) still works on them.
Cleanup(old) ==
    /\ \A t \in old : journal[t] \in Terminal /\ ~Working(t)
    /\ journal' = [t \in Tokens |->
          IF t \in old THEN "deleted"
          ELSE IF journal[t] = "prepared" /\ expired[t] THEN "cancelled"
          ELSE journal[t]]
    /\ UNCHANGED <<expired, waiting, readOnly, recorded, told, handler, backend>>

-----------------------------------------------------------------------------
(* Confirming *)

\* confirm_once and operation_status read the record first: what was decided
\* before is answered, never executed again.
Lookup(h) ==
    /\ At(h, "lookup")
    /\ snapshot' = [snapshot EXCEPT ![h] = journal[token[h]]]
    /\ Goto(h, IF via[h] = "button" /\ journal[token[h]] \in {"prepared", "deleted"}
               THEN "consume" ELSE "respond")
    /\ UNCHANGED <<token, via, approved, service, backend>>

\* The text path drops a pending action it cannot consume; asked to give it
\* up, it answers as if it had.
NotConsumed(h) ==
    /\ End(h)
    /\ ClearText(h)
    /\ IF via[h] = "text" /\ ~approved[h] THEN Tell(token[h], "abandoned") ELSE UNCHANGED told
    /\ UNCHANGED <<journal, expired, readOnly, recorded, backend>>

\* JournaledConfirmations.consume reads and checks the record ...
Consume(h) ==
    /\ At(h, "consume")
    /\ IF journal[token[h]] = "prepared" /\ ~expired[token[h]]
       THEN Goto(h, "accept") /\ UNCHANGED <<token, via, approved, snapshot, service, backend>>
       ELSE NotConsumed(h)

\* Mutant of Accept: writes what it read, without comparing.
AcceptBlindly(h) ==
    /\ At(h, "accept")
    /\ journal' = [journal EXCEPT ![token[h]] = "accepted"]
    /\ Goto(h, "decide")
    /\ UNCHANGED <<token, via, approved, snapshot, expired, waiting, readOnly, recorded,
                   told, backend>>

\* ... and takes it by compare-and-set, without looking at the clock again.
Accept(h) ==
    /\ At(h, "accept")
    /\ IF journal[token[h]] = "prepared"
       THEN /\ Transition(token[h], {"prepared"}, "accepted")
            /\ Goto(h, "decide")
            /\ UNCHANGED <<token, via, approved, snapshot, expired, waiting, readOnly,
                           recorded, told, backend>>
       ELSE NotConsumed(h)

\* The read-only gate; the text path meets it before it knows the choice.
Blocked(h)  == readOnly /\ (approved[h] \/ via[h] = "text")
Declined(h) == ~approved[h] /\ ~Blocked(h)

\* The user gave it up.
Reject(h) ==
    /\ At(h, "decide") /\ Declined(h)
    /\ Transition(token[h], {"accepted"}, "cancelled")
    /\ Tell(token[h], "cancelled")
    /\ waiting' = waiting \ {token[h]}
    /\ End(h)
    /\ UNCHANGED <<expired, readOnly, recorded, backend>>

Block(h) ==
    /\ At(h, "decide") /\ Blocked(h)
    /\ Transition(token[h], {"accepted"}, "failed")
    /\ Tell(token[h], IF approved[h] THEN "failed" ELSE "abandoned")
    /\ waiting' = waiting \ {token[h]}
    /\ End(h)
    /\ UNCHANGED <<expired, readOnly, recorded, backend>>

Approve(h) ==
    /\ At(h, "decide") /\ approved[h] /\ ~Blocked(h)
    /\ waiting' = IF via[h] = "button" THEN waiting \ {token[h]} ELSE waiting
    /\ Goto(h, "execute")
    /\ UNCHANGED <<token, via, approved, snapshot, journal, expired, readOnly, recorded,
                   told, backend>>

-----------------------------------------------------------------------------
(* Executing: _execute_confirmed_action *)

Execute(h) ==
    /\ At(h, "execute")
    /\ Transition(token[h], {"accepted"}, "processing")
    /\ IF journal[token[h]] = "accepted"
       THEN /\ Goto(h, "send")
            /\ UNCHANGED <<token, via, approved, snapshot, waiting, told>>
       ELSE /\ Tell(token[h], "unknown")
            /\ ClearText(h)
            /\ End(h)
    /\ UNCHANGED <<expired, readOnly, recorded, backend>>

SendWrite(h) ==
    /\ At(h, "send")
    /\ request' = [request EXCEPT ![token[h]] = "sent"]
    /\ sends' = [sends EXCEPT ![token[h]] = @ + 1]
    /\ Goto(h, "receive")
    /\ UNCHANGED <<token, via, approved, snapshot, service, held, class>>

\* The except branch: the record leaves "processing", the answer says why.
Settle(h, status) ==
    /\ Transition(token[h], {"processing"}, status)
    /\ Tell(token[h], status)
    /\ ClearText(h)
    /\ End(h)
    /\ UNCHANGED <<expired, readOnly, recorded, backend>>

\* Arguments found wrong before anything was sent (ValueError).
RefuseLocally(h) == At(h, "send") /\ class[token[h]] = "cart" /\ Settle(h, "failed")

\* A receipt of success; the cart is read back even then.
Succeeded(h) ==
    /\ At(h, "receive") /\ request[token[h]] \in {"applied", "ignored"}
    /\ Goto(h, IF class[token[h]] = "cart" THEN "readback" ELSE "record")
    /\ UNCHANGED <<token, via, approved, snapshot, service, backend>>

\* An answer that says the write was refused.
Refused(h) == At(h, "receive") /\ request[token[h]] = "refused" /\ Settle(h, "failed")

\* Mutant of Unclear: sends the write again.
Resend(h) ==
    /\ At(h, "receive")
    /\ Goto(h, "send")
    /\ UNCHANGED <<token, via, approved, snapshot, service, backend>>

\* No usable receipt (timeout, 5xx, a body that does not parse): the write may
\* have been applied, be applied later, or never.  It is not sent again.
Unclear(h) ==
    /\ At(h, "receive")
    /\ Goto(h, "verify")
    /\ UNCHANGED <<token, via, approved, snapshot, service, backend>>

\* Mutant of Verified: takes an empty cart for this very clear_cart.
VerifiedAny(h) ==
    /\ At(h, "verify") /\ held[token[h]]
    /\ Goto(h, "record")
    /\ UNCHANGED <<token, via, approved, snapshot, service, backend>>

\* _execute_confirmed_action_once and execute_cart_mutation: look, do not write.
Verified(h) ==
    /\ pc[h] \in {"verify", "readback"} /\ class[token[h]] # "blind" /\ held[token[h]]
    /\ Goto(h, "record")
    /\ UNCHANGED <<token, via, approved, snapshot, service, backend>>

\* Mutant of Unverified: a missing receipt counts as a failure.
UnverifiedFails(h) == pc[h] \in {"verify", "readback"} /\ Settle(h, "failed")

\* Nothing could be read, or a cart with other quantities than asked for.
Unverified(h) == pc[h] \in {"verify", "readback"} /\ Settle(h, "unknown")

\* A removal had its receipt and the item is still there: it did not take
\* effect.  Without a receipt the same cart leaves the outcome unknown.
StillThere(h) ==
    /\ At(h, "readback") /\ ~held[token[h]]
    /\ Settle(h, "failed")

\* The outcome of this transition is not looked at.
Record(h) ==
    /\ At(h, "record")
    /\ Transition(token[h], {"processing"}, "executed")
    /\ Goto(h, "remember")
    /\ UNCHANGED <<token, via, approved, snapshot, expired, waiting, readOnly, recorded,
                   told, backend>>

Remember(h) ==
    /\ At(h, "remember")
    /\ recorded' = [recorded EXCEPT ![token[h]] = @ + 1]
    /\ Tell(token[h], "executed")
    /\ ClearText(h)
    /\ End(h)
    /\ UNCHANGED <<journal, expired, readOnly, backend>>

-----------------------------------------------------------------------------
(* Answering about an earlier confirmation: operation_response *)

Recoverable(t, status) ==
    \/ class[t] = "create" /\ status \in Unresolved
    \/ class[t] = "order"  /\ status \in {"processing", "unknown"}

\* Mutant of Respond: answers with the status as it is stored.
RespondRaw(h) ==
    /\ At(h, "respond")
    /\ Tell(token[h], snapshot[h])
    /\ End(h)
    /\ UNCHANGED <<journal, expired, waiting, readOnly, recorded, backend>>

\* The stored result, or "still to be verified": reading the backend may fail.
Respond(h) ==
    /\ At(h, "respond")
    /\ \/ snapshot[h] \in Terminal /\ Tell(token[h], snapshot[h])
       \/ snapshot[h] \in Unresolved /\ Tell(token[h], "unknown")
       \/ snapshot[h] \in {"prepared", "deleted"} /\ UNCHANGED told
    /\ End(h)
    /\ UNCHANGED <<journal, expired, waiting, readOnly, recorded, backend>>

Find(h) ==
    /\ At(h, "respond") /\ Recoverable(token[h], snapshot[h]) /\ held[token[h]]
    /\ Goto(h, "recover")
    /\ UNCHANGED <<token, via, approved, snapshot, service, backend>>

Recover(h) ==
    /\ At(h, "recover")
    /\ Transition(token[h], Unresolved, "executed")
    /\ IF journal[token[h]] \in Unresolved
       THEN Goto(h, "remember") /\ UNCHANGED <<token, via, approved, snapshot, told>>
       ELSE Tell(token[h], "executed") /\ End(h)
    /\ UNCHANGED <<expired, waiting, readOnly, recorded, backend>>

-----------------------------------------------------------------------------
(* Cancellation, restarts, the backend *)

\* A handler is cut short at the await it is in.  A transition, or a note, under
\* way may or may not happen; a write under way is settled as unknown, if the
\* journal can be written.
CutShort(h) ==
    /\ pc[h] # "idle"
    /\ \/ UNCHANGED journal
       \/ At(h, "accept") /\ Transition(token[h], {"prepared"}, "accepted")
       \/ At(h, "decide") /\ Declined(h) /\ Transition(token[h], {"accepted"}, "cancelled")
       \/ At(h, "decide") /\ Blocked(h) /\ Transition(token[h], {"accepted"}, "failed")
       \/ At(h, "execute") /\ Transition(token[h], {"accepted"}, "processing")
       \/ At(h, "record") /\ Transition(token[h], {"processing"}, "executed")
       \/ At(h, "recover") /\ Transition(token[h], Unresolved, "executed")
       \/ /\ pc[h] \in {"send", "receive", "verify", "readback"}
          /\ Transition(token[h], {"processing"}, "unknown")
    /\ \/ UNCHANGED recorded
       \/ At(h, "remember") /\ recorded' = [recorded EXCEPT ![token[h]] = @ + 1]
    /\ End(h)
    /\ UNCHANGED <<expired, readOnly, backend>>

\* The request budget runs out or the client goes away (CancelledError), or a
\* store fails: nobody answers or clears the pending action.
Interrupt(h) == CutShort(h) /\ UNCHANGED <<waiting, told>>

\* While it confirms by text the code catches what a store, or the approval
\* workflow, raises: it clears the pending action and answers with the error.
Caught(h) ==
    /\ via[h] = "text" /\ approved[h]
    /\ CutShort(h)
    /\ ClearText(h)
    /\ Tell(token[h], "error")

\* Processes die with their handlers, and with the conversation states they
\* kept; they come back with the configuration they find.
Restart(dead) ==
    /\ pc' = [h \in Handlers |-> IF h \in dead THEN "idle" ELSE pc[h]]
    /\ token' = [h \in Handlers |-> IF h \in dead THEN Idle ELSE token[h]]
    /\ via' = [h \in Handlers |-> IF h \in dead THEN "query" ELSE via[h]]
    /\ approved' = [h \in Handlers |-> IF h \in dead THEN FALSE ELSE approved[h]]
    /\ snapshot' = [h \in Handlers |-> IF h \in dead THEN "absent" ELSE snapshot[h]]
    /\ waiting' \in {waiting, {}}
    /\ readOnly' \in IF Reconfigures THEN BOOLEAN ELSE {readOnly}
    /\ UNCHANGED <<journal, expired, recorded, told, backend>>

\* The write arrives, sooner or later, if at all.  Java refuses to pay or
\* cancel an order that is no longer pending.  The service takes the receipts
\* of all but cart writes for what they say.
Arrive(t, fate) ==
    /\ request[t] = "sent"
    /\ fate = "ignored" => class[t] = "cart"
    /\ class[t] = "order" /\ held[t] => fate # "applied"
    /\ request' = [request EXCEPT ![t] = fate]
    /\ held' = [held EXCEPT ![t] = held[t] \/ fate = "applied"]
    /\ UNCHANGED <<service, handler, sends, class>>

ReachedByOthers(t) ==
    /\ class[t] \in Shared /\ ~held[t]
    /\ held' = [held EXCEPT ![t] = TRUE]
    /\ UNCHANGED <<service, handler, request, sends, class>>

-----------------------------------------------------------------------------
HandlerStep(h) ==
    \/ \E t \in Tokens : Ask(h, t)
    \/ \E t \in Tokens, approve \in BOOLEAN : Press(h, t, approve) \/ Say(h, t, approve)
    \/ Lookup(h) \/ Consume(h) \/ Accept(h) \/ Reject(h) \/ Block(h) \/ Approve(h)
    \/ Execute(h) \/ SendWrite(h) \/ RefuseLocally(h) \/ Succeeded(h) \/ Refused(h)
    \/ Unclear(h) \/ Verified(h) \/ Unverified(h) \/ StillThere(h) \/ Record(h)
    \/ Remember(h) \/ Respond(h) \/ Find(h) \/ Recover(h) \/ Interrupt(h) \/ Caught(h)

Next ==
    \/ \E h \in Handlers : HandlerStep(h)
    \/ \E t \in Tokens : Issue(t) \/ Expire(t) \/ ReachedByOthers(t)
    \/ \E t \in Tokens, fate \in Fates : Arrive(t, fate)
    \/ ClearConversation
    \/ \E old \in SUBSET Tokens : Cleanup(old)
    \/ \E dead \in SUBSET Handlers : Restart(dead)

Spec == Init /\ [][Next]_vars

-----------------------------------------------------------------------------
(* Properties *)

NotApplied == {"unsent", "refused", "ignored"}

\* However often a confirmation is repeated, by button or by text, in however
\* many processes and across restarts, its write is sent at most once.
SentOnce == \A t \in Tokens : sends[t] <= 1

\* What the journal says of an operation is true of the backend: "executed"
\* only if what it aimed at came about (for an order placed: by this very
\* write), "failed" or "cancelled" only if the write never will be applied.
JournalTruthful ==
    \A t \in Tokens :
        /\ journal[t] = "executed" => held[t]
        /\ journal[t] = "executed" /\ class[t] \in {"create", "blind"} => request[t] = "applied"
        /\ journal[t] \in {"failed", "cancelled"} => request[t] \in NotApplied

\* So is what the user hears: "done" of what came about, "cancelled" or
\* "failed" of what was not and will not be applied.
AnswersTruthful ==
    \A t \in Tokens :
        /\ told[t] = "executed" => held[t]
        /\ told[t] \in {"cancelled", "failed"} => request[t] \in NotApplied

\* A user who gives up an operation, and is answered that it was not carried
\* out, never finds it sent all the same.
AbandonedIsUnsent ==
    \A t \in Tokens : told[t] = "abandoned" => request[t] = "unsent"

\* Under the session lock the memory notes a verified operation once.
RememberedOnce == \A t \in Tokens : recorded[t] <= 1

\* A final record stays as it is until it is deleted: nothing late (a lost
\* receipt, a second handler, the maintenance) rewrites a verdict.
VerdictIsFinal ==
    [][\A t \in Tokens : journal[t] \in Terminal => journal'[t] \in {journal[t], "deleted"}]_vars

-----------------------------------------------------------------------------
(* Refinement *)

PhaseOf(status) ==
    CASE status = "absent"                    -> "absent"
      [] status = "prepared"                  -> "offered"
      [] status = "accepted"                  -> "taken"
      [] status \in {"processing", "unknown"} -> "committed"
      [] status = "executed"                  -> "executed"
      [] status \in {"failed", "cancelled"}   -> "notDone"
      [] status = "deleted"                   -> "forgotten"

Promise == INSTANCE ConfirmedWrite WITH
    phase <- [t \in Tokens |-> PhaseOf(journal[t])], effect <- request, held <- held

\* The journal implements what the service promises.
ImplementsPromise == Promise!Spec
=============================================================================
