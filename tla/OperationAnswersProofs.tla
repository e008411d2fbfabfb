------------------------ MODULE OperationAnswersProofs ------------------------
(***************************************************************************)
(* What users and the assistant's memory are told of an operation, for any *)
(* number of tokens and handlers.  The steps of the journal itself are     *)
(* module OperationJournalProofs'.                                         *)
(***************************************************************************)
EXTENDS OperationJournalProofs

USE DEF Statuses, Terminal, Unresolved, Requests, Fates, NotApplied, Answers, NothingYet,
        Channels, Steps, Classes, Shared, Early, Executing, At, Goto, Tell,
        service, handler, backend, vars

-----------------------------------------------------------------------------
(* Noting a verified operation, under the session lock                      *)

\* One request of the session at a time.
Alone == \A g, h \in Handlers : pc[g] # "idle" /\ pc[h] # "idle" => g = h

NotedOK(t) ==
    /\ recorded[t] <= 1
    /\ journal[t] \notin {"executed", "deleted"} => recorded[t] = 0

\* Who executes finds its record unfinished; who is about to note an operation
\* has just finished it.
NotingOK(h) ==
    /\ Executing(h) => journal[token[h]] = "processing"
    /\ pc[h] = "remember" => recorded[token[h]] = 0 /\ journal[token[h]] = "executed"

NotedInv ==
    /\ Alone
    /\ \A t \in Tokens : NotedOK(t)
    /\ \A h \in Handlers : NotingOK(h)

LEMMA HandlerNotes ==
    ASSUME Exclusive, IInv, NotedInv, NEW h \in Handlers, HandlerStep(h) PROVE NotedInv'
<1> USE JournalAssumption DEF IInv, TypeOK, NotedInv, Alone, NotedOK, NotingOK, HandlerInv,
        HandlerOK
<1>1. ASSUME NEW t \in Tokens, NEW c \in Channels, NEW a \in BOOLEAN,
             NEW s \in {"lookup", "consume"}, Start(h, t, c, a, s)
      PROVE  NotedInv'
  BY <1>1 DEF Start, SessionFree
<1>2. (\E t \in Tokens : Ask(h, t)) => NotedInv'
  BY <1>1 DEF Ask
<1>3. (\E t \in Tokens, approve \in BOOLEAN : Press(h, t, approve) \/ Say(h, t, approve))
        => NotedInv'
  BY <1>1 DEF Press, Say
<1>4. ASSUME Lookup(h) PROVE NotedInv'
  BY <1>4 DEF Lookup
<1>5. ASSUME Consume(h) PROVE NotedInv'
  BY <1>5 DEF Consume, NotConsumed, End, ClearText
<1>6. ASSUME Accept(h) PROVE NotedInv'
  BY <1>6 DEF Accept, Transition, NotConsumed, End, ClearText
<1>7. ASSUME Reject(h) PROVE NotedInv'
  BY <1>7 DEF Reject, Transition, End
<1>8. ASSUME Block(h) PROVE NotedInv'
  BY <1>8 DEF Block, Transition, End
<1>9. ASSUME Approve(h) PROVE NotedInv'
  BY <1>9 DEF Approve
<1>10. ASSUME Execute(h) PROVE NotedInv'
  BY <1>10 DEF Execute, Transition, ClearText, End
<1>11. ASSUME SendWrite(h) PROVE NotedInv'
  BY <1>11 DEF SendWrite
<1>12. ASSUME RefuseLocally(h) PROVE NotedInv'
  BY <1>12 DEF RefuseLocally, Settle, Transition, ClearText, End
<1>13. ASSUME Succeeded(h) PROVE NotedInv'
  BY <1>13 DEF Succeeded
<1>14. ASSUME Refused(h) PROVE NotedInv'
  BY <1>14 DEF Refused, Settle, Transition, ClearText, End
<1>15. ASSUME Unclear(h) PROVE NotedInv'
  BY <1>15 DEF Unclear
<1>16. ASSUME Verified(h) PROVE NotedInv'
  BY <1>16 DEF Verified
<1>17. ASSUME Unverified(h) PROVE NotedInv'
  BY <1>17 DEF Unverified, Settle, Transition, ClearText, End
<1>18. ASSUME Record(h) PROVE NotedInv'
  BY <1>18 DEF Record, Transition
<1>19. ASSUME Remember(h) PROVE NotedInv'
  BY <1>19 DEF Remember, ClearText, End
<1>20. ASSUME Respond(h) PROVE NotedInv'
  BY <1>20 DEF Respond, End
<1>21. ASSUME Find(h) PROVE NotedInv'
  BY <1>21 DEF Find
<1>22. ASSUME Recover(h) PROVE NotedInv'
  BY <1>22 DEF Recover, Transition, End
<1>23. ASSUME Interrupt(h) \/ Caught(h) PROVE NotedInv'
  BY <1>23, SMTT(30) DEF Interrupt, Caught, CutShort, Transition, Declined, Blocked, End
<1>24. ASSUME StillThere(h) PROVE NotedInv'
  BY <1>24 DEF StillThere, Settle, Transition, ClearText, End
<1> QED
  BY <1>2, <1>3, <1>4, <1>5, <1>6, <1>7, <1>8, <1>9, <1>10, <1>11, <1>12, <1>13, <1>14,
     <1>15, <1>16, <1>17, <1>18, <1>19, <1>20, <1>21, <1>22, <1>23, <1>24 DEF HandlerStep

LEMMA NextNotes == Exclusive /\ IInv /\ NotedInv /\ [Next]_vars => NotedInv'
<1> SUFFICES ASSUME Exclusive, IInv, NotedInv, [Next]_vars PROVE NotedInv'
  OBVIOUS
<1> USE JournalAssumption DEF IInv, TypeOK, NotedInv, Alone, NotedOK, NotingOK, HandlerInv,
        HandlerOK
<1>1. ASSUME NEW t \in Tokens, Issue(t) PROVE NotedInv'
  BY <1>1 DEF Issue, SessionFree
<1>2. ASSUME NEW t \in Tokens, Expire(t) PROVE NotedInv'
  BY <1>2 DEF Expire
<1>3. ASSUME NEW t \in Tokens, ReachedByOthers(t) PROVE NotedInv'
  BY <1>3 DEF ReachedByOthers
<1>4. ASSUME NEW t \in Tokens, NEW fate \in Fates, Arrive(t, fate)
      PROVE  NotedInv'
  BY <1>4 DEF Arrive
<1>5. CASE ClearConversation
  BY <1>5 DEF ClearConversation, SessionFree
<1>6. ASSUME NEW old \in SUBSET Tokens, Cleanup(old) PROVE NotedInv'
  BY <1>6 DEF Cleanup, Working
<1>7. ASSUME NEW dead \in SUBSET Handlers, Restart(dead) PROVE NotedInv'
  BY <1>7 DEF Restart
<1>8. CASE UNCHANGED vars
  BY <1>8
<1> QED
  BY <1>1, <1>2, <1>3, <1>4, <1>5, <1>6, <1>7, <1>8, HandlerNotes DEF Next

LEMMA InitNotes == Init => NotedInv
BY JournalAssumption DEF Init, NotedInv, Alone, NotedOK, NotingOK

\* Where the session lock spans every process, interruptions, restarts and
\* repeated questions never make the memory note a verified operation twice.
THEOREM NotedOnce == Exclusive /\ Spec => []RememberedOnce
<1>1. NotedInv => RememberedOnce
  BY DEF NotedInv, NotedOK, RememberedOnce
<1>2. Exclusive /\ Spec => []NotedInv
  <2>1. Exclusive => []Exclusive
    OBVIOUS
  <2> QED BY <2>1, InitNotes, NextNotes, JournalInvariant, PTL DEF Spec
<1> QED BY <1>1, <1>2, PTL

-----------------------------------------------------------------------------
(* What the user hears, with or without a common session lock               *)

\* The write was refused or without effect, or was never sent and nobody will
\* send it.
Settled(t) ==
    \/ request[t] \in {"refused", "ignored"}
    \/ request[t] = "unsent" /\ journal[t] \in {"failed", "cancelled", "deleted"}

ToldOK(t) ==
    /\ told[t] = "executed" => held[t]
    /\ told[t] \in {"cancelled", "failed"} => Settled(t)

\* Having taken a confirmation, and not yet begun to execute it.
Holding(h) == pc[h] \in {"decide", "execute"}

\* What a handler that is about to answer can rely on.
AnsweringOK(h) ==
    /\ Holding(h) => journal[token[h]] = "accepted"
    /\ pc[h] = "remember" => held[token[h]]
    /\ pc[h] = "recover" => class[token[h]] \in {"create", "order"}
    /\ Executing(h) /\ class[token[h]] = "cart" => journal[token[h]] = "processing"
    /\ pc[h] = "respond" /\ snapshot[h] = "executed" => held[token[h]]
    /\ pc[h] = "respond" /\ snapshot[h] \in {"cancelled", "failed"} => Settled(token[h])

\* A confirmation is taken by one handler.
OneHolder == \A g, h \in Handlers : Holding(g) /\ Holding(h) /\ token[g] = token[h] => g = h

AnswersInv ==
    /\ \A t \in Tokens : ToldOK(t)
    /\ \A h \in Handlers : AnsweringOK(h)
    /\ OneHolder

LEMMA HandlerAnswers ==
    ASSUME IInv, AnswersInv, NEW h \in Handlers, HandlerStep(h) PROVE AnswersInv'
<1> USE JournalAssumption DEF IInv, TypeOK, AnswersInv, ToldOK, Settled, Holding, AnsweringOK,
        OneHolder, HandlerInv, HandlerOK, BackendInv, BackendOK, OneExecutor, JournalTruthful
<1>1. ASSUME NEW t \in Tokens, NEW c \in Channels, NEW a \in BOOLEAN,
             NEW s \in {"lookup", "consume"}, Start(h, t, c, a, s)
      PROVE  AnswersInv'
  BY <1>1 DEF Start
<1>2. (\E t \in Tokens : Ask(h, t)) => AnswersInv'
  BY <1>1 DEF Ask
<1>3. (\E t \in Tokens, approve \in BOOLEAN : Press(h, t, approve) \/ Say(h, t, approve))
        => AnswersInv'
  BY <1>1 DEF Press, Say
<1>4. ASSUME Lookup(h) PROVE AnswersInv'
  BY <1>4 DEF Lookup
<1>5. ASSUME Consume(h) PROVE AnswersInv'
  BY <1>5 DEF Consume, NotConsumed, End, ClearText
<1>6. ASSUME Accept(h) PROVE AnswersInv'
  BY <1>6, SMTT(30) DEF Accept, Transition, NotConsumed, End, ClearText
<1>7. ASSUME Reject(h) PROVE AnswersInv'
  BY <1>7 DEF Reject, Transition, End, Declined, Blocked
<1>8. ASSUME Block(h) PROVE AnswersInv'
  BY <1>8 DEF Block, Transition, End, Declined, Blocked
<1>9. ASSUME Approve(h) PROVE AnswersInv'
  BY <1>9 DEF Approve
<1>10. ASSUME Execute(h) PROVE AnswersInv'
  BY <1>10 DEF Execute, Transition, ClearText, End
<1>11. ASSUME SendWrite(h) PROVE AnswersInv'
  BY <1>11 DEF SendWrite
<1>12. ASSUME RefuseLocally(h) PROVE AnswersInv'
  BY <1>12 DEF RefuseLocally, Settle, Transition, ClearText, End
<1>13. ASSUME Succeeded(h) PROVE AnswersInv'
  BY <1>13 DEF Succeeded
<1>14. ASSUME Refused(h) PROVE AnswersInv'
  BY <1>14 DEF Refused, Settle, Transition, ClearText, End
<1>15. ASSUME Unclear(h) PROVE AnswersInv'
  BY <1>15 DEF Unclear
<1>16. ASSUME Verified(h) PROVE AnswersInv'
  BY <1>16 DEF Verified
<1>17. ASSUME Unverified(h) PROVE AnswersInv'
  BY <1>17 DEF Unverified, Settle, Transition, ClearText, End
<1>18. ASSUME Record(h) PROVE AnswersInv'
  BY <1>18 DEF Record, Transition
<1>19. ASSUME Remember(h) PROVE AnswersInv'
  BY <1>19 DEF Remember, ClearText, End
<1>20. ASSUME Respond(h) PROVE AnswersInv'
  BY <1>20 DEF Respond, End
<1>21. ASSUME Find(h) PROVE AnswersInv'
  BY <1>21 DEF Find, Recoverable
<1>22. ASSUME Recover(h) PROVE AnswersInv'
  <2>1. CASE journal[token[h]] \in Unresolved
    <3>1. \A t \in Tokens : ToldOK(t)'
      BY <1>22, <2>1 DEF Recover, Transition
    <3>2. \A g \in Handlers : AnsweringOK(g)'
      BY <1>22, <2>1 DEF Recover, Transition
    <3>3. OneHolder'
      BY <1>22, <2>1 DEF Recover, Transition
    <3>4. QED
      BY <3>1, <3>2, <3>3
  <2>2. CASE journal[token[h]] \notin Unresolved
    BY <1>22, <2>2 DEF Recover, Transition, End
  <2>3. QED
    BY <2>1, <2>2
<1>23. ASSUME Interrupt(h) \/ Caught(h) PROVE AnswersInv'
  BY <1>23, SMTT(30) DEF Interrupt, Caught, CutShort, Transition, Declined, Blocked, End
<1>24. ASSUME StillThere(h) PROVE AnswersInv'
  BY <1>24 DEF StillThere, Settle, Transition, ClearText, End
<1> QED
  BY <1>2, <1>3, <1>4, <1>5, <1>6, <1>7, <1>8, <1>9, <1>10, <1>11, <1>12, <1>13, <1>14,
     <1>15, <1>16, <1>17, <1>18, <1>19, <1>20, <1>21, <1>22, <1>23, <1>24 DEF HandlerStep

LEMMA NextAnswers == IInv /\ AnswersInv /\ [Next]_vars => AnswersInv'
<1> SUFFICES ASSUME IInv, AnswersInv, [Next]_vars PROVE AnswersInv'
  OBVIOUS
<1>0. ASSUME NEW h \in Handlers, HandlerStep(h) PROVE AnswersInv'
  BY <1>0, HandlerAnswers
<1> USE JournalAssumption DEF IInv, TypeOK, AnswersInv, ToldOK, Settled, Holding, AnsweringOK,
        OneHolder, HandlerInv, HandlerOK, BackendInv, BackendOK, OneExecutor, JournalTruthful
<1>1. ASSUME NEW t \in Tokens, Issue(t) PROVE AnswersInv'
  BY <1>1 DEF Issue
<1>2. ASSUME NEW t \in Tokens, Expire(t) PROVE AnswersInv'
  BY <1>2 DEF Expire
<1>3. ASSUME NEW t \in Tokens, ReachedByOthers(t) PROVE AnswersInv'
  BY <1>3 DEF ReachedByOthers
<1>4. ASSUME NEW t \in Tokens, NEW fate \in Fates, Arrive(t, fate)
      PROVE  AnswersInv'
  BY <1>4 DEF Arrive
<1>5. CASE ClearConversation
  BY <1>5 DEF ClearConversation
<1>6. ASSUME NEW old \in SUBSET Tokens, Cleanup(old) PROVE AnswersInv'
  BY <1>6 DEF Cleanup, Working
<1>7. ASSUME NEW dead \in SUBSET Handlers, Restart(dead) PROVE AnswersInv'
  BY <1>7 DEF Restart
<1>8. CASE UNCHANGED vars
  BY <1>8
<1> HIDE DEF IInv, AnswersInv
<1> QED
  BY <1>0, <1>1, <1>2, <1>3, <1>4, <1>5, <1>6, <1>7, <1>8 DEF Next

LEMMA InitAnswers == Init => AnswersInv
BY JournalAssumption DEF Init, AnswersInv, ToldOK, AnsweringOK, OneHolder, Holding

\* "Done" is only said of what came about, "failed" and "cancelled" only of
\* what was not and will not be applied, whatever handlers run beside one
\* another.
THEOREM AnswersAreTrue == Spec => []AnswersTruthful
<1>1. AnswersInv => AnswersTruthful
  BY DEF AnswersInv, ToldOK, Settled, AnswersTruthful
<1>2. Spec => []AnswersInv
  BY InitAnswers, NextAnswers, JournalInvariant, PTL DEF Spec
<1> QED BY <1>1, <1>2, PTL
=============================================================================
