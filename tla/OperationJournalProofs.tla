----------------------- MODULE OperationJournalProofs -----------------------
(***************************************************************************)
(* What holds of OperationJournal for any number of tokens and handlers.   *)
(***************************************************************************)
EXTENDS OperationJournal, TLAPS

\* Statuses of a record nobody has committed to execute.
Early == {"absent", "prepared", "accepted"}

\* Between winning the compare-and-set of "processing" and recording the result.
Executing(h) == pc[h] \in {"send", "receive", "verify", "readback", "record"}

\* What was sent, and what came of it.  An order placed can only be this one's.
BackendOK(t) ==
    /\ sends[t] = IF request[t] = "unsent" THEN 0 ELSE 1
    /\ request[t] = "applied" => held[t]
    /\ held[t] /\ class[t] \notin Shared => request[t] = "applied"
    /\ request[t] = "ignored" => class[t] = "cart"
    /\ journal[t] \in Early => request[t] = "unsent"

BackendInv == \A t \in Tokens : BackendOK(t)

\* What a handler knows when it gets to a step.
HandlerOK(h) ==
    /\ pc[h] # "idle" => token[h] \in Tokens
    /\ Executing(h) => journal[token[h]] \in {"processing", "executed"}
    /\ pc[h] = "send" => request[token[h]] = "unsent"
    /\ pc[h] = "readback" => /\ class[token[h]] = "cart"
                             /\ request[token[h]] \in {"applied", "ignored"}
    /\ pc[h] = "record" => /\ held[token[h]]
                           /\ class[token[h]] = "blind" => request[token[h]] = "applied"
    /\ pc[h] = "recover" => /\ held[token[h]]
                            /\ journal[token[h]] \notin Early
                            /\ class[token[h]] # "blind"
    /\ pc[h] = "respond" /\ snapshot[h] \in {"processing", "unknown"}
          => journal[token[h]] \notin Early

HandlerInv == \A h \in Handlers : HandlerOK(h)

\* Never do two handlers execute the same operation.
OneExecutor ==
    \A g, h \in Handlers :
        Executing(g) /\ Executing(h) /\ token[g] = token[h] => g = h

IInv == TypeOK /\ BackendInv /\ HandlerInv /\ OneExecutor /\ JournalTruthful

USE DEF Statuses, Terminal, Unresolved, Requests, Fates, NotApplied, Answers, NothingYet,
         Channels, Steps, Classes, Shared, Early, Executing, At, Goto, Tell,
         service, handler, backend, vars

LEMMA StartInv ==
    ASSUME IInv, NEW h \in Handlers, NEW t \in Tokens, NEW c \in Channels, NEW a \in BOOLEAN,
           NEW s \in {"lookup", "consume"}, Start(h, t, c, a, s) PROVE IInv'
<1>1. TypeOK'
  BY DEF IInv, TypeOK, HandlerInv, HandlerOK, Start, SessionFree
<1>2. BackendInv'
  BY JournalAssumption DEF IInv, TypeOK, HandlerInv, HandlerOK, BackendInv, BackendOK,
     Start, SessionFree
<1>3. HandlerInv'
  <2> SUFFICES ASSUME NEW g \in Handlers PROVE HandlerOK(g)' BY DEF HandlerInv
  <2>1. CASE g = h
    BY <2>1, JournalAssumption DEF IInv, TypeOK, HandlerInv, HandlerOK, BackendInv,
       BackendOK, Start, SessionFree
  <2>2. CASE g # h
    BY <2>2 DEF IInv, TypeOK, HandlerInv, HandlerOK, OneExecutor, Start, SessionFree
  <2> QED BY <2>1, <2>2
<1>4. OneExecutor'
  BY DEF IInv, TypeOK, HandlerInv, HandlerOK, OneExecutor, Start, SessionFree
<1>5. JournalTruthful'
  BY JournalAssumption DEF IInv, TypeOK, HandlerInv, HandlerOK, BackendInv, BackendOK,
     JournalTruthful, Start, SessionFree
<1> QED BY <1>1, <1>2, <1>3, <1>4, <1>5 DEF IInv

LEMMA LookupInv ==
    ASSUME IInv, NEW h \in Handlers, Lookup(h) PROVE IInv'
<1>1. TypeOK'
  BY DEF IInv, TypeOK, HandlerInv, HandlerOK, Lookup
<1>2. BackendInv'
  BY JournalAssumption DEF IInv, TypeOK, HandlerInv, HandlerOK, BackendInv, BackendOK,
     Lookup
<1>3. HandlerInv'
  <2> SUFFICES ASSUME NEW g \in Handlers PROVE HandlerOK(g)' BY DEF HandlerInv
  <2>1. CASE g = h
    BY <2>1, JournalAssumption DEF IInv, TypeOK, HandlerInv, HandlerOK, BackendInv,
       BackendOK, Lookup
  <2>2. CASE g # h
    BY <2>2 DEF IInv, TypeOK, HandlerInv, HandlerOK, OneExecutor, Lookup
  <2> QED BY <2>1, <2>2
<1>4. OneExecutor'
  BY DEF IInv, TypeOK, HandlerInv, HandlerOK, OneExecutor, Lookup
<1>5. JournalTruthful'
  BY JournalAssumption DEF IInv, TypeOK, HandlerInv, HandlerOK, BackendInv, BackendOK,
     JournalTruthful, Lookup
<1> QED BY <1>1, <1>2, <1>3, <1>4, <1>5 DEF IInv

LEMMA ConsumeInv ==
    ASSUME IInv, NEW h \in Handlers, Consume(h) PROVE IInv'
<1>1. TypeOK'
  <2>1. CASE journal[token[h]] = "prepared" /\ ~expired[token[h]]
    BY <2>1 DEF IInv, TypeOK, HandlerInv, HandlerOK, Consume, NotConsumed, End,
       ClearText
  <2>2. CASE ~(journal[token[h]] = "prepared" /\ ~expired[token[h]])
    <3>1. At(h, "consume") /\ NotConsumed(h)
      BY <2>2 DEF Consume
    <3> QED
      BY <3>1 DEF IInv, TypeOK, HandlerInv, HandlerOK, NotConsumed, End, ClearText
  <2> QED BY <2>1, <2>2
<1>2. BackendInv'
  BY JournalAssumption DEF IInv, TypeOK, HandlerInv, HandlerOK, BackendInv, BackendOK,
     Consume, NotConsumed, End, ClearText
<1>3. HandlerInv'
  <2> SUFFICES ASSUME NEW g \in Handlers PROVE HandlerOK(g)' BY DEF HandlerInv
  <2>1. CASE g = h
    BY <2>1, JournalAssumption DEF IInv, TypeOK, HandlerInv, HandlerOK, BackendInv,
       BackendOK, Consume, NotConsumed, End, ClearText
  <2>2. CASE g # h
    BY <2>2 DEF IInv, TypeOK, HandlerInv, HandlerOK, OneExecutor, Consume,
       NotConsumed, End, ClearText
  <2> QED BY <2>1, <2>2
<1>4. OneExecutor'
  BY DEF IInv, TypeOK, HandlerInv, HandlerOK, OneExecutor, Consume, NotConsumed, End,
     ClearText
<1>5. JournalTruthful'
  BY JournalAssumption DEF IInv, TypeOK, HandlerInv, HandlerOK, BackendInv, BackendOK,
     JournalTruthful, Consume, NotConsumed, End, ClearText
<1> QED BY <1>1, <1>2, <1>3, <1>4, <1>5 DEF IInv

LEMMA AcceptInv ==
    ASSUME IInv, NEW h \in Handlers, Accept(h) PROVE IInv'
<1>1. TypeOK'
  <2>1. CASE journal[token[h]] = "prepared"
    BY <2>1 DEF IInv, TypeOK, HandlerInv, HandlerOK, Accept, Transition, NotConsumed,
       End, ClearText
  <2>2. CASE ~(journal[token[h]] = "prepared")
    <3>1. At(h, "accept") /\ NotConsumed(h)
      BY <2>2 DEF Accept
    <3> QED
      BY <3>1 DEF IInv, TypeOK, HandlerInv, HandlerOK, NotConsumed, End, ClearText
  <2> QED BY <2>1, <2>2
<1>2. BackendInv'
  BY JournalAssumption DEF IInv, TypeOK, HandlerInv, HandlerOK, BackendInv, BackendOK,
     Accept, Transition, NotConsumed, End, ClearText
<1>3. HandlerInv'
  <2> SUFFICES ASSUME NEW g \in Handlers PROVE HandlerOK(g)' BY DEF HandlerInv
  <2>1. CASE g = h
    BY <2>1, JournalAssumption DEF IInv, TypeOK, HandlerInv, HandlerOK, BackendInv,
       BackendOK, Accept, Transition, NotConsumed, End, ClearText
  <2>2. CASE g # h
    BY <2>2 DEF IInv, TypeOK, HandlerInv, HandlerOK, OneExecutor, Accept, Transition,
       NotConsumed, End, ClearText
  <2> QED BY <2>1, <2>2
<1>4. OneExecutor'
  BY DEF IInv, TypeOK, HandlerInv, HandlerOK, OneExecutor, Accept, Transition,
     NotConsumed, End, ClearText
<1>5. JournalTruthful'
  BY JournalAssumption DEF IInv, TypeOK, HandlerInv, HandlerOK, BackendInv, BackendOK,
     JournalTruthful, Accept, Transition, NotConsumed, End, ClearText
<1> QED BY <1>1, <1>2, <1>3, <1>4, <1>5 DEF IInv

LEMMA RejectInv ==
    ASSUME IInv, NEW h \in Handlers, Reject(h) PROVE IInv'
<1>1. TypeOK'
  BY DEF IInv, TypeOK, HandlerInv, HandlerOK, Reject, Declined, Blocked, Transition,
     End
<1>2. BackendInv'
  BY JournalAssumption DEF IInv, TypeOK, HandlerInv, HandlerOK, BackendInv, BackendOK,
     Reject, Declined, Blocked, Transition, End
<1>3. HandlerInv'
  <2> SUFFICES ASSUME NEW g \in Handlers PROVE HandlerOK(g)' BY DEF HandlerInv
  <2>1. CASE g = h
    BY <2>1, JournalAssumption DEF IInv, TypeOK, HandlerInv, HandlerOK, BackendInv,
       BackendOK, Reject, Declined, Blocked, Transition, End
  <2>2. CASE g # h
    BY <2>2 DEF IInv, TypeOK, HandlerInv, HandlerOK, OneExecutor, Reject, Declined,
       Blocked, Transition, End
  <2> QED BY <2>1, <2>2
<1>4. OneExecutor'
  BY DEF IInv, TypeOK, HandlerInv, HandlerOK, OneExecutor, Reject, Declined, Blocked,
     Transition, End
<1>5. JournalTruthful'
  BY JournalAssumption DEF IInv, TypeOK, HandlerInv, HandlerOK, BackendInv, BackendOK,
     JournalTruthful, Reject, Declined, Blocked, Transition, End
<1> QED BY <1>1, <1>2, <1>3, <1>4, <1>5 DEF IInv

LEMMA BlockInv ==
    ASSUME IInv, NEW h \in Handlers, Block(h) PROVE IInv'
<1>1. TypeOK'
  BY DEF IInv, TypeOK, HandlerInv, HandlerOK, Block, Blocked, Transition, End
<1>2. BackendInv'
  BY JournalAssumption DEF IInv, TypeOK, HandlerInv, HandlerOK, BackendInv, BackendOK,
     Block, Blocked, Transition, End
<1>3. HandlerInv'
  <2> SUFFICES ASSUME NEW g \in Handlers PROVE HandlerOK(g)' BY DEF HandlerInv
  <2>1. CASE g = h
    BY <2>1, JournalAssumption DEF IInv, TypeOK, HandlerInv, HandlerOK, BackendInv,
       BackendOK, Block, Blocked, Transition, End
  <2>2. CASE g # h
    BY <2>2 DEF IInv, TypeOK, HandlerInv, HandlerOK, OneExecutor, Block, Blocked,
       Transition, End
  <2> QED BY <2>1, <2>2
<1>4. OneExecutor'
  BY DEF IInv, TypeOK, HandlerInv, HandlerOK, OneExecutor, Block, Blocked, Transition,
     End
<1>5. JournalTruthful'
  BY JournalAssumption DEF IInv, TypeOK, HandlerInv, HandlerOK, BackendInv, BackendOK,
     JournalTruthful, Block, Blocked, Transition, End
<1> QED BY <1>1, <1>2, <1>3, <1>4, <1>5 DEF IInv

LEMMA ApproveInv ==
    ASSUME IInv, NEW h \in Handlers, Approve(h) PROVE IInv'
<1>1. TypeOK'
  BY DEF IInv, TypeOK, HandlerInv, HandlerOK, Approve, Blocked
<1>2. BackendInv'
  BY JournalAssumption DEF IInv, TypeOK, HandlerInv, HandlerOK, BackendInv, BackendOK,
     Approve, Blocked
<1>3. HandlerInv'
  <2> SUFFICES ASSUME NEW g \in Handlers PROVE HandlerOK(g)' BY DEF HandlerInv
  <2>1. CASE g = h
    BY <2>1, JournalAssumption DEF IInv, TypeOK, HandlerInv, HandlerOK, BackendInv,
       BackendOK, Approve, Blocked
  <2>2. CASE g # h
    BY <2>2 DEF IInv, TypeOK, HandlerInv, HandlerOK, OneExecutor, Approve, Blocked
  <2> QED BY <2>1, <2>2
<1>4. OneExecutor'
  BY DEF IInv, TypeOK, HandlerInv, HandlerOK, OneExecutor, Approve, Blocked
<1>5. JournalTruthful'
  BY JournalAssumption DEF IInv, TypeOK, HandlerInv, HandlerOK, BackendInv, BackendOK,
     JournalTruthful, Approve, Blocked
<1> QED BY <1>1, <1>2, <1>3, <1>4, <1>5 DEF IInv

LEMMA ExecuteInv ==
    ASSUME IInv, NEW h \in Handlers, Execute(h) PROVE IInv'
<1>1. TypeOK'
  <2>1. CASE journal[token[h]] = "accepted"
    BY <2>1 DEF IInv, TypeOK, HandlerInv, HandlerOK, Execute, Transition, ClearText,
       End
  <2>2. CASE ~(journal[token[h]] = "accepted")
    <3>1. /\ At(h, "execute") /\ Tell(token[h], "unknown") /\ ClearText(h) /\ End(h)
          /\ UNCHANGED <<journal, expired, readOnly, recorded, backend>>
      BY <2>2 DEF Execute, Transition
    <3> QED
      BY <3>1 DEF IInv, TypeOK, HandlerInv, HandlerOK, End, ClearText
  <2> QED BY <2>1, <2>2
<1>2. BackendInv'
  BY JournalAssumption DEF IInv, TypeOK, HandlerInv, HandlerOK, BackendInv, BackendOK,
     Execute, Transition, ClearText, End
<1>3. HandlerInv'
  <2> SUFFICES ASSUME NEW g \in Handlers PROVE HandlerOK(g)' BY DEF HandlerInv
  <2>1. CASE g = h
    BY <2>1, JournalAssumption DEF IInv, TypeOK, HandlerInv, HandlerOK, BackendInv,
       BackendOK, Execute, Transition, ClearText, End
  <2>2. CASE g # h
    BY <2>2 DEF IInv, TypeOK, HandlerInv, HandlerOK, OneExecutor, Execute, Transition,
       ClearText, End
  <2> QED BY <2>1, <2>2
<1>4. OneExecutor'
  BY DEF IInv, TypeOK, HandlerInv, HandlerOK, OneExecutor, Execute, Transition,
     ClearText, End
<1>5. JournalTruthful'
  BY JournalAssumption DEF IInv, TypeOK, HandlerInv, HandlerOK, BackendInv, BackendOK,
     JournalTruthful, Execute, Transition, ClearText, End
<1> QED BY <1>1, <1>2, <1>3, <1>4, <1>5 DEF IInv

LEMMA SendWriteInv ==
    ASSUME IInv, NEW h \in Handlers, SendWrite(h) PROVE IInv'
<1>1. TypeOK'
  BY DEF IInv, TypeOK, HandlerInv, HandlerOK, SendWrite
<1>2. BackendInv'
  BY JournalAssumption DEF IInv, TypeOK, HandlerInv, HandlerOK, BackendInv, BackendOK,
     SendWrite
<1>3. HandlerInv'
  <2> SUFFICES ASSUME NEW g \in Handlers PROVE HandlerOK(g)' BY DEF HandlerInv
  <2>1. CASE g = h
    BY <2>1, JournalAssumption DEF IInv, TypeOK, HandlerInv, HandlerOK, BackendInv,
       BackendOK, SendWrite
  <2>2. CASE g # h
    BY <2>2 DEF IInv, TypeOK, HandlerInv, HandlerOK, OneExecutor, SendWrite
  <2> QED BY <2>1, <2>2
<1>4. OneExecutor'
  BY DEF IInv, TypeOK, HandlerInv, HandlerOK, OneExecutor, SendWrite
<1>5. JournalTruthful'
  BY JournalAssumption DEF IInv, TypeOK, HandlerInv, HandlerOK, BackendInv, BackendOK,
     JournalTruthful, SendWrite
<1> QED BY <1>1, <1>2, <1>3, <1>4, <1>5 DEF IInv

LEMMA RefuseLocallyInv ==
    ASSUME IInv, NEW h \in Handlers, RefuseLocally(h) PROVE IInv'
<1>1. TypeOK'
  BY DEF IInv, TypeOK, HandlerInv, HandlerOK, RefuseLocally, Settle, Transition,
     ClearText, End
<1>2. BackendInv'
  BY JournalAssumption DEF IInv, TypeOK, HandlerInv, HandlerOK, BackendInv, BackendOK,
     RefuseLocally, Settle, Transition, ClearText, End
<1>3. HandlerInv'
  <2> SUFFICES ASSUME NEW g \in Handlers PROVE HandlerOK(g)' BY DEF HandlerInv
  <2>1. CASE g = h
    BY <2>1, JournalAssumption DEF IInv, TypeOK, HandlerInv, HandlerOK, BackendInv,
       BackendOK, RefuseLocally, Settle, Transition, ClearText, End
  <2>2. CASE g # h
    BY <2>2 DEF IInv, TypeOK, HandlerInv, HandlerOK, OneExecutor, RefuseLocally,
       Settle, Transition, ClearText, End
  <2> QED BY <2>1, <2>2
<1>4. OneExecutor'
  BY DEF IInv, TypeOK, HandlerInv, HandlerOK, OneExecutor, RefuseLocally, Settle,
     Transition, ClearText, End
<1>5. JournalTruthful'
  BY JournalAssumption DEF IInv, TypeOK, HandlerInv, HandlerOK, BackendInv, BackendOK,
     JournalTruthful, RefuseLocally, Settle, Transition, ClearText, End
<1> QED BY <1>1, <1>2, <1>3, <1>4, <1>5 DEF IInv

LEMMA SucceededInv ==
    ASSUME IInv, NEW h \in Handlers, Succeeded(h) PROVE IInv'
<1>1. TypeOK'
  BY DEF IInv, TypeOK, HandlerInv, HandlerOK, Succeeded
<1>2. BackendInv'
  BY JournalAssumption DEF IInv, TypeOK, HandlerInv, HandlerOK, BackendInv, BackendOK,
     Succeeded
<1>3. HandlerInv'
  <2> SUFFICES ASSUME NEW g \in Handlers PROVE HandlerOK(g)' BY DEF HandlerInv
  <2>1. CASE g = h
    BY <2>1, JournalAssumption DEF IInv, TypeOK, HandlerInv, HandlerOK, BackendInv,
       BackendOK, Succeeded
  <2>2. CASE g # h
    BY <2>2 DEF IInv, TypeOK, HandlerInv, HandlerOK, OneExecutor, Succeeded
  <2> QED BY <2>1, <2>2
<1>4. OneExecutor'
  BY DEF IInv, TypeOK, HandlerInv, HandlerOK, OneExecutor, Succeeded
<1>5. JournalTruthful'
  BY JournalAssumption DEF IInv, TypeOK, HandlerInv, HandlerOK, BackendInv, BackendOK,
     JournalTruthful, Succeeded
<1> QED BY <1>1, <1>2, <1>3, <1>4, <1>5 DEF IInv

LEMMA RefusedInv ==
    ASSUME IInv, NEW h \in Handlers, Refused(h) PROVE IInv'
<1>1. TypeOK'
  BY DEF IInv, TypeOK, HandlerInv, HandlerOK, Refused, Settle, Transition, ClearText,
     End
<1>2. BackendInv'
  BY JournalAssumption DEF IInv, TypeOK, HandlerInv, HandlerOK, BackendInv, BackendOK,
     Refused, Settle, Transition, ClearText, End
<1>3. HandlerInv'
  <2> SUFFICES ASSUME NEW g \in Handlers PROVE HandlerOK(g)' BY DEF HandlerInv
  <2>1. CASE g = h
    BY <2>1, JournalAssumption DEF IInv, TypeOK, HandlerInv, HandlerOK, BackendInv,
       BackendOK, Refused, Settle, Transition, ClearText, End
  <2>2. CASE g # h
    BY <2>2 DEF IInv, TypeOK, HandlerInv, HandlerOK, OneExecutor, Refused, Settle,
       Transition, ClearText, End
  <2> QED BY <2>1, <2>2
<1>4. OneExecutor'
  BY DEF IInv, TypeOK, HandlerInv, HandlerOK, OneExecutor, Refused, Settle,
     Transition, ClearText, End
<1>5. JournalTruthful'
  BY JournalAssumption DEF IInv, TypeOK, HandlerInv, HandlerOK, BackendInv, BackendOK,
     JournalTruthful, Refused, Settle, Transition, ClearText, End
<1> QED BY <1>1, <1>2, <1>3, <1>4, <1>5 DEF IInv

LEMMA UnclearInv ==
    ASSUME IInv, NEW h \in Handlers, Unclear(h) PROVE IInv'
<1>1. TypeOK'
  BY DEF IInv, TypeOK, HandlerInv, HandlerOK, Unclear
<1>2. BackendInv'
  BY JournalAssumption DEF IInv, TypeOK, HandlerInv, HandlerOK, BackendInv, BackendOK,
     Unclear
<1>3. HandlerInv'
  <2> SUFFICES ASSUME NEW g \in Handlers PROVE HandlerOK(g)' BY DEF HandlerInv
  <2>1. CASE g = h
    BY <2>1, JournalAssumption DEF IInv, TypeOK, HandlerInv, HandlerOK, BackendInv,
       BackendOK, Unclear
  <2>2. CASE g # h
    BY <2>2 DEF IInv, TypeOK, HandlerInv, HandlerOK, OneExecutor, Unclear
  <2> QED BY <2>1, <2>2
<1>4. OneExecutor'
  BY DEF IInv, TypeOK, HandlerInv, HandlerOK, OneExecutor, Unclear
<1>5. JournalTruthful'
  BY JournalAssumption DEF IInv, TypeOK, HandlerInv, HandlerOK, BackendInv, BackendOK,
     JournalTruthful, Unclear
<1> QED BY <1>1, <1>2, <1>3, <1>4, <1>5 DEF IInv

LEMMA VerifiedInv ==
    ASSUME IInv, NEW h \in Handlers, Verified(h) PROVE IInv'
<1>1. TypeOK'
  BY DEF IInv, TypeOK, HandlerInv, HandlerOK, Verified
<1>2. BackendInv'
  BY JournalAssumption DEF IInv, TypeOK, HandlerInv, HandlerOK, BackendInv, BackendOK,
     Verified
<1>3. HandlerInv'
  <2> SUFFICES ASSUME NEW g \in Handlers PROVE HandlerOK(g)' BY DEF HandlerInv
  <2>1. CASE g = h
    BY <2>1, JournalAssumption DEF IInv, TypeOK, HandlerInv, HandlerOK, BackendInv,
       BackendOK, Verified
  <2>2. CASE g # h
    BY <2>2 DEF IInv, TypeOK, HandlerInv, HandlerOK, OneExecutor, Verified
  <2> QED BY <2>1, <2>2
<1>4. OneExecutor'
  BY DEF IInv, TypeOK, HandlerInv, HandlerOK, OneExecutor, Verified
<1>5. JournalTruthful'
  BY JournalAssumption DEF IInv, TypeOK, HandlerInv, HandlerOK, BackendInv, BackendOK,
     JournalTruthful, Verified
<1> QED BY <1>1, <1>2, <1>3, <1>4, <1>5 DEF IInv

LEMMA UnverifiedInv ==
    ASSUME IInv, NEW h \in Handlers, Unverified(h) PROVE IInv'
<1>1. TypeOK'
  BY DEF IInv, TypeOK, HandlerInv, HandlerOK, Unverified, Settle, Transition,
     ClearText, End
<1>2. BackendInv'
  BY JournalAssumption DEF IInv, TypeOK, HandlerInv, HandlerOK, BackendInv, BackendOK,
     Unverified, Settle, Transition, ClearText, End
<1>3. HandlerInv'
  <2> SUFFICES ASSUME NEW g \in Handlers PROVE HandlerOK(g)' BY DEF HandlerInv
  <2>1. CASE g = h
    BY <2>1, JournalAssumption DEF IInv, TypeOK, HandlerInv, HandlerOK, BackendInv,
       BackendOK, Unverified, Settle, Transition, ClearText, End
  <2>2. CASE g # h
    BY <2>2 DEF IInv, TypeOK, HandlerInv, HandlerOK, OneExecutor, Unverified, Settle,
       Transition, ClearText, End
  <2> QED BY <2>1, <2>2
<1>4. OneExecutor'
  BY DEF IInv, TypeOK, HandlerInv, HandlerOK, OneExecutor, Unverified, Settle,
     Transition, ClearText, End
<1>5. JournalTruthful'
  BY JournalAssumption DEF IInv, TypeOK, HandlerInv, HandlerOK, BackendInv, BackendOK,
     JournalTruthful, Unverified, Settle, Transition, ClearText, End
<1> QED BY <1>1, <1>2, <1>3, <1>4, <1>5 DEF IInv

LEMMA StillThereInv ==
    ASSUME IInv, NEW h \in Handlers, StillThere(h) PROVE IInv'
<1>1. TypeOK'
  BY DEF IInv, TypeOK, HandlerInv, HandlerOK, StillThere, Settle, Transition,
     ClearText, End
<1>2. BackendInv'
  BY JournalAssumption DEF IInv, TypeOK, HandlerInv, HandlerOK, BackendInv, BackendOK,
     StillThere, Settle, Transition, ClearText, End
<1>3. HandlerInv'
  <2> SUFFICES ASSUME NEW g \in Handlers PROVE HandlerOK(g)' BY DEF HandlerInv
  <2>1. CASE g = h
    BY <2>1, JournalAssumption DEF IInv, TypeOK, HandlerInv, HandlerOK, BackendInv,
       BackendOK, StillThere, Settle, Transition, ClearText, End
  <2>2. CASE g # h
    BY <2>2 DEF IInv, TypeOK, HandlerInv, HandlerOK, OneExecutor, StillThere, Settle,
       Transition, ClearText, End
  <2> QED BY <2>1, <2>2
<1>4. OneExecutor'
  BY DEF IInv, TypeOK, HandlerInv, HandlerOK, OneExecutor, StillThere, Settle,
     Transition, ClearText, End
<1>5. JournalTruthful'
  BY JournalAssumption DEF IInv, TypeOK, HandlerInv, HandlerOK, BackendInv, BackendOK,
     JournalTruthful, StillThere, Settle, Transition, ClearText, End
<1> QED BY <1>1, <1>2, <1>3, <1>4, <1>5 DEF IInv

LEMMA RecordInv ==
    ASSUME IInv, NEW h \in Handlers, Record(h) PROVE IInv'
<1>1. TypeOK'
  BY DEF IInv, TypeOK, HandlerInv, HandlerOK, Record, Transition
<1>2. BackendInv'
  BY JournalAssumption DEF IInv, TypeOK, HandlerInv, HandlerOK, BackendInv, BackendOK,
     Record, Transition
<1>3. HandlerInv'
  <2> SUFFICES ASSUME NEW g \in Handlers PROVE HandlerOK(g)' BY DEF HandlerInv
  <2>1. CASE g = h
    BY <2>1, JournalAssumption DEF IInv, TypeOK, HandlerInv, HandlerOK, BackendInv,
       BackendOK, Record, Transition
  <2>2. CASE g # h
    BY <2>2 DEF IInv, TypeOK, HandlerInv, HandlerOK, OneExecutor, Record, Transition
  <2> QED BY <2>1, <2>2
<1>4. OneExecutor'
  BY DEF IInv, TypeOK, HandlerInv, HandlerOK, OneExecutor, Record, Transition
<1>5. JournalTruthful'
  BY JournalAssumption DEF IInv, TypeOK, HandlerInv, HandlerOK, BackendInv, BackendOK,
     JournalTruthful, Record, Transition
<1> QED BY <1>1, <1>2, <1>3, <1>4, <1>5 DEF IInv

LEMMA RememberInv ==
    ASSUME IInv, NEW h \in Handlers, Remember(h) PROVE IInv'
<1>1. TypeOK'
  BY DEF IInv, TypeOK, HandlerInv, HandlerOK, Remember, ClearText, End
<1>2. BackendInv'
  BY JournalAssumption DEF IInv, TypeOK, HandlerInv, HandlerOK, BackendInv, BackendOK,
     Remember, ClearText, End
<1>3. HandlerInv'
  <2> SUFFICES ASSUME NEW g \in Handlers PROVE HandlerOK(g)' BY DEF HandlerInv
  <2>1. CASE g = h
    BY <2>1, JournalAssumption DEF IInv, TypeOK, HandlerInv, HandlerOK, BackendInv,
       BackendOK, Remember, ClearText, End
  <2>2. CASE g # h
    BY <2>2 DEF IInv, TypeOK, HandlerInv, HandlerOK, OneExecutor, Remember, ClearText,
       End
  <2> QED BY <2>1, <2>2
<1>4. OneExecutor'
  BY DEF IInv, TypeOK, HandlerInv, HandlerOK, OneExecutor, Remember, ClearText, End
<1>5. JournalTruthful'
  BY JournalAssumption DEF IInv, TypeOK, HandlerInv, HandlerOK, BackendInv, BackendOK,
     JournalTruthful, Remember, ClearText, End
<1> QED BY <1>1, <1>2, <1>3, <1>4, <1>5 DEF IInv

LEMMA RespondInv ==
    ASSUME IInv, NEW h \in Handlers, Respond(h) PROVE IInv'
<1>1. TypeOK'
  BY DEF IInv, TypeOK, HandlerInv, HandlerOK, Respond, End
<1>2. BackendInv'
  BY JournalAssumption DEF IInv, TypeOK, HandlerInv, HandlerOK, BackendInv, BackendOK,
     Respond, End
<1>3. HandlerInv'
  <2> SUFFICES ASSUME NEW g \in Handlers PROVE HandlerOK(g)' BY DEF HandlerInv
  <2>1. CASE g = h
    BY <2>1, JournalAssumption DEF IInv, TypeOK, HandlerInv, HandlerOK, BackendInv,
       BackendOK, Respond, End
  <2>2. CASE g # h
    BY <2>2 DEF IInv, TypeOK, HandlerInv, HandlerOK, OneExecutor, Respond, End
  <2> QED BY <2>1, <2>2
<1>4. OneExecutor'
  BY DEF IInv, TypeOK, HandlerInv, HandlerOK, OneExecutor, Respond, End
<1>5. JournalTruthful'
  BY JournalAssumption DEF IInv, TypeOK, HandlerInv, HandlerOK, BackendInv, BackendOK,
     JournalTruthful, Respond, End
<1> QED BY <1>1, <1>2, <1>3, <1>4, <1>5 DEF IInv

LEMMA FindInv ==
    ASSUME IInv, NEW h \in Handlers, Find(h) PROVE IInv'
<1>1. TypeOK'
  BY DEF IInv, TypeOK, HandlerInv, HandlerOK, Find, Recoverable
<1>2. BackendInv'
  BY JournalAssumption DEF IInv, TypeOK, HandlerInv, HandlerOK, BackendInv, BackendOK,
     Find, Recoverable
<1>3. HandlerInv'
  <2> SUFFICES ASSUME NEW g \in Handlers PROVE HandlerOK(g)' BY DEF HandlerInv
  <2>1. CASE g = h
    BY <2>1, JournalAssumption DEF IInv, TypeOK, HandlerInv, HandlerOK, BackendInv,
       BackendOK, Find, Recoverable
  <2>2. CASE g # h
    BY <2>2 DEF IInv, TypeOK, HandlerInv, HandlerOK, OneExecutor, Find, Recoverable
  <2> QED BY <2>1, <2>2
<1>4. OneExecutor'
  BY DEF IInv, TypeOK, HandlerInv, HandlerOK, OneExecutor, Find, Recoverable
<1>5. JournalTruthful'
  BY JournalAssumption DEF IInv, TypeOK, HandlerInv, HandlerOK, BackendInv, BackendOK,
     JournalTruthful, Find, Recoverable
<1> QED BY <1>1, <1>2, <1>3, <1>4, <1>5 DEF IInv

LEMMA RecoverInv ==
    ASSUME IInv, NEW h \in Handlers, Recover(h) PROVE IInv'
<1>1. TypeOK'
  <2>1. CASE journal[token[h]] \in Unresolved
    BY <2>1 DEF IInv, TypeOK, HandlerInv, HandlerOK, Recover, Transition, End
  <2>2. CASE ~(journal[token[h]] \in Unresolved)
    <3>1. /\ At(h, "recover") /\ Tell(token[h], "executed") /\ End(h)
          /\ UNCHANGED <<journal, expired, waiting, readOnly, recorded, backend>>
      BY <2>2 DEF Recover, Transition
    <3> QED
      BY <3>1 DEF IInv, TypeOK, HandlerInv, HandlerOK, End
  <2> QED BY <2>1, <2>2
<1>2. BackendInv'
  BY JournalAssumption DEF IInv, TypeOK, HandlerInv, HandlerOK, BackendInv, BackendOK,
     Recover, Transition, End
<1>3. HandlerInv'
  <2> SUFFICES ASSUME NEW g \in Handlers PROVE HandlerOK(g)' BY DEF HandlerInv
  <2>1. CASE g = h
    BY <2>1, JournalAssumption DEF IInv, TypeOK, HandlerInv, HandlerOK, BackendInv,
       BackendOK, Recover, Transition, End
  <2>2. CASE g # h
    BY <2>2 DEF IInv, TypeOK, HandlerInv, HandlerOK, OneExecutor, Recover, Transition,
       End
  <2> QED BY <2>1, <2>2
<1>4. OneExecutor'
  BY DEF IInv, TypeOK, HandlerInv, HandlerOK, OneExecutor, Recover, Transition, End
<1>5. JournalTruthful'
  BY JournalAssumption DEF IInv, TypeOK, HandlerInv, HandlerOK, BackendInv, BackendOK,
     JournalTruthful, Recover, Transition, End
<1> QED BY <1>1, <1>2, <1>3, <1>4, <1>5 DEF IInv

LEMMA CutShortInv ==
    ASSUME IInv, NEW h \in Handlers, CutShort(h), waiting' \subseteq waiting,
           told' \in {told, [told EXCEPT ![token[h]] = "error"]}
    PROVE  IInv'
<1>1. TypeOK'
  BY DEF IInv, TypeOK, HandlerInv, HandlerOK, CutShort, Transition, Declined,
     Blocked, End
<1>2. BackendInv'
  BY JournalAssumption DEF IInv, TypeOK, HandlerInv, HandlerOK, BackendInv, BackendOK,
     CutShort, Transition, Declined, Blocked, End
<1>3. HandlerInv'
  <2> SUFFICES ASSUME NEW g \in Handlers PROVE HandlerOK(g)' BY DEF HandlerInv
  <2>1. CASE g = h
    BY <2>1, JournalAssumption DEF IInv, TypeOK, HandlerInv, HandlerOK, BackendInv,
       BackendOK, CutShort, Transition, Declined, Blocked, End
  <2>2. CASE g # h
    BY <2>2 DEF IInv, TypeOK, HandlerInv, HandlerOK, OneExecutor, CutShort,
       Transition, Declined, Blocked, End
  <2> QED BY <2>1, <2>2
<1>4. OneExecutor'
  BY DEF IInv, TypeOK, HandlerInv, HandlerOK, OneExecutor, CutShort, Transition,
     Declined, Blocked, End
<1>5. JournalTruthful'
  BY JournalAssumption DEF IInv, TypeOK, HandlerInv, HandlerOK, BackendInv, BackendOK,
     JournalTruthful, CutShort, Transition, Declined, Blocked, End
<1> QED BY <1>1, <1>2, <1>3, <1>4, <1>5 DEF IInv

LEMMA InterruptInv ==
    ASSUME IInv, NEW h \in Handlers, Interrupt(h) PROVE IInv'
BY CutShortInv DEF Interrupt

LEMMA CaughtInv ==
    ASSUME IInv, NEW h \in Handlers, Caught(h) PROVE IInv'
<1>1. CutShort(h) /\ waiting' \subseteq waiting
  BY DEF Caught, ClearText
<1>2. told' = [told EXCEPT ![token[h]] = "error"]
  BY DEF Caught
<1> QED BY <1>1, <1>2, CutShortInv

LEMMA IssueInv ==
    ASSUME IInv, NEW t \in Tokens, Issue(t) PROVE IInv'
<1>1. TypeOK'
  BY DEF IInv, TypeOK, HandlerInv, HandlerOK, Issue, SessionFree
<1>2. BackendInv'
  BY JournalAssumption DEF IInv, TypeOK, HandlerInv, HandlerOK, BackendInv, BackendOK,
     Issue, SessionFree
<1>3. HandlerInv'
  <2> SUFFICES ASSUME NEW g \in Handlers PROVE HandlerOK(g)' BY DEF HandlerInv
  <2> QED
    BY JournalAssumption DEF IInv, TypeOK, HandlerInv, HandlerOK, BackendInv,
       BackendOK, Issue, SessionFree
<1>4. OneExecutor'
  BY DEF IInv, TypeOK, HandlerInv, HandlerOK, OneExecutor, Issue, SessionFree
<1>5. JournalTruthful'
  BY JournalAssumption DEF IInv, TypeOK, HandlerInv, HandlerOK, BackendInv, BackendOK,
     JournalTruthful, Issue, SessionFree
<1> QED BY <1>1, <1>2, <1>3, <1>4, <1>5 DEF IInv

LEMMA ExpireInv ==
    ASSUME IInv, NEW t \in Tokens, Expire(t) PROVE IInv'
<1>1. TypeOK'
  BY DEF IInv, TypeOK, HandlerInv, HandlerOK, Expire
<1>2. BackendInv'
  BY JournalAssumption DEF IInv, TypeOK, HandlerInv, HandlerOK, BackendInv, BackendOK,
     Expire
<1>3. HandlerInv'
  <2> SUFFICES ASSUME NEW g \in Handlers PROVE HandlerOK(g)' BY DEF HandlerInv
  <2> QED
    BY JournalAssumption DEF IInv, TypeOK, HandlerInv, HandlerOK, BackendInv,
       BackendOK, Expire
<1>4. OneExecutor'
  BY DEF IInv, TypeOK, HandlerInv, HandlerOK, OneExecutor, Expire
<1>5. JournalTruthful'
  BY JournalAssumption DEF IInv, TypeOK, HandlerInv, HandlerOK, BackendInv, BackendOK,
     JournalTruthful, Expire
<1> QED BY <1>1, <1>2, <1>3, <1>4, <1>5 DEF IInv

LEMMA ReachedByOthersInv ==
    ASSUME IInv, NEW t \in Tokens, ReachedByOthers(t) PROVE IInv'
<1>1. TypeOK'
  BY DEF IInv, TypeOK, HandlerInv, HandlerOK, ReachedByOthers
<1>2. BackendInv'
  BY JournalAssumption DEF IInv, TypeOK, HandlerInv, HandlerOK, BackendInv, BackendOK,
     ReachedByOthers
<1>3. HandlerInv'
  <2> SUFFICES ASSUME NEW g \in Handlers PROVE HandlerOK(g)' BY DEF HandlerInv
  <2> QED
    BY JournalAssumption DEF IInv, TypeOK, HandlerInv, HandlerOK, BackendInv,
       BackendOK, ReachedByOthers
<1>4. OneExecutor'
  BY DEF IInv, TypeOK, HandlerInv, HandlerOK, OneExecutor, ReachedByOthers
<1>5. JournalTruthful'
  BY JournalAssumption DEF IInv, TypeOK, HandlerInv, HandlerOK, BackendInv, BackendOK,
     JournalTruthful, ReachedByOthers
<1> QED BY <1>1, <1>2, <1>3, <1>4, <1>5 DEF IInv

LEMMA ArriveInv ==
    ASSUME IInv, NEW t \in Tokens, NEW fate \in Fates,
           Arrive(t, fate) PROVE IInv'
<1>1. TypeOK'
  BY DEF IInv, TypeOK, HandlerInv, HandlerOK, Arrive
<1>2. BackendInv'
  <2> SUFFICES ASSUME NEW u \in Tokens PROVE BackendOK(u)' BY DEF BackendInv
  <2>1. CASE u = t
    <3>1. BackendOK(t) /\ request[t] = "sent" /\ journal' = journal
      BY DEF IInv, BackendInv, Arrive
    <3>2. /\ request'[t] = fate
          /\ held'[t] = (held[t] \/ fate = "applied")
          /\ sends'[t] = sends[t] /\ class'[t] = class[t]
          /\ fate = "ignored" => class[t] = "cart"
      BY DEF IInv, TypeOK, Arrive
    <3> QED BY <2>1, <3>1, <3>2 DEF BackendOK
  <2>2. CASE u # t
    BY <2>2 DEF IInv, TypeOK, BackendInv, BackendOK, Arrive
  <2> QED BY <2>1, <2>2
<1>3. HandlerInv'
  <2> SUFFICES ASSUME NEW g \in Handlers PROVE HandlerOK(g)' BY DEF HandlerInv
  <2> QED
    BY JournalAssumption DEF IInv, TypeOK, HandlerInv, HandlerOK, BackendInv,
       BackendOK, Arrive
<1>4. OneExecutor'
  BY DEF IInv, TypeOK, HandlerInv, HandlerOK, OneExecutor, Arrive
<1>5. JournalTruthful'
  BY JournalAssumption DEF IInv, TypeOK, HandlerInv, HandlerOK, BackendInv, BackendOK,
     JournalTruthful, Arrive
<1> QED BY <1>1, <1>2, <1>3, <1>4, <1>5 DEF IInv

LEMMA ClearConversationInv ==
    ASSUME IInv, ClearConversation PROVE IInv'
<1>1. TypeOK'
  BY DEF IInv, TypeOK, HandlerInv, HandlerOK, ClearConversation, SessionFree
<1>2. BackendInv'
  BY JournalAssumption DEF IInv, TypeOK, HandlerInv, HandlerOK, BackendInv, BackendOK,
     ClearConversation, SessionFree
<1>3. HandlerInv'
  <2> SUFFICES ASSUME NEW g \in Handlers PROVE HandlerOK(g)' BY DEF HandlerInv
  <2> QED
    BY JournalAssumption DEF IInv, TypeOK, HandlerInv, HandlerOK, BackendInv,
       BackendOK, ClearConversation, SessionFree
<1>4. OneExecutor'
  BY DEF IInv, TypeOK, HandlerInv, HandlerOK, OneExecutor, ClearConversation,
     SessionFree
<1>5. JournalTruthful'
  BY JournalAssumption DEF IInv, TypeOK, HandlerInv, HandlerOK, BackendInv, BackendOK,
     JournalTruthful, ClearConversation, SessionFree
<1> QED BY <1>1, <1>2, <1>3, <1>4, <1>5 DEF IInv

LEMMA CleanupInv ==
    ASSUME IInv, NEW old \in SUBSET Tokens, Cleanup(old) PROVE IInv'
<1>1. TypeOK'
  BY DEF IInv, TypeOK, HandlerInv, HandlerOK, Cleanup, Working
<1>2. BackendInv'
  BY JournalAssumption DEF IInv, TypeOK, HandlerInv, HandlerOK, BackendInv, BackendOK,
     Cleanup, Working
<1>3. HandlerInv'
  <2> SUFFICES ASSUME NEW g \in Handlers PROVE HandlerOK(g)' BY DEF HandlerInv
  <2> QED
    BY JournalAssumption DEF IInv, TypeOK, HandlerInv, HandlerOK, BackendInv,
       BackendOK, Cleanup, Working
<1>4. OneExecutor'
  BY DEF IInv, TypeOK, HandlerInv, HandlerOK, OneExecutor, Cleanup, Working
<1>5. JournalTruthful'
  BY JournalAssumption DEF IInv, TypeOK, HandlerInv, HandlerOK, BackendInv, BackendOK,
     JournalTruthful, Cleanup, Working
<1> QED BY <1>1, <1>2, <1>3, <1>4, <1>5 DEF IInv

LEMMA RestartInv ==
    ASSUME IInv, NEW dead \in SUBSET Handlers, Restart(dead) PROVE IInv'
<1>1. TypeOK'
  BY DEF IInv, TypeOK, HandlerInv, HandlerOK, Restart
<1>2. BackendInv'
  BY JournalAssumption DEF IInv, TypeOK, HandlerInv, HandlerOK, BackendInv, BackendOK,
     Restart
<1>3. HandlerInv'
  <2> SUFFICES ASSUME NEW g \in Handlers PROVE HandlerOK(g)' BY DEF HandlerInv
  <2> QED
    BY JournalAssumption DEF IInv, TypeOK, HandlerInv, HandlerOK, BackendInv,
       BackendOK, Restart
<1>4. OneExecutor'
  BY DEF IInv, TypeOK, HandlerInv, HandlerOK, OneExecutor, Restart
<1>5. JournalTruthful'
  BY JournalAssumption DEF IInv, TypeOK, HandlerInv, HandlerOK, BackendInv, BackendOK,
     JournalTruthful, Restart
<1> QED BY <1>1, <1>2, <1>3, <1>4, <1>5 DEF IInv

-----------------------------------------------------------------------------
(* The invariant holds *)

LEMMA InitInv == Init => IInv
<1> SUFFICES ASSUME Init PROVE IInv OBVIOUS
<1>1. TypeOK
  BY JournalAssumption DEF Init, TypeOK
<1>2. BackendInv
  BY DEF Init, BackendInv, BackendOK
<1>3. HandlerInv /\ OneExecutor
  BY DEF Init, HandlerInv, HandlerOK, OneExecutor
<1>4. JournalTruthful
  BY DEF Init, JournalTruthful
<1> QED BY <1>1, <1>2, <1>3, <1>4 DEF IInv

LEMMA HandlerStepInv ==
    ASSUME IInv, NEW h \in Handlers, HandlerStep(h) PROVE IInv'
<1>1. ASSUME NEW t \in Tokens, Ask(h, t) PROVE IInv'
  BY <1>1, StartInv DEF Ask
<1>2. ASSUME NEW t \in Tokens, NEW approve \in BOOLEAN, Press(h, t, approve) \/ Say(h, t, approve)
      PROVE IInv'
  BY <1>2, StartInv DEF Press, Say
<1> QED
  BY <1>1, <1>2, LookupInv, ConsumeInv, AcceptInv, RejectInv, BlockInv, ApproveInv, ExecuteInv,
     SendWriteInv, RefuseLocallyInv, SucceededInv, RefusedInv, UnclearInv, VerifiedInv,
     UnverifiedInv, RecordInv, RememberInv, RespondInv, FindInv, RecoverInv, InterruptInv,
     StillThereInv, CaughtInv
  DEF HandlerStep

LEMMA NextInv == IInv /\ [Next]_vars => IInv'
<1> SUFFICES ASSUME IInv, [Next]_vars PROVE IInv' OBVIOUS
<1>1. CASE UNCHANGED vars
  BY <1>1 DEF IInv, TypeOK, BackendInv, BackendOK, HandlerInv, HandlerOK, OneExecutor,
     JournalTruthful
<1>2. CASE Next
  BY <1>2, HandlerStepInv, IssueInv, ExpireInv, ReachedByOthersInv, ArriveInv,
     ClearConversationInv, CleanupInv, RestartInv DEF Next
<1> QED BY <1>1, <1>2

\* The invariant the proofs rest on: who executes what, and what the backend
\* may have seen of it.
THEOREM JournalInvariant == Spec => []IInv
  BY InitInv, NextInv, PTL DEF Spec

\* Every variable stays in its set, for any tokens and handlers.
THEOREM TypeCorrect == Spec => []TypeOK
<1>1. IInv => TypeOK BY DEF IInv
<1> QED BY <1>1, JournalInvariant, PTL

\* However many handlers and restarts: one write request per confirmation.
THEOREM WriteSentOnce == Spec => []SentOnce
<1>1. IInv => SentOnce
  <2> SUFFICES ASSUME IInv, NEW t \in Tokens PROVE sends[t] <= 1 BY DEF SentOnce
  <2>1. sends[t] = 0 \/ sends[t] = 1
    BY DEF IInv, BackendInv, BackendOK
  <2> QED BY <2>1
<1> QED BY <1>1, JournalInvariant, PTL

\* The journal never says of an operation what is not so at the backend.
THEOREM JournalIsTrue == Spec => []JournalTruthful
<1>1. IInv => JournalTruthful BY DEF IInv
<1> QED BY <1>1, JournalInvariant, PTL

-----------------------------------------------------------------------------
(* What a step does to the records *)

\* The moves a single record may make.
Legal(t, status) ==
    \/ journal[t] = "absent" /\ status = "prepared"
    \/ journal[t] = "prepared" /\ status = "accepted"
    \/ journal[t] = "accepted" /\ status \in {"processing", "failed", "cancelled"}
    \/ journal[t] = "processing" /\ status = "unknown"
    \/ journal[t] = "processing" /\ status = "failed" /\ request[t] \in NotApplied
    \/ journal[t] \in {"processing", "unknown"} /\ status = "executed" /\ held[t]

Quiet == UNCHANGED <<journal, request, held>>

OneRecord ==
    \E t \in Tokens, status \in Statuses :
        /\ Legal(t, status)
        /\ journal' = [journal EXCEPT ![t] = status]
        /\ UNCHANGED <<request, held>>

SweptRecords ==
    /\ \A t \in Tokens :
          \/ journal'[t] = journal[t]
          \/ journal[t] = "prepared" /\ journal'[t] = "cancelled"
          \/ journal[t] \in Terminal /\ journal'[t] = "deleted"
    /\ UNCHANGED <<request, held>>

Sending ==
    \E t \in Tokens :
        /\ journal[t] \in {"processing", "executed"}
        /\ request[t] = "unsent"
        /\ request' = [request EXCEPT ![t] = "sent"]
        /\ UNCHANGED <<journal, held>>

AtBackend ==
    \E t \in Tokens :
        \/ ReachedByOthers(t)
        \/ \E fate \in Fates : Arrive(t, fate)

\* A compare-and-set that is legal wherever it succeeds is one of these.
LEMMA TransitionMoves ==
    ASSUME IInv, NEW t \in Tokens, NEW expected, NEW status \in Statuses,
           Transition(t, expected, status), UNCHANGED <<request, held>>,
           journal[t] \in expected => Legal(t, status)
    PROVE  Quiet \/ OneRecord
  BY DEF Transition, Quiet, OneRecord

LEMMA HandlerMoves ==
    ASSUME IInv, NEW h \in Handlers, HandlerStep(h)
    PROVE  Quiet \/ OneRecord \/ Sending
<1> USE DEF Quiet
<1>0. pc[h] # "idle" => token[h] \in Tokens
  BY DEF IInv, HandlerInv, HandlerOK
<1>1. (\E t \in Tokens : Ask(h, t)) => Quiet
  BY DEF Ask, Start
<1>2. (\E t \in Tokens, approve \in BOOLEAN : Press(h, t, approve) \/ Say(h, t, approve)) => Quiet
  BY DEF Press, Say, Start
<1>3. Lookup(h) \/ Approve(h) \/ Succeeded(h) \/ Unclear(h) \/ Verified(h) \/ Remember(h)
         \/ Respond(h) \/ Find(h) \/ Consume(h) => Quiet
  BY DEF Lookup, Approve, Succeeded, Unclear, Verified, Remember, Respond, Find,
     Consume, NotConsumed
<1>4. CASE Accept(h)
  <2>1. CASE journal[token[h]] = "prepared"
    BY <1>0, <1>4, <2>1, TransitionMoves DEF Accept, Legal
  <2>2. CASE journal[token[h]] # "prepared"
    BY <1>4, <2>2 DEF Accept, NotConsumed
  <2> QED BY <2>1, <2>2
<1>5. CASE Reject(h) \/ Block(h) \/ Execute(h)
  BY <1>0, <1>5, TransitionMoves DEF Reject, Block, Execute, Legal
<1>6. CASE SendWrite(h)
  BY <1>0, <1>6 DEF IInv, HandlerInv, HandlerOK, SendWrite, Sending
<1>7. CASE RefuseLocally(h) \/ Refused(h) \/ Unverified(h)
  BY <1>0, <1>7, TransitionMoves DEF IInv, HandlerInv, HandlerOK, RefuseLocally,
     Refused, Unverified, Settle, Legal
<1>11. CASE StillThere(h)
  <2>1. token[h] \in Tokens /\ request[token[h]] = "ignored"
    BY <1>0, <1>11 DEF IInv, HandlerInv, HandlerOK, BackendInv, BackendOK, StillThere
  <2>2. /\ Transition(token[h], {"processing"}, "failed")
        /\ UNCHANGED <<request, held>>
    BY <1>11 DEF StillThere, Settle
  <2> QED BY <2>1, <2>2, TransitionMoves DEF Legal
<1>8. CASE Record(h)
  BY <1>0, <1>8, TransitionMoves DEF IInv, HandlerInv, HandlerOK, Record, Legal
<1>9. CASE Recover(h)
  BY <1>0, <1>9, TransitionMoves DEF IInv, HandlerInv, HandlerOK, Recover, Legal
<1>10. CASE Interrupt(h) \/ Caught(h)
  <2>1. CutShort(h)
    BY <1>10 DEF Interrupt, Caught
  <2> QED
    BY <1>0, <2>1, TransitionMoves DEF IInv, HandlerInv, HandlerOK, CutShort, Legal
<1> QED
  BY <1>1, <1>2, <1>3, <1>4, <1>5, <1>6, <1>7, <1>8, <1>9, <1>10, <1>11 DEF HandlerStep

LEMMA StepMoves ==
    ASSUME IInv, [Next]_vars
    PROVE  Quiet \/ OneRecord \/ SweptRecords \/ Sending \/ AtBackend
<1>1. CASE UNCHANGED vars
  BY <1>1 DEF Quiet
<1>2. CASE \E h \in Handlers : HandlerStep(h)
  BY <1>2, HandlerMoves
<1>3. CASE \E t \in Tokens : Issue(t)
  BY <1>3 DEF Issue, OneRecord, Legal
<1>4. CASE \E t \in Tokens : Expire(t)
  BY <1>4 DEF Expire, Quiet
<1>5. CASE ClearConversation
  BY <1>5 DEF ClearConversation, SweptRecords
<1>6. CASE \E old \in SUBSET Tokens : Cleanup(old)
  BY <1>6 DEF Cleanup, SweptRecords
<1>7. CASE \E dead \in SUBSET Handlers : Restart(dead)
  BY <1>7 DEF Restart, Quiet
<1> QED
  BY <1>1, <1>2, <1>3, <1>4, <1>5, <1>6, <1>7 DEF Next, AtBackend

\* No late receipt, second handler or maintenance rewrites a verdict.
THEOREM VerdictsStay == Spec => VerdictIsFinal
<1>1. IInv /\ [Next]_vars =>
        \A t \in Tokens : journal[t] \in Terminal => journal'[t] \in {journal[t], "deleted"}
  <2> SUFFICES ASSUME IInv, [Next]_vars, NEW t \in Tokens, journal[t] \in Terminal
               PROVE  journal'[t] \in {journal[t], "deleted"}
    OBVIOUS
  <2>1. CASE OneRecord
    BY <2>1 DEF IInv, TypeOK, OneRecord, Legal
  <2>2. CASE Quiet \/ SweptRecords \/ Sending \/ AtBackend
    BY <2>2 DEF Quiet, SweptRecords, Sending, AtBackend, ReachedByOthers, Arrive
  <2> QED BY <2>1, <2>2, StepMoves
<1>2. IInv /\ [Next]_vars =>
        [\A t \in Tokens : journal[t] \in Terminal => journal'[t] \in {journal[t], "deleted"}]_vars
  BY <1>1
<1> QED BY <1>2, JournalInvariant, PTL DEF Spec, VerdictIsFinal

-----------------------------------------------------------------------------
(* The journal implements the promise *)

LEMMA PhaseValues ==
    /\ PhaseOf("absent") = "absent"
    /\ PhaseOf("prepared") = "offered"
    /\ PhaseOf("accepted") = "taken"
    /\ PhaseOf("processing") = "committed"
    /\ PhaseOf("unknown") = "committed"
    /\ PhaseOf("executed") = "executed"
    /\ PhaseOf("failed") = "notDone"
    /\ PhaseOf("cancelled") = "notDone"
    /\ PhaseOf("deleted") = "forgotten"
  BY Zenon DEF PhaseOf

Phase == [t \in Tokens |-> PhaseOf(journal[t])]

LEMMA PhaseStays ==
    ASSUME UNCHANGED journal PROVE Phase' = Phase
  BY DEF Phase

LEMMA PhaseMoves ==
    ASSUME IInv, NEW t \in Tokens, NEW status \in Statuses,
           journal' = [journal EXCEPT ![t] = status]
    PROVE  Phase' = [Phase EXCEPT ![t] = PhaseOf(status)]
  BY DEF IInv, TypeOK, Phase

LEMMA QuietMaps ==
    ASSUME Quiet PROVE UNCHANGED Promise!vars
  BY PhaseStays DEF Quiet, Promise!vars, Phase

LEMMA OneRecordMaps ==
    ASSUME IInv, OneRecord PROVE Promise!Next \/ UNCHANGED Promise!vars
<1>1. PICK t \in Tokens, status \in Statuses :
         /\ Legal(t, status)
         /\ journal' = [journal EXCEPT ![t] = status]
         /\ UNCHANGED <<request, held>>
  BY DEF OneRecord
<1>2. Phase' = [Phase EXCEPT ![t] = PhaseOf(status)] /\ Phase[t] = PhaseOf(journal[t])
  BY <1>1, PhaseMoves DEF Phase
<1> DEFINE Moved(from, to) == Promise!Move(t, from, to)
<1>3. ASSUME NEW from, PhaseOf(journal[t]) \in from PROVE Moved(from, PhaseOf(status))
  BY <1>1, <1>2, <1>3 DEF Phase, Promise!Move
<1> HIDE DEF Moved
<1>4. CASE journal[t] = "processing" /\ status = "unknown"
  <2>1. ASSUME NEW u \in Tokens PROVE PhaseOf(journal'[u]) = PhaseOf(journal[u])
    <3>1. CASE u = t
      BY <1>1, <1>4, <3>1, PhaseValues DEF IInv, TypeOK
    <3>2. CASE u # t
      BY <1>1, <3>2 DEF IInv, TypeOK
    <3> QED BY <3>1, <3>2
  <2>2. Phase' = Phase
    BY <2>1, Zenon DEF Phase
  <2> QED BY <1>1, <2>2 DEF Promise!vars, Phase
<1>5. CASE journal[t] = "absent" /\ status = "prepared"
  <2>1. Promise!Offer(t) BY <1>3, <1>5, PhaseValues DEF Moved, Promise!Offer
  <2> QED BY <2>1 DEF Promise!Next, Promise!TokenStep
<1>6. CASE journal[t] = "prepared" /\ status = "accepted"
  <2>1. Promise!Take(t) BY <1>3, <1>6, PhaseValues DEF Moved, Promise!Take
  <2> QED BY <2>1 DEF Promise!Next, Promise!TokenStep
<1>7. CASE journal[t] = "accepted" /\ status = "processing"
  <2>1. Promise!Commit(t) BY <1>3, <1>7, PhaseValues DEF Moved, Promise!Commit
  <2> QED BY <2>1 DEF Promise!Next, Promise!TokenStep
<1>8. CASE journal[t] = "accepted" /\ status \in {"failed", "cancelled"}
  <2>1. Promise!Decline(t) BY <1>3, <1>8, PhaseValues DEF Moved, Promise!Decline
  <2> QED BY <2>1 DEF Promise!Next, Promise!TokenStep
<1>9. CASE journal[t] = "processing" /\ status = "failed" /\ request[t] \in NotApplied
  <2>1. Promise!Decline(t) BY <1>3, <1>9, PhaseValues DEF Moved, Promise!Decline
  <2> QED BY <2>1 DEF Promise!Next, Promise!TokenStep
<1>10. CASE journal[t] \in {"processing", "unknown"} /\ status = "executed" /\ held[t]
  <2>1. Promise!Succeed(t) BY <1>3, <1>10, PhaseValues DEF Moved, Promise!Succeed
  <2> QED BY <2>1 DEF Promise!Next, Promise!TokenStep
<1> QED BY <1>1, <1>4, <1>5, <1>6, <1>7, <1>8, <1>9, <1>10 DEF Legal

LEMMA SweptMaps ==
    ASSUME IInv, SweptRecords PROVE Promise!Next
<1> DEFINE S == {t \in Tokens : journal'[t] # journal[t]}
<1>1. \A t \in S : Phase[t] \in {"offered", "executed", "notDone"}
  BY PhaseValues DEF SweptRecords, Phase, Terminal
<1>2. ASSUME NEW t \in Tokens
      PROVE  PhaseOf(journal'[t]) = IF t \notin S THEN Phase[t] ELSE Promise!Swept(Phase[t])
  <2>1. CASE journal'[t] = journal[t]
    BY <2>1 DEF Phase
  <2>2. CASE journal[t] = "prepared" /\ journal'[t] = "cancelled"
    BY <2>2, PhaseValues DEF Phase, Promise!Swept
  <2>3. CASE journal[t] \in Terminal /\ journal'[t] = "deleted"
    BY <2>3, PhaseValues DEF Phase, Promise!Swept
  <2> QED BY <2>1, <2>2, <2>3 DEF SweptRecords
<1>3. UNCHANGED <<request, held>>
  BY DEF SweptRecords
<1>4. Promise!Sweep(S)
  BY <1>1, <1>2, <1>3, Zenon DEF Promise!Sweep, Phase
<1>5. S \in SUBSET Tokens OBVIOUS
<1> HIDE DEF S
<1> QED BY <1>4, <1>5 DEF Promise!Next

LEMMA SendingMaps ==
    ASSUME IInv, Sending PROVE Promise!Next
<1>1. PICK t \in Tokens :
         /\ journal[t] \in {"processing", "executed"}
         /\ request[t] = "unsent"
         /\ request' = [request EXCEPT ![t] = "sent"]
         /\ UNCHANGED <<journal, held>>
  BY DEF Sending
<1>2. Phase' = Phase /\ Phase[t] \in {"committed", "executed"}
  BY <1>1, PhaseStays, PhaseValues DEF Phase
<1>3. Promise!Send(t)
  BY <1>1, <1>2 DEF Promise!Send, Phase
<1> QED BY <1>3 DEF Promise!Next, Promise!TokenStep

LEMMA AtBackendMaps ==
    ASSUME IInv, AtBackend PROVE Promise!Next
<1>1. UNCHANGED journal
  BY DEF AtBackend, ReachedByOthers, Arrive
<1>2. Phase' = Phase
  BY <1>1, PhaseStays
<1>3. ASSUME NEW t \in Tokens, ReachedByOthers(t) PROVE Promise!ReachedByOthers(t)
  BY <1>2, <1>3 DEF ReachedByOthers, Promise!ReachedByOthers, Phase
<1>4. ASSUME NEW t \in Tokens, NEW fate \in Fates, Arrive(t, fate)
      PROVE  Promise!Arrive(t, fate)
  BY <1>2, <1>4 DEF Arrive, Promise!Arrive, Phase
<1> QED BY <1>3, <1>4 DEF AtBackend, Promise!Next, Promise!TokenStep

\* Every behaviour of the journal is one the service promises: each step maps
\* to a step of ConfirmedWrite or to a stutter.
THEOREM JournalImplementsPromise == Spec => ImplementsPromise
<1>1. Init => Promise!Init
  <2> SUFFICES ASSUME Init PROVE Phase = [t \in Tokens |-> "absent"]
    BY DEF Init, Promise!Init, Phase
  <2> QED BY PhaseValues DEF Init, Phase
<1>2. IInv /\ [Next]_vars => [Promise!Next]_(Promise!vars)
  BY StepMoves, QuietMaps, OneRecordMaps, SweptMaps, SendingMaps, AtBackendMaps
<1> QED BY <1>1, <1>2, JournalInvariant, PTL DEF Spec, ImplementsPromise, Promise!Spec
=============================================================================
