----------------------- MODULE ConversationMemoryProofs -----------------------
(***************************************************************************)
(* What the operators of ConversationMemory keep of a history, for any     *)
(* limits that MemoryAssumption allows; and from that the theorems about   *)
(* the history in ChatGate.                                                *)
(***************************************************************************)
EXTENDS ChatGateProofs, SequenceTheorems, FiniteSetTheorems

-----------------------------------------------------------------------------
(* The operators                                                            *)

LEMMA Limits ==
    /\ MaxMessages \in Nat /\ Threshold \in Nat /\ KeepRaw \in Nat
    /\ 0 < KeepRaw /\ KeepRaw + 1 < Threshold /\ 2 <= MaxMessages
<1>1. \A n \in Nat \ {0} : 0 < n
  OBVIOUS
<1>2. QED
  BY <1>1, MemoryAssumption

LEMMA KnownOf ==
    ASSUME NEW h, NEW m
    PROVE  m \in Known(h) <=> \E i \in DOMAIN h : m \in h[i].verified
BY DEF Known

LEMMA NewestOf ==
    ASSUME NEW h \in Seq(Messages), NEW n \in Nat, n <= Len(h)
    PROVE  /\ Newest(h, n) \in Seq(Messages) /\ Len(Newest(h, n)) = n
           /\ \A i \in 1..n : Newest(h, n)[i] = h[Len(h) - n + i]
<1>1. Len(h) \in Nat /\ \A i \in 1..Len(h) : h[i] \in Messages
  BY ElementOfSeq, LenProperties
<1>2. Len(h) - n + 1 \in Int /\ \A i \in (Len(h) - n + 1)..Len(h) : h[i] \in Messages
  BY <1>1
<1>3. QED
  BY <1>1, <1>2, SubSeqProperties DEF Newest

\* Messages in front of others.
LEMMA Joined ==
    ASSUME NEW a \in Seq(Messages), NEW b \in Seq(Messages)
    PROVE  /\ a \o b \in Seq(Messages) /\ Len(a \o b) = Len(a) + Len(b)
           /\ a # <<>> => (a \o b)[1] = a[1] /\ a \o b # <<>>
           /\ Known(a \o b) = Known(a) \cup Known(b)
<1>1. /\ a \o b \in Seq(Messages) /\ Len(a \o b) = Len(a) + Len(b)
      /\ \A i \in 1..(Len(a) + Len(b)) :
            (a \o b)[i] = IF i <= Len(a) THEN a[i] ELSE b[i - Len(a)]
      /\ Len(a) \in Nat /\ Len(b) \in Nat
      /\ DOMAIN a = 1..Len(a) /\ DOMAIN b = 1..Len(b) /\ DOMAIN (a \o b) = 1..Len(a \o b)
  BY ConcatProperties, LenProperties
<1>2. a # <<>> => (a \o b)[1] = a[1] /\ a \o b # <<>>
  BY <1>1, EmptySeq
<1>3. ASSUME NEW m PROVE m \in Known(a \o b) <=> m \in Known(a) \/ m \in Known(b)
  <2>1. ASSUME m \in Known(a \o b) PROVE m \in Known(a) \/ m \in Known(b)
    <3>1. PICK i \in 1..(Len(a) + Len(b)) : m \in (a \o b)[i].verified
      BY <1>1, <2>1, KnownOf
    <3>2. CASE i <= Len(a)
      BY <1>1, <3>1, <3>2, KnownOf
    <3>3. CASE Len(a) < i
      <4>1. i - Len(a) \in 1..Len(b) /\ m \in b[i - Len(a)].verified
        BY <1>1, <3>1, <3>3
      <4>2. QED
        BY <1>1, <4>1, KnownOf
    <3>4. QED
      BY <1>1, <3>2, <3>3
  <2>2. ASSUME m \in Known(a) PROVE m \in Known(a \o b)
    <3>1. PICK i \in 1..Len(a) : m \in a[i].verified
      BY <1>1, <2>2, KnownOf
    <3>2. i \in 1..(Len(a) + Len(b)) /\ m \in (a \o b)[i].verified
      BY <1>1, <3>1
    <3>3. QED
      BY <1>1, <3>2, KnownOf
  <2>3. ASSUME m \in Known(b) PROVE m \in Known(a \o b)
    <3>1. PICK i \in 1..Len(b) : m \in b[i].verified
      BY <1>1, <2>3, KnownOf
    <3>2. i + Len(a) \in 1..(Len(a) + Len(b)) /\ (a \o b)[i + Len(a)] = b[(i + Len(a)) - Len(a)]
      BY <1>1, <3>1
    <3>3. (i + Len(a)) - Len(a) = i
      BY <1>1
    <3>4. QED
      BY <1>1, <3>1, <3>2, <3>3, KnownOf
  <2>4. QED
    BY <2>1, <2>2, <2>3
<1>4. QED
  BY <1>1, <1>2, <1>3

LEMMA Single ==
    ASSUME NEW summary \in BOOLEAN, NEW verified \in SUBSET Watched
    PROVE  /\ Message(summary, verified) \in Messages
           /\ Message(summary, verified).verified = verified
           /\ <<Message(summary, verified)>> \in Seq(Messages)
           /\ Len(<<Message(summary, verified)>>) = 1
           /\ <<Message(summary, verified)>>[1] = Message(summary, verified)
           /\ <<Message(summary, verified)>> # <<>>
           /\ Known(<<Message(summary, verified)>>) = verified
<1>1. Message(summary, verified) \in Messages /\ Message(summary, verified).verified = verified
  BY DEF Message, Messages
<1>2. QED
  BY <1>1 DEF Known

\* What begins below the threshold has room.
LEMMA Room ==
    ASSUME Roomy, NEW n \in Nat, n < Threshold \/ n <= Threshold
    PROVE  n < MaxMessages /\ n + 2 <= MaxMessages
BY Limits DEF Roomy

HasSummary(h) == h # <<>> /\ h[1].summary

\* Cutting keeps a summary in front, and a history within its limit whole.
LEMMA CutKeeps ==
    ASSUME NEW h \in Seq(Messages)
    PROVE  /\ Cut(h) \in Seq(Messages)
           /\ Len(h) <= MaxMessages => Cut(h) = h
           /\ HasSummary(h) => Cut(h) # <<>> /\ Cut(h)[1] = h[1]
<1>1. Len(h) \in Nat /\ DOMAIN h = 1..Len(h) /\ MaxMessages \in Nat /\ 1 <= MaxMessages
  BY LenProperties, Limits
<1>2. CASE Len(h) <= MaxMessages
  BY <1>2 DEF Cut, HasSummary
<1>3. CASE ~(Len(h) <= MaxMessages) /\ ~h[1].summary
  <2>1. Cut(h) = Newest(h, MaxMessages)
    BY <1>3 DEF Cut
  <2>2. MaxMessages <= Len(h)
    BY <1>1, <1>3
  <2>3. Newest(h, MaxMessages) \in Seq(Messages)
    BY <1>1, <2>2, NewestOf
  <2>4. QED
    BY <1>3, <2>1, <2>3 DEF HasSummary
<1>4. CASE ~(Len(h) <= MaxMessages) /\ h[1].summary
  <2>1. Cut(h) = <<h[1]>> \o Newest(h, MaxMessages - 1)
    BY <1>4 DEF Cut
  <2>2. Newest(h, MaxMessages - 1) \in Seq(Messages)
    BY <1>1, <1>4, NewestOf
  <2>3. h[1] \in Messages
    BY <1>1, <1>4, ElementOfSeq
  <2>4. <<h[1]>> \in Seq(Messages) /\ <<h[1]>> # <<>> /\ <<h[1]>>[1] = h[1]
    BY <2>3
  <2>5. QED
    BY <1>4, <2>1, <2>2, <2>4, Joined
<1>5. QED
  BY <1>2, <1>3, <1>4

LEMMA TurnKeeps ==
    ASSUME NEW h \in Seq(Messages)
    PROVE  /\ WithTurn(h) \in Seq(Messages)
           /\ Len(h) + 2 <= MaxMessages => Known(WithTurn(h)) = Known(h)
           /\ HasSummary(h) => WithTurn(h) # <<>> /\ WithTurn(h)[1] = h[1]
<1> DEFINE said == <<Message(FALSE, {}), Message(FALSE, {})>>
<1>1. said \in Seq(Messages) /\ Len(said) = 2 /\ Known(said) = {}
  <2>1. Message(FALSE, {}) \in Messages /\ Message(FALSE, {}).verified = {}
    BY Single
  <2>2. \A m \in Messages : <<m, m>> \in Seq(Messages)
    OBVIOUS
  <2>3. said \in Seq(Messages)
    BY <2>1, <2>2
  <2>4. Len(said) = 2
    OBVIOUS
  <2>5. DOMAIN said = {1, 2}
    OBVIOUS
  <2>6. said[1].verified = {} /\ said[2].verified = {}
    BY <2>1
  <2>7. QED
    BY <2>3, <2>4, <2>5, <2>6 DEF Known
<1>2. WithTurn(h) = Cut(h \o said)
  BY DEF WithTurn
<1> HIDE DEF said
<1>3. /\ h \o said \in Seq(Messages) /\ Len(h \o said) = Len(h) + 2
      /\ Known(h \o said) = Known(h)
      /\ HasSummary(h) => HasSummary(h \o said) /\ (h \o said)[1] = h[1]
  <2>1. /\ h \o said \in Seq(Messages) /\ Len(h \o said) = Len(h) + 2
        /\ Known(h \o said) = Known(h) \cup Known(said)
        /\ h # <<>> => (h \o said)[1] = h[1] /\ h \o said # <<>>
    BY <1>1, Joined, ZenonT(40)
  <2>2. QED
    BY <1>1, <2>1 DEF HasSummary
<1>4. /\ Cut(h \o said) \in Seq(Messages)
      /\ Len(h \o said) <= MaxMessages => Cut(h \o said) = h \o said
      /\ HasSummary(h \o said) => Cut(h \o said) # <<>> /\ Cut(h \o said)[1] = (h \o said)[1]
  BY <1>3, CutKeeps
<1>5. QED
  BY <1>2, <1>3, <1>4

LEMMA NoteKeeps ==
    ASSUME NEW h \in Seq(Messages), NEW operations \in SUBSET Watched, NEW redis \in BOOLEAN
    PROVE  /\ WithNote(h, operations, redis) \in Seq(Messages)
           /\ ~redis \/ Len(h) < MaxMessages =>
                 /\ Len(WithNote(h, operations, redis)) = Len(h) + 1
                 /\ Known(h) \subseteq Known(WithNote(h, operations, redis))
           /\ h = <<>> => Known(WithNote(h, operations, redis)) = operations
           /\ HasSummary(h) => /\ WithNote(h, operations, redis) # <<>>
                               /\ WithNote(h, operations, redis)[1] = h[1]
<1> DEFINE note == <<Message(FALSE, operations)>>
           longer == h \o note
<1>1. /\ note \in Seq(Messages) /\ Len(note) = 1 /\ Known(note) = operations
      /\ Message(FALSE, operations) \in Messages
  BY Single
<1>2. Append(h, Message(FALSE, operations)) = longer
  BY <1>1, AppendIsConcat
<1>3. WithNote(h, operations, redis) = IF redis THEN Cut(longer) ELSE longer
  BY <1>2 DEF WithNote
<1> HIDE DEF note
<1>4. /\ longer \in Seq(Messages) /\ Len(longer) = Len(h) + 1
      /\ Known(longer) = Known(h) \cup operations
      /\ HasSummary(h) => HasSummary(longer) /\ longer[1] = h[1]
  BY <1>1, Joined DEF HasSummary
<1>5. h = <<>> => Len(longer) <= MaxMessages /\ Known(h) = {}
  BY <1>4, Limits DEF Known
<1>6. Len(h) < MaxMessages => Len(longer) <= MaxMessages
  BY <1>4, Limits, LenProperties
<1> HIDE DEF longer
<1>7. QED
  BY <1>3, <1>4, <1>5, <1>6, CutKeeps DEF HasSummary

LEMMA CompressedKeeps ==
    ASSUME NEW h \in Seq(Messages), IsLong(h)
    PROVE  /\ Compressed(h) \in Seq(Messages) /\ Len(Compressed(h)) = KeepRaw + 1
           /\ Known(h) \subseteq Known(Compressed(h))
           /\ HasSummary(Compressed(h)) /\ h[1].verified \subseteq Compressed(h)[1].verified
<1>1. /\ Len(h) \in Nat /\ DOMAIN h = 1..Len(h) /\ KeepRaw \in Nat /\ Threshold \in Nat
      /\ KeepRaw + 1 < Len(h) /\ Len(h) - KeepRaw \in 1..Len(h)
  BY LenProperties, Limits DEF IsLong
<1>2. \A i \in 1..Len(h) : h[i] \in Messages
  BY ElementOfSeq
<1> DEFINE older == SubSeq(h, 1, Len(h) - KeepRaw)
           summary == <<Message(TRUE, Known(older))>>
<1>3. /\ older \in Seq(Messages) /\ Len(older) = Len(h) - KeepRaw
      /\ \A i \in 1..(Len(h) - KeepRaw) : older[i] = h[i]
  <2>1. \A i \in 1..(Len(h) - KeepRaw) : h[i] \in Messages /\ 1 + i - 1 = i
    BY <1>1, <1>2
  <2>2. QED
    BY <1>1, <2>1, SubSeqProperties
<1>4. DOMAIN older = 1..(Len(h) - KeepRaw)
  BY <1>3, LenProperties
<1> HIDE DEF older
<1>5. Known(older) \in SUBSET Watched
  BY <1>1, <1>2, <1>3, <1>4, KnownOf DEF Messages
<1>6. /\ summary \in Seq(Messages) /\ Len(summary) = 1 /\ Known(summary) = Known(older)
      /\ summary # <<>> /\ summary[1] = Message(TRUE, Known(older))
  BY <1>5, Single
<1>7. /\ Newest(h, KeepRaw) \in Seq(Messages) /\ Len(Newest(h, KeepRaw)) = KeepRaw
      /\ \A i \in 1..KeepRaw : Newest(h, KeepRaw)[i] = h[Len(h) - KeepRaw + i]
      /\ DOMAIN Newest(h, KeepRaw) = 1..KeepRaw
  <2>1. KeepRaw <= Len(h)
    BY <1>1
  <2>2. /\ Newest(h, KeepRaw) \in Seq(Messages) /\ Len(Newest(h, KeepRaw)) = KeepRaw
        /\ \A i \in 1..KeepRaw : Newest(h, KeepRaw)[i] = h[Len(h) - KeepRaw + i]
    BY <1>1, <2>1, NewestOf
  <2>3. QED
    BY <2>2, LenProperties
<1>8. Compressed(h) = summary \o Newest(h, KeepRaw)
  BY DEF Compressed, older
<1> HIDE DEF summary
<1>9. /\ Compressed(h) \in Seq(Messages) /\ Len(Compressed(h)) = KeepRaw + 1
      /\ Compressed(h) # <<>> /\ Compressed(h)[1] = Message(TRUE, Known(older))
      /\ Known(Compressed(h)) = Known(older) \cup Known(Newest(h, KeepRaw))
  <2>1. LET all == summary \o Newest(h, KeepRaw) IN
        /\ all \in Seq(Messages) /\ Len(all) = Len(summary) + KeepRaw
        /\ all # <<>> /\ all[1] = summary[1]
        /\ Known(all) = Known(summary) \cup Known(Newest(h, KeepRaw))
    BY <1>6, <1>7, Joined
  <2>2. QED
    BY <1>1, <1>6, <1>8, <2>1
<1>10. ASSUME NEW m \in Known(h) PROVE m \in Known(older) \cup Known(Newest(h, KeepRaw))
  <2>1. PICK i \in 1..Len(h) : m \in h[i].verified
    BY <1>1, <1>10, KnownOf
  <2>2. CASE i <= Len(h) - KeepRaw
    BY <1>1, <1>3, <1>4, <2>1, <2>2, KnownOf
  <2>3. CASE Len(h) - KeepRaw < i
    <3>1. i - (Len(h) - KeepRaw) \in 1..KeepRaw
      BY <1>1, <2>1, <2>3
    <3>2. Len(h) - KeepRaw + (i - (Len(h) - KeepRaw)) = i
      BY <1>1, <2>1
    <3>3. m \in Newest(h, KeepRaw)[i - (Len(h) - KeepRaw)].verified
      BY <1>7, <2>1, <3>1, <3>2
    <3>4. QED
      BY <1>7, <3>1, <3>3, KnownOf
  <2>4. QED
    BY <1>1, <2>1, <2>2, <2>3
<1>11. h[1].verified \subseteq Known(older)
  BY <1>1, <1>3, <1>4, KnownOf
<1>12. QED
  BY <1>9, <1>10, <1>11 DEF HasSummary, Message

-----------------------------------------------------------------------------
(* The history between the requests of a session                            *)

\* What a request that keeps to its lease knows of the history: nobody else
\* has written to it, so a turn that began below the threshold has room.
Turns == Roomy /\ lapsed = {} =>
    \A r \in Requests :
        /\ pc[r] = "compressing" => history \in {read[r], <<>>}
        /\ pc[r] = "working" /\ kind[r] \in Talking => Len(history) < Threshold
        /\ pc[r] = "noted" /\ kind[r] \in Talking => Len(history) <= Threshold

HistoryTypes ==
    /\ history \in Seq(Messages) /\ read \in [Requests -> Seq(Messages)]
    /\ demo => history = <<>>
    /\ \A r \in Requests : pc[r] = "compressing" => IsLong(read[r])

HistoryInvariant == GateInvariant /\ HistoryTypes /\ Turns

LEMMA InitHistory == Init => HistoryInvariant
<1> SUFFICES ASSUME Init PROVE HistoryInvariant
  OBVIOUS
<1>1. <<>> \in Seq(Messages)
  BY EmptySeq
<1>2. HistoryTypes /\ Turns
  BY <1>1 DEF Init, HistoryTypes, Turns
<1>3. QED
  BY <1>2, InitGate DEF HistoryInvariant

LEMMA ShortEmpty == ~IsLong(<<>>) /\ <<>> \in Seq(Messages) /\ Len(<<>>) < Threshold /\ Known(<<>>) = {}
<1>1. Len(<<>>) = 0 /\ 0 < Threshold
  BY Limits, EmptySeq
<1>2. QED
  BY <1>1, Limits, EmptySeq DEF IsLong, Known

\* Everything that can happen to the history.
LEMMA HistorySteps ==
    ASSUME HistoryInvariant, [Next]_vars
    PROVE  \/ history' = history
           \/ history' = <<>>
           \/ \E r \in Requests : ReadHistory(r) /\ IsLong(history) /\ history' = Compressed(history)
           \/ \E r \in Requests : Compress(r) /\ history = read[r] /\ IsLong(history)
                                  /\ history' = Compressed(history)
           \/ \E r \in Requests : Note(r) /\ history' = WithNote(history, Watched \cap {r}, shared)
           \/ \E r \in Requests : Finish(r) /\ kind[r] \in Talking /\ history' = WithTurn(history)
<1> DEFINE Goal ==
           \/ history' = history
           \/ history' = <<>>
           \/ \E r \in Requests : ReadHistory(r) /\ IsLong(history) /\ history' = Compressed(history)
           \/ \E r \in Requests : Compress(r) /\ history = read[r] /\ IsLong(history)
                                  /\ history' = Compressed(history)
           \/ \E r \in Requests : Note(r) /\ history' = WithNote(history, Watched \cap {r}, shared)
           \/ \E r \in Requests : Finish(r) /\ kind[r] \in Talking /\ history' = WithTurn(history)
<1> USE DEF gate, memory
<1>1. ASSUME NEW r \in Requests, ReadHistory(r) PROVE Goal
  BY <1>1 DEF ReadHistory
<1>2. ASSUME NEW r \in Requests, Compress(r) PROVE Goal
  BY <1>2 DEF Compress, Replaced, HistoryInvariant, HistoryTypes, WorkStep, At
<1>3. ASSUME NEW r \in Requests, Note(r) PROVE Goal
  BY <1>3 DEF Note, Rewrite
<1>4. ASSUME NEW r \in Requests, Finish(r) PROVE Goal
  BY <1>4 DEF Finish, Rewrite
<1>5. ASSUME NEW r \in Requests,
             \/ NeverOpened(r) \/ Lock(r) \/ LockFails(r) \/ Unlock(r) \/ UnlockFails(r)
             \/ Settle(r) \/ Interrupt(r)
      PROVE  Goal
  BY <1>5 DEF NeverOpened, Lock, LockFails, Unlock, UnlockFails, Settle, Interrupt
<1>6. ASSUME NEW r \in Requests, Environment(r) PROVE Goal
  BY <1>6 DEF Environment, CountedInVain, SlotExpires, UnlockLate, Die
<1>7. ASSUME NEW r \in Requests, NEW k \in Kinds, Arrive(r, k) PROVE Goal
  BY <1>7 DEF Arrive
<1>8. LockExpires \/ HistoryExpires \/ Restart \/ UNCHANGED vars => Goal
  BY DEF LockExpires, HistoryExpires, Restart, vars
<1>9. QED
  BY <1>1, <1>2, <1>3, <1>4, <1>5, <1>6, <1>7, <1>8 DEF Next, Progress

LEMMA NextHistoryTypes == ASSUME HistoryInvariant, [Next]_vars PROVE HistoryTypes'
<1>1. /\ history \in Seq(Messages) /\ read \in [Requests -> Seq(Messages)]
      /\ demo => history = <<>>
      /\ shared \in BOOLEAN
      /\ \A r \in Requests : pc[r] = "compressing" => IsLong(read[r])
  BY DEF HistoryInvariant, HistoryTypes, GateInvariant, GateTypes
<1>2. history' \in Seq(Messages)
  <2>1. \A r \in Requests : WithNote(history, Watched \cap {r}, shared) \in Seq(Messages)
    BY <1>1, NoteKeeps
  <2>2. WithTurn(history) \in Seq(Messages)
    BY <1>1, TurnKeeps
  <2>3. IsLong(history) => Compressed(history) \in Seq(Messages)
    BY <1>1, CompressedKeeps
  <2>4. QED
    BY <1>1, <2>1, <2>2, <2>3, HistorySteps, EmptySeq
<1>3. /\ read' \in [Requests -> Seq(Messages)]
      /\ \A r \in Requests : pc'[r] = "compressing" => IsLong(read'[r])
      /\ demo' = demo
      /\ demo => history' = history \/ history' = <<>>
  <2> DEFINE Goal == /\ read' \in [Requests -> Seq(Messages)]
                     /\ \A r \in Requests : pc'[r] = "compressing" => IsLong(read'[r])
                     /\ demo' = demo
                     /\ demo => history' = history \/ history' = <<>>
  <2>1. pc \in [Requests -> Steps]
    BY DEF HistoryInvariant, GateInvariant, GateTypes
  <2>2. \A S \in SUBSET Requests : Forget(S) => read' \in [Requests -> Seq(Messages)]
                                     /\ \A r \in Requests \ S : read'[r] = read[r]
    BY <1>1, EmptySeq DEF Forget
  <2> USE DEF gate, memory, Goto, At, Passing, Over
  <2>3. ASSUME NEW r \in Requests, ReadHistory(r) PROVE Goal
    BY <1>1, <2>1, <2>3, ShortEmpty DEF ReadHistory, WorkStep
  <2>4. ASSUME NEW r \in Requests, Compress(r) PROVE Goal
    <3>1. /\ read' \in [Requests -> Seq(Messages)]
          /\ \A q \in Requests \ {r} : read'[q] = read[q]
      BY <2>2, <2>4 DEF Compress
    <3>2. demo => history' = history
      BY <1>1, <2>4, ShortEmpty DEF Compress, WorkStep, Replaced
    <3>3. QED
      BY <1>1, <2>1, <2>4, <3>1, <3>2 DEF Compress, WorkStep
  <2>5. ASSUME NEW r \in Requests, Note(r) \/ Finish(r) PROVE Goal
    BY <1>1, <2>1, <2>5 DEF Note, Finish, WorkStep, Rewrite
  <2>6. ASSUME NEW r \in Requests, Interrupt(r) PROVE Goal
    <3>1. /\ read' \in [Requests -> Seq(Messages)]
          /\ \A q \in Requests \ {r} : read'[q] = read[q]
      BY <2>2, <2>6 DEF Interrupt
    <3>2. QED
      BY <1>1, <2>1, <2>6, <3>1 DEF Interrupt, WorkStep
  <2>7. ASSUME NEW r \in Requests, Lock(r) PROVE Goal
    BY <1>1, <2>1, <2>7 DEF Lock
  <2>8. ASSUME NEW r \in Requests,
               NeverOpened(r) \/ LockFails(r) \/ Unlock(r) \/ UnlockFails(r) \/ Settle(r)
        PROVE  Goal
    BY <1>1, <2>1, <2>8 DEF NeverOpened, LockFails, Unlock, UnlockFails, Settle, Outside
  <2>9. ASSUME NEW r \in Requests, CountedInVain(r) \/ SlotExpires(r) \/ UnlockLate(r) PROVE Goal
    BY <1>1, <2>1, <2>9 DEF CountedInVain, SlotExpires, UnlockLate
  <2>10. ASSUME NEW r \in Requests, Die(r) PROVE Goal
    BY <1>1, <2>1, <2>2, <2>10 DEF Die
  <2>11. ASSUME NEW r \in Requests, NEW k \in Kinds, Arrive(r, k) PROVE Goal
    BY <1>1, <2>1, <2>11 DEF Arrive
  <2>12. LockExpires \/ HistoryExpires \/ UNCHANGED vars => Goal
    BY <1>1, <2>1 DEF LockExpires, HistoryExpires, vars
  <2>13. Restart => Goal
    BY <1>1, <2>1, <2>2 DEF Restart, InFlight
  <2>14. QED
    BY <2>3, <2>4, <2>5, <2>6, <2>7, <2>8, <2>9, <2>10, <2>11, <2>12, <2>13
       DEF Next, Progress, Environment
<1>4. QED
  BY <1>1, <1>2, <1>3 DEF HistoryTypes

\* While nobody has outlived a lease, one request works and the history is its.
LEMMA Alone ==
    ASSUME GateInvariant, lapsed = {}, NEW r \in Requests, NEW q \in Requests,
           pc[r] \in Working, pc[q] \in Working
    PROVE  r = q
BY DEF GateInvariant, Owners

LEMMA NextTurns == ASSUME HistoryInvariant, [Next]_vars PROVE Turns'
<1>1. /\ GateInvariant /\ Turns /\ history \in Seq(Messages) /\ shared \in BOOLEAN
      /\ pc \in [Requests -> Steps] /\ kind \in [Requests -> Kinds]
      /\ \A r \in Requests : read[r] \in Seq(Messages) /\ (pc[r] = "compressing" => IsLong(read[r]))
  BY DEF HistoryInvariant, HistoryTypes, GateInvariant, GateTypes
<1> DEFINE Turn(r) == /\ pc[r] = "compressing" => history \in {read[r], <<>>}
                      /\ pc[r] = "working" /\ kind[r] \in Talking => Len(history) < Threshold
                      /\ pc[r] = "noted" /\ kind[r] \in Talking => Len(history) <= Threshold
<1> SUFFICES ASSUME Roomy, lapsed' = {}, NEW q \in Requests
             PROVE  Turn(q)'
  BY DEF Turns
<1>2. Len(history) \in Nat /\ Threshold \in Nat /\ KeepRaw \in Nat /\ MaxMessages \in Nat
      /\ KeepRaw + 1 < Threshold /\ Threshold + 2 <= MaxMessages
  BY <1>1, Limits, LenProperties DEF Roomy
<1> USE DEF gate, memory, Goto, At, Passing
\* A step of another's, or one that leaves the history alone.
<1>3. ASSUME lapsed = {}, history' \in {history, <<>>}, pc'[q] = pc[q], kind'[q] = kind[q],
             read'[q] = read[q]
      PROVE  Turn(q)'
  BY <1>1, <1>2, <1>3, ShortEmpty DEF Turns
\* The step of the one that works.
<1>4. ASSUME NEW r \in Requests, NEW from \in Working, WorkStep(r, from, pc'[r]), r # q
      PROVE  pc'[q] \notin Working /\ pc' = [pc EXCEPT ![r] = pc'[r]]
  BY <1>1, <1>4, Alone DEF WorkStep
<1>5. ASSUME NEW r \in Requests, ReadHistory(r) PROVE Turn(q)'
  <2>1. CASE r # q
    BY <1>4, <1>5, <2>1 DEF ReadHistory, WorkStep, Working
  <2>2. CASE r = q
    <3>1. CASE ~IsLong(history)
      BY <1>1, <1>2, <1>5, <2>2, <3>1 DEF ReadHistory, WorkStep, IsLong
    <3>2. CASE IsLong(history) /\ ~shared
      BY <1>1, <1>2, <1>5, <2>2, <3>2, CompressedKeeps DEF ReadHistory, WorkStep
    <3>3. CASE IsLong(history) /\ shared
      BY <1>1, <1>2, <1>5, <2>2, <3>3 DEF ReadHistory, WorkStep, HistoryInvariant, HistoryTypes
    <3>4. QED
      BY <1>1, <3>1, <3>2, <3>3
  <2>3. QED
    BY <2>1, <2>2
<1>6. ASSUME NEW r \in Requests, Compress(r) PROVE Turn(q)'
  <2>1. CASE r # q
    BY <1>4, <1>6, <2>1 DEF Compress, WorkStep, Working
  <2>2. CASE r = q
    <3>1. history \in {read[q], <<>>} /\ IsLong(read[q]) /\ pc'[q] = "working"
      BY <1>1, <1>6, <2>2 DEF Compress, WorkStep, Turns
    <3>2. history' = Compressed(read[q]) \/ history' = <<>>
      BY <1>6, <2>2, <3>1, ShortEmpty DEF Compress, Replaced
    <3>3. Len(history') < Threshold
      BY <1>1, <1>2, <3>1, <3>2, CompressedKeeps, ShortEmpty
    <3>4. QED
      BY <3>1, <3>3
  <2>3. QED
    BY <2>1, <2>2
<1>7. ASSUME NEW r \in Requests, Note(r) PROVE Turn(q)'
  <2>1. CASE r # q
    BY <1>4, <1>7, <2>1 DEF Note, WorkStep, Working
  <2>2. CASE r = q /\ kind[q] \notin Talking
    BY <1>1, <1>7, <2>2 DEF Note, WorkStep
  <2>3. CASE r = q /\ kind[q] \in Talking /\ pc[q] = "working"
    <3>1. Len(history) < Threshold /\ Len(history) < MaxMessages
      BY <1>1, <1>2, <1>7, <2>3 DEF Note, WorkStep, Turns
    <3> DEFINE longer == WithNote(history, Watched \cap {r}, shared)
    <3>2. Len(longer) = Len(history) + 1
      <4>1. Watched \cap {r} \in SUBSET Watched
        OBVIOUS
      <4>2. ~shared \/ Len(history) < MaxMessages => Len(longer) = Len(history) + 1
        BY <1>1, <4>1, NoteKeeps
      <4>3. QED
        BY <3>1, <4>2
    <3>3. history' \in {history, longer}
      BY <1>7 DEF Note, Rewrite
    <3> HIDE DEF longer
    <3>5. Len(history') <= Threshold
      BY <1>2, <3>1, <3>2, <3>3
    <3>4. QED
      BY <1>1, <1>7, <2>3, <3>5 DEF Note, WorkStep
  <2>4. CASE r = q /\ pc[q] # "working"
    BY <1>1, <1>7, <2>4 DEF Note, WorkStep
  <2>5. QED
    BY <2>1, <2>2, <2>3, <2>4
<1>8. ASSUME NEW r \in Requests, Finish(r) PROVE Turn(q)'
  <2>1. CASE r # q
    BY <1>4, <1>8, <2>1 DEF Finish, WorkStep, Working
  <2>2. CASE r = q
    BY <1>1, <1>8, <2>2 DEF Finish, WorkStep
  <2>3. QED
    BY <2>1, <2>2
<1>9. ASSUME NEW r \in Requests, Interrupt(r) PROVE Turn(q)'
  <2>1. CASE r # q
    BY <1>4, <1>9, <2>1 DEF Interrupt, WorkStep, Working
  <2>2. CASE r = q
    BY <1>1, <1>9, <2>2 DEF Interrupt, WorkStep
  <2>3. QED
    BY <2>1, <2>2
<1>10. ASSUME NEW r \in Requests, Lock(r) PROVE Turn(q)'
  <2>1. \A p \in Requests : pc[p] \notin Working
    BY <1>1, <1>10, GateAssumption DEF Lock, GateInvariant, Owners, GateTypes
  <2>2. QED
    BY <1>1, <1>10, <2>1 DEF Lock, Working
<1>12. ASSUME NEW r \in Requests,
              \/ NeverOpened(r) \/ LockFails(r) \/ Unlock(r) \/ UnlockFails(r) \/ Settle(r)
       PROVE  Turn(q)'
  <2>1. lapsed' = lapsed /\ history' = history /\ read' = read
    BY <1>12 DEF NeverOpened, LockFails, Unlock, UnlockFails, Settle
  <2>2. \/ pc'[q] = pc[q] /\ kind'[q] = kind[q]
        \/ pc'[q] \notin Working
    BY <1>1, <1>12 DEF NeverOpened, LockFails, Unlock, UnlockFails, Settle, Outside, Over, Working
  <2>3. QED
    BY <1>3, <2>1, <2>2 DEF Working
<1>13. ASSUME NEW r \in Requests, CountedInVain(r) \/ SlotExpires(r) \/ UnlockLate(r) PROVE Turn(q)'
  <2>1. lapsed' = lapsed /\ history' = history /\ read' = read
    BY <1>13 DEF CountedInVain, SlotExpires, UnlockLate
  <2>2. \/ pc'[q] = pc[q] /\ kind'[q] = kind[q]
        \/ pc'[q] \notin Working
    BY <1>1, <1>13 DEF CountedInVain, SlotExpires, UnlockLate, Over, Working
  <2>3. QED
    BY <1>3, <2>1, <2>2 DEF Working
<1>14. ASSUME NEW r \in Requests, Die(r) PROVE Turn(q)'
  <2>1. CASE r # q
    BY <1>1, <1>3, <1>14, <2>1 DEF Die, Over, Forget
  <2>2. CASE r = q
    BY <1>1, <1>14, <2>2 DEF Die, Over
  <2>3. QED
    BY <2>1, <2>2
<1>15. ASSUME NEW r \in Requests, NEW k \in Kinds, Arrive(r, k) PROVE Turn(q)'
  <2>1. CASE r # q
    BY <1>1, <1>3, <1>15, <2>1 DEF Arrive
  <2>2. CASE r = q
    BY <1>1, <1>15, <2>2 DEF Arrive
  <2>3. QED
    BY <2>1, <2>2
<1>16. LockExpires \/ HistoryExpires \/ UNCHANGED vars => Turn(q)'
  BY <1>3 DEF LockExpires, HistoryExpires, vars
<1>17. Restart => Turn(q)'
  BY <1>1 DEF Restart, Over, InFlight
<1>18. QED
  BY <1>5, <1>6, <1>7, <1>8, <1>9, <1>10, <1>12, <1>13, <1>14, <1>15, <1>16, <1>17
     DEF Next, Progress, Environment

LEMMA NextHistory == ASSUME HistoryInvariant, [Next]_vars PROVE HistoryInvariant'
<1>1. GateInvariant'
  BY NextGate DEF HistoryInvariant
<1>2. QED
  BY <1>1, NextHistoryTypes, NextTurns DEF HistoryInvariant

LEMMA AlwaysHistory == Spec => []HistoryInvariant
<1>1. HistoryInvariant /\ [Next]_vars => HistoryInvariant'
  BY NextHistory
<1>2. QED
  BY <1>1, InitHistory, PTL DEF Spec

-----------------------------------------------------------------------------
(* What the history keeps                                                   *)

\* What a summary has taken up is forgotten only with the whole history,
\* whatever comes after it and whatever the limit.
THEOREM SummariesAreKept == Spec => SummariesKept
<1> DEFINE Kept == history # <<>> /\ history[1].summary =>
                      history[1].verified \subseteq Known(history') \/ history' = <<>>
<1>1. ASSUME HistoryInvariant, [Next]_vars PROVE Kept
  <2> SUFFICES ASSUME HasSummary(history), history' # <<>>
               PROVE  history[1].verified \subseteq Known(history')
    BY DEF HasSummary
  <2>1. history \in Seq(Messages) /\ shared \in BOOLEAN /\ history' \in Seq(Messages)
    BY <1>1, NextHistoryTypes DEF HistoryInvariant, HistoryTypes, GateInvariant, GateTypes
  <2>2. 1 \in DOMAIN history'
    BY <2>1, LenProperties, EmptySeq
  <2>3. \A r \in Requests : LET longer == WithNote(history, Watched \cap {r}, shared)
                           IN  longer # <<>> /\ longer[1] = history[1]
    <3>1. ASSUME NEW r \in Requests
          PROVE  LET longer == WithNote(history, Watched \cap {r}, shared)
                 IN  longer # <<>> /\ longer[1] = history[1]
      <4>1. Watched \cap {r} \in SUBSET Watched
        OBVIOUS
      <4>2. QED
        BY <2>1, <4>1, NoteKeeps
    <3>2. QED
      BY <3>1
  <2>4. WithTurn(history)[1] = history[1]
    BY <2>1, TurnKeeps
  <2>5. IsLong(history) => history[1].verified \subseteq Compressed(history)[1].verified
    BY <2>1, CompressedKeeps
  <2>6. history[1].verified \subseteq history'[1].verified
    BY <1>1, <2>3, <2>4, <2>5, HistorySteps
  <2>7. QED
    BY <2>2, <2>6, KnownOf
<1>2. HistoryInvariant /\ [Next]_vars => [Kept]_vars
  BY <1>1
<1>3. QED
  BY <1>2, AlwaysHistory, PTL DEF Spec, SummariesKept

\* A history that was cleared or has expired begins anew, with one note or
\* one turn; no stale copy brings the old one back.
THEOREM ClearedIsGone == Spec => ClearedStaysCleared
<1> DEFINE Gone == history = <<>> =>
                      Known(history') \subseteq {r \in Requests : pc'[r] \in {"noted", "noted twice"}}
<1>1. ASSUME HistoryInvariant, [Next]_vars PROVE Gone
  <2> SUFFICES ASSUME history = <<>>
               PROVE  Known(history') \subseteq
                         {r \in Requests : pc'[r] \in {"noted", "noted twice"}}
    OBVIOUS
  <2>1. /\ history \in Seq(Messages) /\ shared \in BOOLEAN
        /\ pc \in [Requests -> Steps]
    BY <1>1 DEF HistoryInvariant, HistoryTypes, GateInvariant, GateTypes
  <2>2. ASSUME NEW r \in Requests, Note(r), history' = WithNote(history, Watched \cap {r}, shared)
        PROVE  Known(history') \subseteq {r} /\ pc'[r] \in {"noted", "noted twice"}
    <3>1. Watched \cap {r} \in SUBSET Watched
      OBVIOUS
    <3>2. Known(WithNote(history, Watched \cap {r}, shared)) = Watched \cap {r}
      BY <2>1, <3>1, NoteKeeps
    <3>3. pc'[r] \in {"noted", "noted twice"}
      BY <2>1, <2>2 DEF Note, WorkStep, Goto
    <3>4. QED
      BY <2>2, <3>2, <3>3
  <2>3. Known(WithTurn(history)) = {}
    <3>1. Len(history) + 2 <= MaxMessages
      BY Limits, EmptySeq
    <3>2. QED
      BY <2>1, <3>1, TurnKeeps, ShortEmpty
  <2>4. Known(history') = {} \/ \E r \in Requests :
                                Known(history') \subseteq {r} /\ pc'[r] \in {"noted", "noted twice"}
    BY <1>1, <2>2, <2>3, ShortEmpty, HistorySteps
  <2>5. QED
    BY <2>4
<1>2. HistoryInvariant /\ [Next]_vars => [Gone]_vars
  BY <1>1
<1>3. QED
  BY <1>2, AlwaysHistory, PTL DEF Spec, ClearedStaysCleared

\* While the limits are roomy, as by default, and requests keep to their leases,
\* a verified operation is forgotten only with the whole history, but for what
\* cannot fit.
THEOREM NotesAreKept == Spec => NotesKept
<1> DEFINE Kept == \/ Known(history) \subseteq Known(history')
                   \/ history' = <<>>
                   \/ ~Roomy \/ lapsed # {}
                   \/ \E r \in Requests : At(r, "noted twice") \/ (shared /\ pc'[r] = "noted")
<1>1. ASSUME HistoryInvariant, [Next]_vars PROVE Kept
  <2> SUFFICES ASSUME Roomy, lapsed = {},
                      \A r \in Requests : pc[r] # "noted twice" /\ ~(shared /\ pc'[r] = "noted")
               PROVE  Known(history) \subseteq Known(history') \/ history' = <<>>
    BY DEF At
  <2>1. /\ history \in Seq(Messages) /\ shared \in BOOLEAN
        /\ pc \in [Requests -> Steps] /\ Turns
    BY <1>1 DEF HistoryInvariant, HistoryTypes, GateInvariant, GateTypes
  <2>2. Len(history) \in Nat /\ Threshold \in Nat /\ MaxMessages \in Nat
        /\ Threshold + 2 <= MaxMessages
    BY <2>1, Limits, LenProperties DEF Roomy
  <2>3. ASSUME NEW r \in Requests, Note(r), history' = WithNote(history, Watched \cap {r}, shared)
        PROVE  Known(history) \subseteq Known(history')
    <3>1. Watched \cap {r} \in SUBSET Watched
      OBVIOUS
    <3>2. shared => At(r, "noted") /\ kind[r] \in Talking
      BY <2>1, <2>3 DEF Note, WorkStep, Goto, At
    <3>3. shared => Len(history) < MaxMessages
      <4>1. shared => Len(history) <= Threshold
        BY <2>1, <3>2, Zenon DEF Turns, At
      <4>2. QED
        BY <2>2, <4>1, Room
    <3>4. ~shared \/ Len(history) < MaxMessages =>
             Known(history) \subseteq Known(WithNote(history, Watched \cap {r}, shared))
      BY <2>1, <3>1, NoteKeeps
    <3>5. QED
      BY <2>1, <2>3, <3>3, <3>4
  <2>4. ASSUME NEW r \in Requests, Finish(r), kind[r] \in Talking, history' = WithTurn(history)
        PROVE  Known(history) \subseteq Known(history')
    <3>1. pc[r] \in {"working", "noted"}
      BY <2>4 DEF Finish, WorkStep, At
    <3>2. Len(history) + 2 <= MaxMessages
      <4>1. Len(history) < Threshold \/ Len(history) <= Threshold
        BY <2>1, <2>4, <3>1, Zenon DEF Turns
      <4>2. QED
        BY <2>2, <4>1, Room
    <3>3. QED
      BY <2>1, <2>4, <3>2, TurnKeeps
  <2>5. IsLong(history) => Known(history) \subseteq Known(Compressed(history))
    BY <2>1, CompressedKeeps
  <2>6. QED
    BY <1>1, <2>3, <2>4, <2>5, HistorySteps
<1>2. HistoryInvariant /\ [Next]_vars => [Kept]_vars
  BY <1>1
<1>3. QED
  BY <1>2, AlwaysHistory, PTL DEF Spec, NotesKept

-----------------------------------------------------------------------------
(* Types                                                                    *)

Quota == IsFiniteSet(slots) /\ Cardinality(slots) \in Nat /\ Cardinality(slots) <= MaxConcurrent

LEMMA NextQuota == ASSUME Quota, [Next]_vars PROVE Quota'
<1> DEFINE Fits(S) == IsFiniteSet(S) /\ Cardinality(S) \in Nat /\ Cardinality(S) <= MaxConcurrent
<1>1. Fits(slots) /\ MaxConcurrent \in Nat
  BY GateAssumption DEF Quota
<1>2. \A r \in Requests : Fits(slots \ {r})
  <2>1. ASSUME NEW r \in Requests PROVE Fits(slots \ {r})
    <3>1. /\ IsFiniteSet(slots \ {r})
          /\ Cardinality(slots \ {r}) = IF r \in slots THEN Cardinality(slots) - 1
                                                       ELSE Cardinality(slots)
      BY <1>1, FS_RemoveElement
    <3>2. Cardinality(slots \ {r}) \in Nat
      BY <3>1, FS_CardinalityType
    <3>3. QED
      BY <1>1, <3>1, <3>2
  <2>2. QED
    BY <2>1
<1>3. \A r \in Requests : HasRoom => Fits(slots \cup {r})
  <2>1. ASSUME NEW r \in Requests, HasRoom PROVE Fits(slots \cup {r})
    <3>1. /\ IsFiniteSet(slots \cup {r})
          /\ Cardinality(slots \cup {r}) = IF r \in slots THEN Cardinality(slots)
                                                         ELSE Cardinality(slots) + 1
      BY <1>1, FS_AddElement
    <3>2. QED
      BY <1>1, <2>1, <3>1 DEF HasRoom
  <2>2. QED
    BY <2>1
<1>4. Fits({})
  BY <1>1, FS_EmptySet
<1>5. \/ slots' = slots \/ slots' = {}
      \/ \E r \in Requests : slots' = slots \ {r}
      \/ \E r \in Requests : HasRoom /\ slots' = slots \cup {r}
  BY DEF Next, Progress, Environment, Arrive, CountedInVain, NeverOpened, Settle, HandBack,
     SlotExpires, Lock, LockFails, Unlock, UnlockFails, UnlockLate, LockExpires, ReadHistory,
     Compress, Note, Finish, Interrupt, WorkStep, HistoryExpires, Die, Restart, gate, vars
<1> HIDE DEF Fits
<1>6. Fits(slots')
  BY <1>1, <1>2, <1>3, <1>4, <1>5
<1>7. QED
  BY <1>6 DEF Quota, Fits

\* Types are kept, and the quota of a demo is never overdrawn.
THEOREM GateTypesHold == Spec => []TypeOK
<1>1. Init => Quota
  BY GateAssumption, FS_EmptySet DEF Init, Quota
<1>2. Quota /\ [Next]_vars => Quota'
  BY NextQuota
<1>3. HistoryInvariant /\ Quota => TypeOK
  BY DEF HistoryInvariant, GateInvariant, GateTypes, HistoryTypes, Quota, TypeOK
<1>4. QED
  BY <1>1, <1>2, <1>3, AlwaysHistory, PTL DEF Spec
=============================================================================
