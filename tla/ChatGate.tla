------------------------------ MODULE ChatGate ------------------------------
(***************************************************************************)
(* How the requests of one session pass through the service (main.py,      *)
(* reliability.py): the quota of a public demo, the lock of the session,   *)
(* the work on the session's history, and the way back through every       *)
(* `finally`.                                                              *)
(*                                                                         *)
(* In one process lock, quota and history are objects of that process and  *)
(* a restart ends them all; with Redis they are shared by processes, every *)
(* call may be lost, and leases return what a dead process has left.       *)
(* Each request is served once and verifies one operation, whose name it   *)
(* is, or two.  The history is followed for the operations of Watched, and *)
(* not in a demo: there the quota is, and the two meet nowhere.            *)
(***************************************************************************)
EXTENDS ConversationMemory, FiniteSets

CONSTANTS
    Requests,
    Watched,         \* the requests whose operations the history is followed for
    Nobody,          \* owner of a free session lock
    MaxConcurrent    \* demo_chat_max_concurrent

ASSUME GateAssumption ==
    /\ Watched \subseteq Requests
    /\ Nobody \notin Requests
    /\ MaxConcurrent \in Nat

VARIABLES
    shared,          \* rigid: is Redis behind lock, quota and history?
    demo,            \* rigid: is this a public demo, with a quota?
    kind, pc,        \* each request: what it asks, and how far it is
    lock,            \* the session lock's owner
    late,            \* releases given up on that may still take effect
    slots,           \* the quota: who is counted as in flight
    history, read,   \* the session's history; the copy each compression began with
    lapsed           \* requests that outlived their lease of the session

gate == <<lock, late, slots, lapsed>>
memory == <<history, read>>
vars == <<shared, demo, kind, pc, gate, memory>>

Kinds == {"chat", "stream", "clear", "confirm"}
Talking == {"chat", "stream"}
Working == {"reading", "compressing", "working", "noted", "noted twice"}
Steps == Working \cup {"idle", "unopened", "locking", "unlocking", "settling", "done"}

InFlight == {r \in Requests : pc[r] \notin {"idle", "done"}}
Counted == {r \in InFlight : demo /\ kind[r] \in Talking}

Messages == [summary : BOOLEAN, verified : SUBSET Watched]
TypeOK ==
    /\ shared \in BOOLEAN /\ demo \in BOOLEAN
    /\ kind \in [Requests -> Kinds] /\ pc \in [Requests -> Steps]
    /\ lock \in Requests \cup {Nobody}
    /\ late \subseteq Requests /\ lapsed \subseteq Requests
    /\ slots \subseteq Requests /\ Cardinality(slots) <= MaxConcurrent
    /\ history \in Seq(Messages) /\ read \in [Requests -> Seq(Messages)]

Init ==
    /\ shared \in BOOLEAN /\ demo \in BOOLEAN
    /\ kind = [r \in Requests |-> "chat"] /\ pc = [r \in Requests |-> "idle"]
    /\ lock = Nobody /\ late = {} /\ slots = {} /\ lapsed = {}
    /\ history = <<>> /\ read = [r \in Requests |-> <<>>]

At(r, step) == pc[r] = step
Goto(r, step) == pc' = [pc EXCEPT ![r] = step]
Passing == UNCHANGED <<shared, demo, kind>>
Forget(S) == read' = [r \in Requests |-> IF r \in S THEN <<>> ELSE read[r]]

\* What a request was is of no interest once it is over.
Over(S) ==
    /\ pc' = [r \in Requests |-> IF r \in S THEN "done" ELSE pc[r]]
    /\ kind' = [r \in Requests |-> IF r \in S THEN "chat" ELSE kind[r]]
    /\ UNCHANGED <<shared, demo>>

-----------------------------------------------------------------------------
(* The quota of the public demo                                             *)

\* Mutant of HasRoom: an off-by-one at the limit.
HasMoreRoom == Cardinality(slots) <= MaxConcurrent

\* The calls of the day are counted too; when they are used up nobody enters.
HasRoom == Cardinality(slots) < MaxConcurrent

\* A chat takes its slot before anything else is done.  Without a quota a
\* stream goes the way of a chat.
Arrive(r, k) ==
    /\ At(r, "idle") /\ Goto(r, "locking")
    /\ k = "stream" => demo
    /\ kind' = [kind EXCEPT ![r] = k]
    /\ IF demo /\ k \in Talking
       THEN HasRoom /\ slots' = slots \cup {r}
       ELSE UNCHANGED slots
    /\ UNCHANGED <<shared, demo, lock, late, lapsed, memory>>

\* Redis counts the call, but its answer is lost and the request refused.
CountedInVain(r) ==
    /\ shared /\ demo /\ At(r, "idle") /\ HasRoom
    /\ slots' = slots \cup {r}
    /\ Over({r}) /\ UNCHANGED <<lock, late, lapsed, memory>>

\* The slot of a stream is taken before its response begins: a client that
\* is gone by then leaves a generator that never runs, nor its `finally`.
NeverOpened(r) ==
    /\ demo /\ At(r, "locking") /\ kind[r] = "stream"
    /\ Goto(r, "unopened")
    /\ Passing /\ UNCHANGED <<gate, memory>>

\* Mutant of HandBack: the slot is returned by the streams only.
HandBackStream(r) == slots' = IF kind[r] = "stream" THEN slots \ {r} ELSE slots

HandBack(r) == slots' = slots \ {r}

\* The quota's `finally`; a failed zrem is left to the lease.
Settle(r) ==
    /\ At(r, "settling")
    /\ HandBack(r) \/ (shared /\ UNCHANGED slots)
    /\ Over({r}) /\ UNCHANGED <<lock, late, lapsed, memory>>

SlotExpires(r) ==
    /\ shared /\ r \in slots
    /\ slots' = slots \ {r}
    /\ Passing /\ UNCHANGED <<pc, lock, late, lapsed, memory>>

-----------------------------------------------------------------------------
(* The session lock: SessionCoordinator.hold                                *)

\* Only the chats of a demo have a slot to return.
Outside(r) == IF r \in Counted THEN Passing /\ Goto(r, "settling") ELSE Over({r})

\* A lapsed request matters while somebody works, or has a compression begun.
Lock(r) ==
    /\ At(r, "locking") /\ lock = Nobody
    /\ lock' = r
    /\ lapsed' = {q \in lapsed : pc[q] \in Working}
    /\ Goto(r, IF kind[r] \in Talking THEN "reading" ELSE "working")
    /\ Passing /\ UNCHANGED <<late, slots, memory>>

\* 409 while the session is busy; 503 when Redis does not answer, which may
\* have taken the lock all the same.
LockFails(r) ==
    /\ At(r, "locking")
    /\ \/ (lock # Nobody \/ shared) /\ UNCHANGED lock
       \/ shared /\ lock = Nobody /\ lock' = r
    /\ Outside(r)
    /\ UNCHANGED <<late, slots, lapsed, memory>>

\* Mutant of Release: the key is deleted without a look at its owner.
ReleaseAny(r) == lock' = Nobody

\* Only the owner's key is deleted.
Release(r) == lock' = IF lock = r THEN Nobody ELSE lock

Unlock(r) ==
    /\ At(r, "unlocking")
    /\ Release(r) /\ Outside(r)
    /\ UNCHANGED <<late, slots, lapsed, memory>>

\* After three seconds the release is left to the lease; it may still arrive.
UnlockFails(r) ==
    /\ shared /\ At(r, "unlocking")
    /\ late' = late \cup {r} /\ Outside(r)
    /\ UNCHANGED <<lock, slots, lapsed, memory>>

UnlockLate(r) ==
    /\ r \in late /\ late' = late \ {r}
    /\ Release(r)
    /\ Passing /\ UNCHANGED <<pc, slots, lapsed, memory>>

\* Leases have a fixed life: a request that stalls is not waited for.
LockExpires ==
    /\ shared /\ lock # Nobody
    /\ lock' = Nobody
    /\ lapsed' = IF pc[lock] \in Working THEN lapsed \cup {lock} ELSE lapsed
    /\ Passing /\ UNCHANGED <<pc, late, slots, memory>>

-----------------------------------------------------------------------------
(* The work under the lock and the budget                                   *)

WorkStep(r, from, to) ==
    /\ At(r, from) /\ Goto(r, to)
    /\ Passing /\ UNCHANGED gate

Rewrite(messages) == history' = IF demo THEN history ELSE messages

\* AgentService.chat reads the history and compresses it when it is long.
ReadHistory(r) ==
    \/ ~IsLong(history) /\ WorkStep(r, "reading", "working") /\ UNCHANGED memory
    \/ IsLong(history) /\ ~shared /\ WorkStep(r, "reading", "working")
       /\ history' = Compressed(history) /\ UNCHANGED read
    \/ IsLong(history) /\ shared /\ WorkStep(r, "reading", "compressing")
       /\ read' = [read EXCEPT ![r] = history] /\ UNCHANGED history

\* Mutant of Replaced: the summary is written over whatever is there.
ReplacedBlindly(r) == history' = Compressed(read[r])

\* Redis replaces the history only when it is still the one that was read.
Replaced(r) == history' = IF history = read[r] THEN Compressed(read[r]) ELSE history

Compress(r) ==
    /\ WorkStep(r, "compressing", "working")
    /\ Replaced(r) /\ Forget({r})

\* A verified write leaves a note; a rejected or unclear one does not.  The
\* model may add to the cart more than once in a turn; two notes are the most
\* here.
Note(r) ==
    /\ \/ kind[r] # "clear" /\ WorkStep(r, "working", "noted")
       \/ kind[r] \in Talking /\ WorkStep(r, "noted", "noted twice")
    /\ Rewrite(WithNote(history, Watched \cap {r}, shared))
    /\ UNCHANGED read

\* append_turn, the answer of a confirmation, or the history's end.
Finish(r) ==
    /\ \E from \in {"working", "noted", "noted twice"} : WorkStep(r, from, "unlocking")
    /\ Rewrite(IF kind[r] \in Talking THEN WithTurn(history)
               ELSE IF kind[r] = "clear" THEN <<>> ELSE history)
    /\ UNCHANGED read

\* The budget ends, the work fails, or the client of a stream is gone.
Interrupt(r) ==
    /\ \E from \in Working : WorkStep(r, from, "unlocking")
    /\ Forget({r}) /\ UNCHANGED history

HistoryExpires ==
    /\ history # <<>> /\ history' = <<>>
    /\ Passing /\ UNCHANGED <<pc, gate, read>>

-----------------------------------------------------------------------------
(* Processes end                                                            *)

\* A process of several: what it held stays until its lease ends.
Die(r) ==
    /\ shared /\ r \in InFlight
    /\ Over({r}) /\ Forget({r}) /\ UNCHANGED <<gate, history>>

\* The only process: its memory ends with it.
Restart ==
    /\ ~shared /\ InFlight # {}
    /\ Over(InFlight) /\ Forget(Requests)
    /\ lock' = Nobody /\ late' = {} /\ slots' = {} /\ lapsed' = {}
    /\ history' = <<>>

-----------------------------------------------------------------------------
Progress(r) ==
    \/ NeverOpened(r) \/ Lock(r) \/ LockFails(r) \/ Unlock(r) \/ UnlockFails(r) \/ Settle(r)
    \/ ReadHistory(r) \/ Compress(r) \/ Note(r) \/ Finish(r) \/ Interrupt(r)

Environment(r) == CountedInVain(r) \/ SlotExpires(r) \/ UnlockLate(r) \/ Die(r)

Next ==
    \/ \E r \in Requests : Progress(r) \/ Environment(r)
    \/ \E r \in Requests, k \in Kinds : Arrive(r, k)
    \/ LockExpires \/ HistoryExpires \/ Restart

Spec == Init /\ [][Next]_vars

-----------------------------------------------------------------------------
\* Two requests work on one session at a time only when one of them has
\* outlived its lease: a refused, lost or late release never lets a third in
\* beside a rightful owner.
OneAtATime ==
    \A r, q \in Requests :
        r # q /\ {pc[r], pc[q]} \subseteq Working => {r, q} \cap lapsed # {}

\* In one process the quota counts exactly the chats under way and the
\* streams that were never opened, and the session is held exactly while one
\* request works or is about to release it: no way out of a request forgets
\* its slot or its lock.
NothingLeaks ==
    ~shared =>
        /\ slots = Counted
        /\ \A r \in Requests : lock = r <=> pc[r] \in Working \cup {"unlocking"}

\* While the limits are roomy and requests keep to their leases, a verified
\* operation is forgotten only with the whole history: neither a turn's cut nor
\* a compression drops it.  Excepted is what cannot fit: the second note of a
\* turn, and the notes of the Redis store, which cut the history themselves.
NotesKept ==
    [][\/ Known(history) \subseteq Known(history')
       \/ history' = <<>>
       \/ ~Roomy \/ lapsed # {}
       \/ \E r \in Requests : At(r, "noted twice") \/ (shared /\ pc'[r] = "noted")]_vars

\* What a summary has taken up is forgotten only with the whole history,
\* however small the limit, however many notes follow and whoever outlives a
\* lease.
SummariesKept ==
    [][history # <<>> /\ history[1].summary =>
          history[1].verified \subseteq Known(history') \/ history' = <<>>]_vars

\* A history that was cleared or has expired stays gone, even when a request
\* that outlived its lease still has a copy: it begins anew with one note or
\* one turn.
ClearedStaysCleared ==
    [][history = <<>> =>
          Known(history') \subseteq {r \in Requests : pc'[r] \in {"noted", "noted twice"}}]_vars
=============================================================================
