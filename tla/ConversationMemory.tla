------------------------- MODULE ConversationMemory -------------------------
(***************************************************************************)
(* The bounded history of a conversation (conversation_memory.py and its   *)
(* Redis counterpart in redis_stores.py) as operators on a sequence of     *)
(* messages.  A message is what later decisions read of it: whether it is  *)
(* a summary, and which of the operations looked at it names as verified.  *)
(***************************************************************************)
EXTENDS Naturals, Sequences

CONSTANTS
    MaxMessages,   \* messages kept: 12 by default
    Threshold,     \* COMPRESS_THRESHOLD, 10
    KeepRaw        \* MAX_RAW_MESSAGES, 6

\* All the stores ask of CONVERSATION_MAX_MESSAGES is that a turn fits.  The
\* other two are fixed so that a compressed history is not compressed again at
\* once.
ASSUME MemoryAssumption ==
    /\ {MaxMessages, Threshold, KeepRaw} \subseteq Nat \ {0}
    /\ 2 <= MaxMessages
    /\ KeepRaw + 1 < Threshold

\* A turn that starts below the threshold has room for its two messages.  So
\* the defaults have it, 10 + 2 = 12; a smaller configured limit cuts a history
\* before it is ever compressed.
Roomy == Threshold + 2 <= MaxMessages

Message(summary, verified) == [summary |-> summary, verified |-> verified]
Known(history) == UNION {history[i].verified : i \in DOMAIN history}
Newest(history, n) == SubSeq(history, Len(history) - n + 1, Len(history))

\* Mutant of Cut: the summary goes first, like any other message.
CutOldest(history) ==
    IF Len(history) <= MaxMessages THEN history ELSE Newest(history, MaxMessages)

\* Both stores drop the oldest messages, never a summary at the front.
Cut(history) ==
    IF Len(history) <= MaxMessages THEN history
    ELSE IF history[1].summary THEN <<history[1]>> \o Newest(history, MaxMessages - 1)
    ELSE Newest(history, MaxMessages)

\* append_turn: the user's message and the answer.
WithTurn(history) == Cut(history \o <<Message(FALSE, {}), Message(FALSE, {})>>)

\* record_operations: only the Redis store cuts the history here.
WithNote(history, operations, redis) ==
    LET longer == Append(history, Message(FALSE, operations))
    IN  IF redis THEN Cut(longer) ELSE longer

\* Mutant of Compressed: the summary is text only.
CompressedText(history) == <<Message(TRUE, {})>> \o Newest(history, KeepRaw)

\* summarize_and_compress: a summary in place of all but the newest messages.
IsLong(history) == Len(history) >= Threshold
Compressed(history) ==
    <<Message(TRUE, Known(SubSeq(history, 1, Len(history) - KeepRaw)))>>
        \o Newest(history, KeepRaw)
=============================================================================
