------------------------------ MODULE Journal ------------------------------
(***************************************************************************)
(* The replay journal of one direction of one logical flow,                *)
(* internal/continuity/journal.go.  Every method holds j.mu, so a method   *)
(* is one action.  Bytes are members of Byte; Zero is the cleared byte.    *)
(***************************************************************************)
EXTENDS Integers, Sequences

CONSTANTS
    Capacity,     \* len(j.buffer) of an open journal
    MaxSequence,  \* protocol.MaxSequence
    Byte,         \* the values of a written byte
    Zero,         \* the value clear() stores
    Payloads      \* the payloads callers append

ASSUME JournalAssumption ==
    /\ Capacity \in Nat \ {0}
    /\ MaxSequence \in Nat
    /\ Zero \notin Byte
    /\ Payloads \subseteq Seq(Byte)

VARIABLES
    buffer,    \* the circular buffer, indexed from 0
    head,      \* index of the byte at offset base
    size,      \* retained bytes
    base,      \* every byte below this offset is acknowledged
    end,       \* offset of the next byte
    closed,
    err,       \* error returned by the last call, "nil" for none
    produced   \* history: every byte ever appended

stateVars == <<buffer, head, size, base, end, closed>>
vars == <<buffer, head, size, base, end, closed, err, produced>>

Slots == 0 .. Capacity - 1
MinOf(a, b) == IF a < b THEN a ELSE b

NewJournal ==
    /\ buffer = [i \in Slots |-> Zero]
    /\ head = 0 /\ size = 0
    /\ base = 0 /\ end = 0
    /\ closed = FALSE
    /\ err = "nil"
    /\ produced = <<>>

\* A call that returns without changing the journal.
Return(reason) ==
    /\ err' = reason
    /\ UNCHANGED <<stateVars, produced>>

AppendError(p) ==
    IF closed THEN "closed"
    ELSE IF Len(p) > Capacity - size THEN "budget"
    ELSE IF Len(p) > MaxSequence - end THEN "overflow"
    ELSE "nil"

\* Mutation: the copy is not wrapped to the start of the buffer.
CopyInNoWrap(p) ==
    LET tail == (head + size) % Capacity
    IN  [i \in Slots |->
            IF i \in tail .. tail + Len(p) - 1 THEN p[i - tail + 1] ELSE buffer[i]]

\* The two copies of Append: up to the end of the buffer, then from its start.
CopyIn(p) ==
    LET tail  == (head + size) % Capacity
        first == MinOf(Len(p), Capacity - tail)
    IN  [i \in Slots |->
            IF i \in tail .. tail + first - 1 THEN p[i - tail + 1]
            ELSE IF i < Len(p) - first THEN p[first + i + 1]
            ELSE buffer[i]]

AppendPayload(p) ==
    \/ AppendError(p) # "nil" /\ Return(AppendError(p))
    \/ /\ AppendError(p) = "nil"
       /\ buffer' = CopyIn(p)
       /\ size' = size + Len(p)
       /\ end' = end + Len(p)
       /\ produced' = produced \o p
       /\ err' = "nil"
       /\ UNCHANGED <<head, base, closed>>

\* Mutation: only the part up to the end of the buffer is cleared.
ClearedNoWrap(start, length) ==
    [i \in Slots |->
        IF i \in start .. start + length - 1 THEN Zero ELSE buffer[i]]

\* clearLocked: the retired bytes are overwritten, wrapping like the copies.
Cleared(start, length) ==
    LET first == MinOf(length, Capacity - start)
    IN  [i \in Slots |->
            IF i \in start .. start + first - 1 \/ i < length - first
            THEN Zero ELSE buffer[i]]

OffsetError(offset) ==
    IF closed THEN "closed"
    ELSE IF offset < base \/ offset > end THEN "offset"
    ELSE "nil"

Ack(offset) ==
    LET retire == offset - base
    IN  \/ OffsetError(offset) # "nil" /\ Return(OffsetError(offset))
        \/ OffsetError(offset) = "nil" /\ retire = 0 /\ Return("nil")
        \/ /\ OffsetError(offset) = "nil"
           /\ retire # 0
           /\ buffer' = Cleared(head, retire)
           /\ head' = IF size = retire THEN 0 ELSE (head + retire) % Capacity
           /\ size' = size - retire
           /\ base' = offset
           /\ err' = "nil"
           /\ UNCHANGED <<end, closed, produced>>

\* The bytes Replay copies out; it changes nothing.
ReplayBytes(offset, length) ==
    LET start == (head + (offset - base)) % Capacity
        first == MinOf(length, Capacity - start)
    IN  [i \in 1 .. length |->
            IF i <= first THEN buffer[start + i - 1] ELSE buffer[i - first - 1]]

Close ==
    /\ ~closed
    /\ buffer' = <<>>
    /\ head' = 0 /\ size' = 0
    /\ closed' = TRUE
    /\ err' = "nil"
    /\ UNCHANGED <<base, end, produced>>

Next ==
    \/ \E p \in Payloads : AppendPayload(p)
    \/ \E offset \in 0 .. MaxSequence : Ack(offset)
    \/ Close

Spec == NewJournal /\ [][Next]_vars
-----------------------------------------------------------------------------
\* The fields have their Go types and the two length identities hold:
\* size counts the bytes between base and end, and end counts every append.
TypeOK ==
    /\ closed \in BOOLEAN
    /\ base \in Nat /\ end \in 0 .. MaxSequence
    /\ produced \in Seq(Byte) /\ end = Len(produced) /\ base <= end
    /\ IF closed
       THEN head = 0 /\ size = 0
       ELSE /\ buffer \in [Slots -> Byte \cup {Zero}]
            /\ head \in Slots
            /\ size = end - base
            /\ size <= Capacity

\* Whatever wrap-arounds happened, Replay from any retained offset yields
\* exactly the bytes that were appended at that offset (journal.go:98-120).
ReplayExact ==
    ~closed =>
        \A offset \in base .. end : \A length \in 0 .. end - offset :
            ReplayBytes(offset, length) =
                SubSeq(produced, offset + 1, offset + length)

\* "bytes below BaseOffset have been ... securely retired" (journal.go:20-21):
\* a slot holds a byte only while that byte is unacknowledged.
RetiredCleared ==
    ~closed =>
        \A i \in Slots :
            buffer[i] # Zero => \E k \in 0 .. size - 1 : i = (head + k) % Capacity

\* The ring buffer of Append, Ack and Replay is exact, and erases what it retires.
JournalIsExact == TypeOK /\ ReplayExact /\ RetiredCleared

\* The journal implements the unacknowledged-bytes log.
Log == INSTANCE ReplayLog
    WITH window <- IF closed THEN <<>> ELSE ReplayBytes(base, size),
         base <- base, open <- ~closed
RefinesReplayLog == Log!LogSpec
=============================================================================
