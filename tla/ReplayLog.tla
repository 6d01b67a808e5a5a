----------------------------- MODULE ReplayLog -----------------------------
(***************************************************************************)
(* What the replay journal of internal/continuity promises its users: the  *)
(* bytes of one direction of a flow that the peer has not yet cumulatively *)
(* acknowledged, kept in order and never more than Capacity of them.       *)
(* Journal.tla implements this with a circular buffer.                     *)
(***************************************************************************)
EXTENDS Naturals, Sequences

CONSTANTS
    Capacity,     \* budget of retained bytes
    MaxSequence,  \* protocol.MaxSequence, the largest offset
    Payloads      \* the payloads callers append

VARIABLES
    window,       \* the retained bytes, oldest first
    base,         \* offset of the first retained byte
    open          \* FALSE once the log is closed

logVars == <<window, base, open>>

LogInit ==
    /\ window = <<>>
    /\ base = 0
    /\ open = TRUE

\* A payload is retained whole or not at all.
LogAppend(p) ==
    /\ open
    /\ Len(window) + Len(p) <= Capacity
    /\ base + Len(window) + Len(p) <= MaxSequence
    /\ window' = window \o p
    /\ UNCHANGED <<base, open>>

\* Retires exactly the bytes below offset.
LogAck(offset) ==
    /\ open
    /\ offset \in base .. base + Len(window)
    /\ window' = SubSeq(window, offset - base + 1, Len(window))
    /\ base' = offset
    /\ UNCHANGED open

LogClose ==
    /\ open
    /\ window' = <<>>
    /\ open' = FALSE
    /\ UNCHANGED base

LogNext ==
    \/ \E p \in Payloads : LogAppend(p)
    \/ \E offset \in 0 .. MaxSequence : LogAck(offset)
    \/ LogClose

LogSpec == LogInit /\ [][LogNext]_logVars
=============================================================================
