----------------------------- MODULE SessionMux -----------------------------
(***************************************************************************)
(* The two Muxes of one session (internal/session/session.go, stream.go)   *)
(* over one ordered carrier.  The client opens streams, the server accepts *)
(* or rejects them; either end writes, half-closes, reads and closes them. *)
(*                                                                         *)
(* A cell carries a byte count, not bytes: the carrier is ordered, and a   *)
(* stream numbers and sends each cell under one lock (sendMu), so cells of *)
(* a stream arrive in the order of their sequence numbers.  What is left   *)
(* of recvSequence is whether the answer to OPEN has been seen (opened).   *)
(* Stream k is the k-th OPEN, wire identifier 2k - 1.                      *)
(***************************************************************************)
EXTENDS Integers, SequencesExt

CONSTANTS
    MaxOpens,      \* bound: streams the client opens
    MaxStreams,    \* [End -> Nat]: Config.MaxStreams of each Mux
    Window,        \* [End -> Nat]: Config.InitialWindow of each Mux
    Divisor,       \* windowUpdateDivisor
    RetiredLimit,  \* retiredLimit
    Bytes,         \* [End -> [Ids -> Nat]]: bytes the applications write on a stream
    MaxTrouble     \* bound: cancellations, rejections, resets and carrier losses

End == {"client", "server"}
Peer(e) == IF e = "client" THEN "server" ELSE "client"
Ids == 1 .. MaxOpens

ASSUME MuxAssumption ==
    /\ {MaxOpens, Divisor, RetiredLimit} \subseteq Nat \ {0} /\ MaxTrouble \in Nat
    /\ MaxStreams \in [End -> Nat \ {0}]
    /\ Window \in [End -> Nat \ {0}]
    /\ Bytes \in [End -> [Ids -> Nat]]

VARIABLES
    muxErr,    \* muxErr[e]: m.err, "nil" while the Mux of e lives
    nextID,    \* the next stream the client opens
    streams,   \* streams[e]: identifiers in m.streams
    retired,   \* retired[e]: m.retiredOrder
    s,         \* s[e][i]: the Stream object of i at e
    update,    \* update[e][i]: what a Read took and has not sent yet
    wire,      \* wire[e]: cells on their way to e
    incoming,  \* the server's queue of unanswered OPENs
    call,      \* call[i]: the client's Open call
    trouble    \* how many of those have happened

vars == <<muxErr, nextID, streams, retired, s, update, wire, incoming, call,
          trouble>>

\* newStream.  sent and got count the bytes its application wrote and read.
newStream(credit, recv, opening) ==
    [opened |-> ~opening, window |-> credit, credit |-> credit, recv |-> recv,
     pending |-> 0, buffered |-> 0, peerFIN |-> FALSE, localFIN |-> FALSE,
     readErr |-> "nil", writeErr |-> "nil", resetSent |-> FALSE,
     result |-> IF opening THEN "none" ELSE "ok", app |-> "none",
     sent |-> 0, got |-> 0, eof |-> FALSE]

NoUpdate == [credit |-> 0, eof |-> FALSE]
Absent == newStream(0, 0, TRUE)

Init ==
    /\ muxErr = [e \in End |-> "nil"]
    /\ nextID = 1
    /\ streams = [e \in End |-> {}]
    /\ retired = [e \in End |-> <<>>]
    /\ s = [e \in End |-> [i \in Ids |-> Absent]]
    /\ update = [e \in End |-> [i \in Ids |-> NoUpdate]]
    /\ wire = [e \in End |-> <<>>]
    /\ incoming = <<>>
    /\ call = [i \in Ids |-> "none"]
    /\ trouble = 0
-----------------------------------------------------------------------------
Trouble == trouble < MaxTrouble /\ trouble' = trouble + 1

Least(a, b) == IF a < b THEN a ELSE b
Alive(e) == muxErr[e] = "nil"
Cell(kind, i, n) == [kind |-> kind, id |-> i, n |-> n]
Sent(e, cell) == [wire EXCEPT ![Peer(e)] = Append(@, cell)]

\* retireStreamLocked: remember the identifier, forget the oldest one.
retireStream(q, i) ==
    IF Contains(q, i) THEN q
    ELSE LET longer == Append(q, i)
         IN  IF Len(longer) <= RetiredLimit THEN longer ELSE Tail(longer)

\* removeStream, if condition.
removeStream(e, i, condition) ==
    IF condition /\ i \in streams[e]
    THEN /\ streams' = [streams EXCEPT ![e] = @ \ {i}]
         /\ retired' = [retired EXCEPT ![e] = retireStream(@, i)]
    ELSE UNCHANGED <<streams, retired>>

\* canRetireLocked: both FINs, nothing buffered, and all credit is home.
canRetire(e, x) ==
    /\ x.localFIN /\ x.peerFIN /\ x.buffered = 0
    /\ x.window > 0 /\ x.credit = x.window
    /\ x.recv = Window[e] /\ x.pending = 0

\* Stream.fail, with the completeOpen it ends with.
fail(x, err) ==
    [x EXCEPT !.readErr = IF @ = "nil" THEN err ELSE @,
              !.writeErr = IF @ = "nil" THEN err ELSE @,
              !.result = IF @ = "none" THEN err ELSE @]

\* sendReset sends its cell unless one was sent or the stream is past writing.
sendsReset(x) == ~x.resetSent /\ x.writeErr \in {"nil", "protocol", "closed"}

\* terminate: every registered stream fails and nothing is received any more.
\* It closes the carrier, so the peer's Receive fails next; a session whose one
\* end is gone delivers nothing, and the two terminations are one step.
Failed(e, err) == [i \in Ids |-> IF i \in streams[e] THEN fail(s[e][i], err) ELSE s[e][i]]
terminate(e, err) ==
    /\ muxErr' = [d \in End |-> IF d = e THEN err ELSE "closed"]
    /\ s' = [d \in End |-> Failed(d, IF d = e THEN err ELSE "closed")]
    /\ wire' = [d \in End |-> <<>>]

\* The carrier breaks or an application closes its Mux.
MuxClosed ==
    /\ Trouble /\ Alive("client")
    /\ terminate("client", "closed")
    /\ UNCHANGED <<nextID, streams, retired, update, incoming, call>>
-----------------------------------------------------------------------------
\* Opening a stream.

OpenBegin ==
    /\ Alive("client") /\ nextID \in Ids
    /\ Cardinality(streams["client"]) < MaxStreams["client"]
    /\ nextID' = nextID + 1
    /\ s' = [s EXCEPT !["client"][nextID] = newStream(0, Window["client"], TRUE)]
    /\ streams' = [streams EXCEPT !["client"] = @ \cup {nextID}]
    /\ wire' = Sent("client", Cell("open", nextID, Window["client"]))
    /\ call' = [call EXCEPT ![nextID] = "waiting"]
    /\ UNCHANGED <<muxErr, retired, update, incoming, trouble>>

\* Open returns with the answer, or with the session's error.
OpenReturn(i) ==
    LET x == s["client"][i] IN
    /\ call[i] = "waiting"
    /\ \/ /\ x.result = "ok"
          /\ call' = [call EXCEPT ![i] = "ok"]
          /\ s' = [s EXCEPT !["client"][i].app = "open"]
          /\ UNCHANGED <<streams, retired>>
       \/ /\ x.result \notin {"none", "ok"}
          /\ call' = [call EXCEPT ![i] = "failed"]
          /\ removeStream("client", i, TRUE)
          /\ UNCHANGED s
    /\ UNCHANGED <<muxErr, nextID, update, wire, incoming, trouble>>

\* The caller's context ends first: RESET, fail, remove.
OpenCancelled(i) ==
    LET x == s["client"][i] IN
    /\ Trouble /\ Alive("client")
    /\ call[i] = "waiting"
    /\ call' = [call EXCEPT ![i] = "failed"]
    /\ s' = [s EXCEPT !["client"][i] =
               fail([x EXCEPT !.resetSent = @ \/ sendsReset(x)], "cancelled")]
    /\ wire' = IF sendsReset(x) THEN Sent("client", Cell("reset", i, 0)) ELSE wire
    /\ removeStream("client", i, TRUE)
    /\ UNCHANGED <<muxErr, nextID, update, incoming>>

\* Incoming.Accept and Incoming.Reject by the handler Mux.Accept gave it to.
Accept ==
    LET i == Head(incoming) IN
    /\ incoming # <<>> /\ Alive("server")
    /\ incoming' = Tail(incoming)
    /\ wire' = Sent("server", Cell("openok", i, Window["server"]))
    /\ s' = [s EXCEPT !["server"][i].app = "open"]
    /\ UNCHANGED <<muxErr, nextID, streams, retired, update, call, trouble>>

Reject ==
    LET i == Head(incoming) IN
    /\ Trouble
    /\ incoming # <<>> /\ Alive("server")
    /\ incoming' = Tail(incoming)
    /\ wire' = Sent("server", Cell("openfail", i, 0))
    /\ s' = [s EXCEPT !["server"][i] = fail(@, "rejected")]
    /\ removeStream("server", i, TRUE)
    /\ UNCHANGED <<muxErr, nextID, update, call>>
-----------------------------------------------------------------------------
\* The application's calls on a stream it holds.

Held(e, i) == Alive(e) /\ s[e][i].app = "open"

\* One DATA cell of a Write: as much as remains and as the credit allows.
WriteData(e, i) ==
    LET x == s[e][i]
        length == Least(Bytes[e][i] - x.sent, x.credit)
    IN  /\ Held(e, i) /\ x.writeErr = "nil" /\ ~x.localFIN
        /\ length > 0
        /\ s' = [s EXCEPT ![e][i].credit = @ - length, ![e][i].sent = @ + length]
        /\ wire' = Sent(e, Cell("data", i, length))
        /\ UNCHANGED <<muxErr, nextID, streams, retired, update, incoming, call, trouble>>

\* CloseWrite, once everything is written, with its retireIfComplete.
CloseWrite(e, i) ==
    LET x == [s[e][i] EXCEPT !.localFIN = TRUE] IN
    /\ Held(e, i) /\ x.writeErr = "nil" /\ ~s[e][i].localFIN
    /\ x.sent = Bytes[e][i]
    /\ s' = [s EXCEPT ![e][i] = x]
    /\ wire' = Sent(e, Cell("fin", i, 0))
    /\ removeStream(e, i, canRetire(e, x))
    /\ UNCHANGED <<muxErr, nextID, update, incoming, call, trouble>>

\* windowUpdateThreshold; its upper bound of 256 KiB is above every Window here.
windowUpdateThreshold(window) ==
    IF window \div Divisor = 0 THEN 1 ELSE window \div Divisor

\* Mutation: consumed credit is only returned in whole thresholds.
takePendingCreditLazy(e, x, force) ==
    IF x.pending < windowUpdateThreshold(Window[e]) THEN 0 ELSE x.pending

\* takePendingCreditLocked.
takePendingCredit(e, x, force) ==
    IF x.pending = 0 \/ (~force /\ x.pending < windowUpdateThreshold(Window[e]))
    THEN 0 ELSE x.pending

\* Read up to the unlock: bytes of a chunk, or the end of the stream.  The
\* credit it takes is sent by ReadReturn; a Read that takes none has nothing
\* left to do, as a stream with pending credit is never complete.
Read(e, i) ==
    LET Taken(x, force, eof) ==
            LET credit == takePendingCredit(e, x, force)
            IN  /\ s' = [s EXCEPT ![e][i] =
                           [x EXCEPT !.pending = @ - credit, !.recv = @ + credit]]
                /\ update' = [update EXCEPT ![e][i] = [credit |-> credit, eof |-> eof]]
    IN  /\ Held(e, i) /\ update[e][i] = NoUpdate
        /\ \/ \E n \in 1 .. s[e][i].buffered :
                LET x == [s[e][i] EXCEPT !.buffered = @ - n, !.got = @ + n,
                                         !.pending = @ + n]
                IN  Taken(x, x.recv = 0 \/ (x.peerFIN /\ x.buffered = 0), FALSE)
           \/ /\ s[e][i].buffered = 0 /\ s[e][i].readErr = "nil"
              /\ s[e][i].peerFIN /\ ~s[e][i].eof
              /\ Taken(s[e][i], TRUE, TRUE)
        /\ UNCHANGED <<muxErr, nextID, streams, retired, wire, incoming, call, trouble>>

\* Mutation: no credit is returned once this end has half-closed.
sendsUpdateBeforeFIN(x) == x.writeErr = "nil" /\ ~x.localFIN

\* sendWindowUpdate sends unless the stream has failed.
sendsUpdate(x) == x.writeErr = "nil"

\* The rest of Read: sendWindowUpdate and retireIfComplete.
ReadReturn(e, i) ==
    LET u == update[e][i]
        x == IF u.eof THEN [s[e][i] EXCEPT !.eof = TRUE] ELSE s[e][i]
    IN  /\ Alive(e) /\ u # NoUpdate
        /\ update' = [update EXCEPT ![e][i] = NoUpdate]
        /\ \/ /\ u.credit = 0 \/ sendsUpdate(x)
              /\ wire' = IF u.credit = 0 THEN wire
                         ELSE Sent(e, Cell("update", i, u.credit))
              /\ s' = [s EXCEPT ![e][i] = x]
              /\ removeStream(e, i, canRetire(e, x))
           \/ /\ u.credit # 0 /\ ~sendsUpdate(x)
              /\ UNCHANGED <<wire, s, streams, retired>>
        /\ UNCHANGED <<muxErr, nextID, incoming, call, trouble>>

\* Close: nothing to send after a graceful end, else RESET and remove.
Close(e, i) ==
    LET x == s[e][i]
        y == [x EXCEPT !.readErr = IF @ = "nil" THEN "closed" ELSE @,
                       !.writeErr = IF @ = "nil" THEN "closed" ELSE @]
    IN  /\ Trouble /\ Held(e, i)
        /\ \/ /\ x.localFIN /\ x.peerFIN /\ x.buffered = 0
              /\ s' = [s EXCEPT ![e][i].app = "closed"]
              /\ removeStream(e, i, canRetire(e, x))
              /\ UNCHANGED wire
           \/ /\ ~(x.localFIN /\ x.peerFIN /\ x.buffered = 0)
              /\ s' = [s EXCEPT ![e][i] =
                         [y EXCEPT !.app = "closed", !.resetSent = @ \/ sendsReset(y)]]
              /\ wire' = IF sendsReset(y) THEN Sent(e, Cell("reset", i, 0)) ELSE wire
              /\ removeStream(e, i, TRUE)
        /\ UNCHANGED <<muxErr, nextID, update, incoming, call>>
-----------------------------------------------------------------------------
\* The read loop: one cell.

\* Stream.handleCell: the stream after the cell, "bad" when it is refused.
handleStreamCell(x, cell) ==
    LET refused == [fail(x, "protocol") EXCEPT !.resetSent = @ \/ sendsReset(fail(x, "protocol"))]
        Checked(ok, y) == [ok |-> ok, stream |-> IF ok THEN y ELSE refused]
    IN  CASE cell.kind = "openok" ->
               Checked(~x.opened, [x EXCEPT !.opened = TRUE, !.window = cell.n,
                                            !.credit = cell.n,
                                            !.result = IF @ = "none" THEN "ok" ELSE @])
          [] cell.kind = "openfail" ->
               Checked(~x.opened, [x EXCEPT !.opened = TRUE,
                                            !.result = IF @ = "none" THEN "rejected" ELSE @])
          [] cell.kind = "data" ->
               Checked(x.opened /\ ~x.peerFIN /\ cell.n <= x.recv,
                       [x EXCEPT !.recv = @ - cell.n, !.buffered = @ + cell.n])
          [] cell.kind = "fin" ->
               Checked(x.opened /\ ~x.peerFIN, [x EXCEPT !.peerFIN = TRUE])
          [] cell.kind = "reset" ->
               Checked(x.opened, [x EXCEPT !.readErr = "reset", !.writeErr = "reset"])
          [] cell.kind = "update" ->
               Checked(x.opened /\ x.credit + cell.n <= x.window,
                       [x EXCEPT !.credit = @ + cell.n])

\* The limit handleOpen compares m.streams with.
HasRoom(e) == Cardinality(streams[e]) < MaxStreams[e]

\* Mux.handleOpen, with the OPEN_FAIL it sends at the stream limit.
handleOpen(e, cell) ==
    LET i == cell.id
        popped == [wire EXCEPT ![e] = Tail(@)]
    IN  \/ /\ i \in streams[e] \/ Contains(retired[e], i)
           /\ terminate(e, "protocol")
           /\ UNCHANGED <<streams, incoming>>
        \/ /\ i \notin streams[e] /\ ~Contains(retired[e], i) /\ ~HasRoom(e)
           /\ wire' = [popped EXCEPT ![Peer(e)] = Append(@, Cell("openfail", i, 0))]
           /\ UNCHANGED <<muxErr, s, streams, incoming>>
        \/ /\ i \notin streams[e] /\ ~Contains(retired[e], i) /\ HasRoom(e)
           /\ wire' = popped
           /\ s' = [s EXCEPT ![e][i] = newStream(cell.n, Window[e], FALSE)]
           /\ streams' = [streams EXCEPT ![e] = @ \cup {i}]
           /\ incoming' = Append(incoming, i)
           /\ UNCHANGED muxErr

\* Mux.handleCell for a cell of a stream, with the RESET a refused cell causes.
handleCell(e, cell) ==
    LET i == cell.id
        popped == [wire EXCEPT ![e] = Tail(@)]
        r == handleStreamCell(s[e][i], cell)
        resets == ~r.ok /\ sendsReset(fail(s[e][i], "protocol"))
    IN  \/ /\ i \notin streams[e] /\ Contains(retired[e], i)
           /\ wire' = popped
           /\ UNCHANGED <<muxErr, s, streams, retired>>
        \/ /\ i \notin streams[e] /\ ~Contains(retired[e], i)
           /\ terminate(e, "protocol")
           /\ UNCHANGED <<streams, retired>>
        \/ /\ i \in streams[e]
           /\ s' = [s EXCEPT ![e][i] = r.stream]
           /\ wire' = IF resets THEN [popped EXCEPT ![Peer(e)] = Append(@, Cell("reset", i, 0))]
                      ELSE popped
           /\ removeStream(e, i, ~r.ok \/ cell.kind = "reset" \/ canRetire(e, r.stream))
           /\ UNCHANGED muxErr

Receive(e) ==
    /\ Alive(e) /\ wire[e] # <<>>
    /\ LET cell == Head(wire[e])
       IN  \/ /\ cell.kind = "open"
              /\ handleOpen(e, cell)
              /\ UNCHANGED retired
           \/ /\ cell.kind # "open"
              /\ handleCell(e, cell)
              /\ UNCHANGED incoming
    /\ UNCHANGED <<nextID, update, call, trouble>>
-----------------------------------------------------------------------------
Next ==
    \/ OpenBegin \/ Accept \/ Reject \/ MuxClosed
    \/ \E i \in Ids : OpenReturn(i) \/ OpenCancelled(i)
    \/ \E e \in End :
         \/ Receive(e)
         \/ \E i \in Ids :
              WriteData(e, i) \/ CloseWrite(e, i) \/ Read(e, i) \/ ReadReturn(e, i)
                \/ Close(e, i)

Spec == Init /\ [][Next]_vars

\* The read loops run, applications answer OPENs, write what they have, then
\* half-close, and read until the end of the stream, as relayOpenTarget's two
\* copies do.  Nothing forces a Close, a cancellation or a carrier failure.
Fairness ==
    /\ WF_vars(Accept)
    /\ \A i \in Ids : WF_vars(OpenReturn(i))
    /\ \A e \in End :
         /\ WF_vars(Receive(e))
         /\ \A i \in Ids : /\ WF_vars(WriteData(e, i)) /\ WF_vars(CloseWrite(e, i))
                          /\ WF_vars(Read(e, i)) /\ WF_vars(ReadReturn(e, i))
FairSpec == Spec /\ Fairness
-----------------------------------------------------------------------------
\* The fields have their Go types; credit never exceeds the window it is part
\* of, and neither Mux registers more streams than its limit.
TypeOK ==
    /\ muxErr \in [End -> {"nil", "closed", "protocol"}]
    /\ nextID \in 1 .. MaxOpens + 1
    /\ streams \in [End -> SUBSET Ids]
    /\ call \in [Ids -> {"none", "waiting", "ok", "failed"}]
    /\ \A e \in End :
         /\ Cardinality(streams[e]) <= MaxStreams[e]
         /\ Len(retired[e]) <= RetiredLimit /\ ToSet(retired[e]) \subseteq Ids
         /\ \A i \in Ids : LET x == s[e][i] IN
              /\ x.credit \in 0 .. x.window
              /\ x.recv + x.pending + x.buffered <= Window[e]
              /\ x.sent \in 0 .. Bytes[e][i]

\* Bytes in the cells of one kind and stream on their way to e.
Weight(e, kind, i) ==
    FoldSeq(LAMBDA cell, sum : IF cell.kind = kind /\ cell.id = i THEN sum + cell.n ELSE sum,
            0, wire[e])

\* No credit is lost or made: on a stream neither end has failed, the sender's
\* credit, the bytes in flight, buffered and consumed, and the updates on their
\* way back add up to the receiver's window (stream.go:97-101, 347-356).
CreditConserved ==
    \A e \in End, i \in Ids :
        LET p == Peer(e)
            x == s[e][i]
            y == s[p][i]
            back == update[p][i].credit + Weight(e, "update", i)
        IN  /\ i \in streams[e] /\ i \in streams[p] /\ x.window > 0
            /\ {x.readErr, x.writeErr, y.readErr, y.writeErr} = {"nil"}
            => /\ x.credit + Weight(p, "data", i) + y.buffered + y.pending + back = Window[p]
               /\ y.recv = x.credit + Weight(p, "data", i) + back

\* Two correct ends never refuse each other's cells: whatever resets, rejects,
\* cancellations and retirements cross on the carrier, no stream and no session
\* ends with ErrProtocol (session.go:331-352, stream.go:253-330).  The one
\* exception is an OPEN refused at the stream limit whose caller gives up.
ErrProtocolOnlyAtLimit ==
    /\ \A e \in End, i \in Ids : muxErr[e] # "protocol" => s[e][i].writeErr # "protocol"
    /\ "protocol" \in {muxErr[e] : e \in End} =>
         \E i \in Ids : call[i] = "failed" /\ s["server"][i] = Absent

\* An end that retires a stream without an error has read everything its peer
\* wrote, and its peer has read everything it wrote (SPEC.md:206, credit is
\* flushed "before a completed stream is retired").
RetiredIsComplete ==
    \A e \in End, i \in Ids :
        LET x == s[e][i]
            y == s[Peer(e)][i]
        IN  Contains(retired[e], i) /\ x.readErr = "nil" /\ x.result = "ok"
              => x.got = y.sent /\ y.got = x.sent

\* When applications read to the end, an opened stream is eventually retired by
\* both ends: writers are never stalled for good and the last credit comes home
\* (SPEC.md:206, receivers "must flush credit when the sender can be stalled").
OpenedStreamsRetire ==
    \A i \in Ids :
        call[i] = "ok" ~> (trouble > 0 \/ \A e \in End : Contains(retired[e], i))

\* Flow control is exact: no credit appears or vanishes, no correct cell is
\* refused, and a stream is retired only when both directions are complete.
FlowControlIsExact ==
    TypeOK /\ CreditConserved /\ ErrProtocolOnlyAtLimit /\ RetiredIsComplete
=============================================================================
