--------------------------- MODULE ResumableFlow ---------------------------
(***************************************************************************)
(* One logical flow: a ResumableStream at the client and one at the server *)
(* (internal/continuity/stream.go) over a sequence of physical streams,    *)
(* each on a carrier of the constellation.  The client's migration worker  *)
(* (tunstack/continuity_router.go) opens replacements, the server's Resume *)
(* handlers (proxy/continuity.go) accept them, and acknowledgements travel *)
(* on the carriers' control channels (constellation/channel.go).           *)
(*                                                                         *)
(* A byte is its offset in its direction; that a journal replays the bytes *)
(* it was given is module Journal.  A physical stream carries, towards     *)
(* each end, the cells sent and not yet read: bytes, then FIN or RESET.    *)
(* An end whose carrier died may still read a prefix of them.              *)
(***************************************************************************)
EXTENDS Integers, Sequences, FiniteSets

CONSTANTS
    Carriers,      \* the carrier leases of the constellation
    First,         \* the carrier the flow was opened on
    Traffic,       \* the functions [End -> Nat] that total may be
    MaxPayload,    \* longest payload of one Write, and of one Read
    JournalBytes,  \* capacity of each replay journal
    AckEvery,      \* AckEveryBytes
    ReplayBuffer,  \* replayCopyBufferSize
    MaxStreams,    \* bound: physical streams opened for the flow
    MaxLosses,     \* bound: mux terminations, counting each end
    Deadlines      \* whether migration deadlines may expire

End == {"client", "server"}
Peer(e) == IF e = "client" THEN "server" ELSE "client"
None == 0
FIN == -1       \* the cells that are not bytes
RESET == -2
ABORT == -1     \* the control frame that is not an acknowledged offset
Streams == 1 .. MaxStreams
Smaller(a, b) == IF a < b THEN a ELSE b

ASSUME FlowAssumption ==
    /\ First \in Carriers
    /\ Traffic \subseteq [End -> Nat]
    /\ {MaxPayload, JournalBytes, AckEvery, ReplayBuffer, MaxStreams}
         \subseteq Nat \ {0}
    /\ AckEvery <= JournalBytes
    /\ MaxLosses \in Nat /\ Deadlines \in BOOLEAN

VARIABLES
    alive,       \* alive[c]: the ends whose mux on carrier c has not terminated
    via,         \* via[p]: the carrier of physical stream p
    wire,        \* wire[p][e]: cells sent to e on p and not yet read by e
    shut,        \* shut[p]: the ends that closed p
    st,          \* st[e]: the ResumableStream of end e, with its journal offsets
    writer,      \* writer[e]: the goroutine copying the application to the stream
    reader,      \* reader[e]: the goroutine copying the stream to the application
    rep,         \* rep[e]: who holds replaceMu, and how far it is
    lease,       \* lease[e]: flow.control and flow.leaseKey
    handlers,    \* handlers[e]: the control channels the flow is registered on
    frames,      \* frames[c][e]: FLOW_ACK offsets and ABORT on their way to e
    mig,         \* the client's migration worker
    resume,      \* resume[p]: the RESUME metadata of p and its server handler
    epoch,       \* the client's flow.epoch
    registry,    \* the server's flow record: epoch, lease, present
    timer,       \* the carrier whose loss armed the migration timer, or "off"
    finished,    \* finished[e]: finish() has run
    delivered,   \* delivered[e]: what Read returned to e's application
    total        \* total[e]: bytes the application of e sends, fixed

network == <<alive, via, wire, shut>>
control == <<lease, handlers, frames>>
vars == <<network, st, writer, reader, rep, control, mig, resume, epoch,
          registry, timer, finished, delivered, total>>

Idle == [pc |-> "idle", start |-> 0, from |-> 0, at |-> 0, physical |-> None,
         deferred |-> 0, invalid |-> FALSE, err |-> "nil", result |-> "none"]
Waiting == [pc |-> "wait", physical |-> None, got |-> <<>>, err |-> "nil",
            result |-> "none"]
Free == [owner |-> None, pc |-> "free", waits |-> FALSE, next |-> 0, until |-> 0,
         buffer |-> 0, snap |-> 0, fin |-> FALSE]
NoResume == [pc |-> "none", epoch |-> 0, base |-> 0, receive |-> 0, old |-> First]

\* openStream and AdmitNew have both returned: the flow runs on stream 1.
Init ==
    /\ alive = [c \in Carriers |-> End]
    /\ via = <<First>>
    /\ wire = [p \in Streams |-> [e \in End |-> <<>>]]
    /\ shut = [p \in Streams |-> {}]
    /\ st = [e \in End |->
               [physical |-> 1, transmitted |-> 0, receive |-> 0, notified |-> 0,
                localFIN |-> FALSE, finTransmitted |-> FALSE, discard |-> 0,
                attemptEnd |-> 0, pendingAck |-> 0, closed |-> FALSE,
                base |-> 0, end |-> 0]]
    /\ writer = [e \in End |-> Idle]
    /\ reader = [e \in End |-> Waiting]
    /\ rep = [e \in End |-> Free]
    /\ lease = [e \in End |-> First]
    /\ handlers = [e \in End |-> {First}]
    /\ frames = [c \in Carriers |-> [e \in End |-> <<>>]]
    /\ mig = [pc |-> "none", stream |-> None, old |-> First]
    /\ resume = [p \in Streams |-> NoResume]
    /\ epoch = 1
    /\ registry = [epoch |-> 1, lease |-> First, present |-> TRUE]
    /\ timer = "off"
    /\ finished = [e \in End |-> FALSE]
    /\ delivered = [e \in End |-> <<>>]
    /\ total \in Traffic
-----------------------------------------------------------------------------
\* Physical streams, as session.TransportStream presents them.

Alive(p, e) == e \in alive[via[p]]
Cells(p, e) == {wire[p][e][i] : i \in 1 .. Len(wire[p][e])}

\* An error is "lost" (ErrCarrierLost) exactly when the mux has terminated.
WriteErrors(p, e) ==
    IF ~Alive(p, e) THEN {"lost"}
    ELSE (IF e \in shut[p] THEN {"closed"} ELSE {})
           \cup (IF RESET \in Cells(p, e) THEN {"reset"} ELSE {})

ReadErrors(p, e) ==
    IF ~Alive(p, e) THEN {"lost"}
    ELSE (IF e \in shut[p] THEN {"closed"} ELSE {})
           \cup (IF wire[p][e] # <<>> /\ Head(wire[p][e]) = RESET THEN {"reset"} ELSE {})
           \cup (IF wire[p][e] # <<>> /\ Head(wire[p][e]) = FIN THEN {"eof"} ELSE {})

CanSend(p, e) == Alive(p, e) /\ e \notin shut[p]
\* A cell sent to an end whose mux has terminated goes nowhere.
Sent(p, e, cell) ==
    IF Alive(p, Peer(e)) THEN [wire EXCEPT ![p][Peer(e)] = Append(@, cell)] ELSE wire

\* A Send that fails with the carrier may have delivered its cell.
MaybeSent(p, e, cell) ==
    {wire} \cup (IF Alive(p, e) \/ e \in shut[p] THEN {} ELSE {Sent(p, e, cell)})

\* Stream.CloseWrite sends one FIN however often it is called.
WithFIN(p, e) == IF FIN \in Cells(p, Peer(e)) THEN wire ELSE Sent(p, e, FIN)

\* Stream.Close: a RESET, unless both directions already ended.
CloseStream(p, e) ==
    /\ shut' = [shut EXCEPT ![p] = @ \cup {e}]
    /\ wire' = IF CanSend(p, e)
                    /\ ~(wire[p][e] = <<FIN>> /\ FIN \in Cells(p, Peer(e)))
               THEN Sent(p, e, RESET) ELSE wire

-----------------------------------------------------------------------------
\* The flow around a stream: clientContinuityFlow and serverContinuityFlow.

\* requestMigration: dropped while a migration is queued or running.
requestMigration ==
    mig' = IF finished["client"] \/ mig.pc # "none" THEN mig
           ELSE [mig EXCEPT !.pc = "queued"]

\* markUnavailable(p) on s, the stream of e as the caller leaves it.
markUnavailable(e, p, s) ==
    IF ~s.closed /\ s.physical = p
    THEN /\ st' = [st EXCEPT ![e] =
                     [s EXCEPT !.physical = None,
                               !.finTransmitted = IF s.localFIN THEN FALSE ELSE @]]
         /\ CloseStream(p, e)
         /\ IF e = "client" THEN requestMigration ELSE UNCHANGED mig
    ELSE st' = [st EXCEPT ![e] = s] /\ UNCHANGED <<wire, shut, mig>>

\* ControlChannel.send on carrier c by e: f with the frame, if it can be sent.
WithFrame(c, e, frame) ==
    IF e \in alive[c] /\ Peer(e) \in alive[c]
    THEN [frames EXCEPT ![c][Peer(e)] = Append(@, frame)] ELSE frames

\* finish: unregister, close the stream and its journal, release the record.
\* A stream still being opened (opening) is reset by its own caller.
finish(e, registered, opening) ==
    /\ finished' = [finished EXCEPT ![e] = TRUE]
    /\ handlers' = [handlers EXCEPT ![e] =
                      IF finished[e] THEN registered ELSE registered \ {lease[e]}]
    /\ IF finished[e] THEN UNCHANGED <<st, wire, shut, registry>>
       ELSE /\ st' = [st EXCEPT ![e].closed = TRUE, ![e].physical = None]
            /\ IF st[e].physical # None THEN CloseStream(st[e].physical, e)
               ELSE IF opening # None THEN CloseStream(opening, e)
               ELSE UNCHANGED <<wire, shut>>
            /\ registry' = IF e = "server" THEN [registry EXCEPT !.present = FALSE]
                           ELSE registry

\* The relay or the application closes the flow: both copies have ended, or one
\* ended with an error that relayFailed reports.  The client sends FLOW_ABORT.
relayFailed(result) == result \in {"state", "budget"}
CloseFlow(e) ==
    /\ ~finished[e]
    /\ \/ writer[e].pc = "done" /\ relayFailed(writer[e].result)
       \/ relayFailed(reader[e].result)
       \/ writer[e].pc = "done" /\ reader[e].result # "none"
    /\ finish(e, handlers[e], None)
    /\ frames' = IF e = "client" THEN WithFrame(lease[e], e, ABORT) ELSE frames
    /\ UNCHANGED <<alive, via, writer, reader, rep, lease, mig, resume,
                   epoch, timer, delivered, total>>

\* mux.terminate at one end; the other end learns later.  The control channel
\* on it finishes: a registered flow asks for its migration (client) or starts
\* its migration timer (server, if the channel is its current lease).
MuxLost(c, e) ==
    /\ e \in alive[c]
    /\ Cardinality({<<d, x>> \in Carriers \X End : x \notin alive[d]}) < MaxLosses
    /\ alive' = [alive EXCEPT ![c] = @ \ {e}]
    /\ frames' = [frames EXCEPT ![c][e] = <<>>]
    /\ handlers' = [handlers EXCEPT ![e] = @ \ {c}]
    /\ IF e = "client" /\ c \in handlers[e] THEN requestMigration ELSE UNCHANGED mig
    /\ timer' = IF e = "server" /\ c \in handlers[e] /\ lease[e] = c THEN c ELSE timer
    /\ UNCHANGED <<via, wire, shut, st, writer, reader, rep, lease, resume, epoch,
                   registry, finished, delivered, total>>
-----------------------------------------------------------------------------
\* Write and CloseWrite, in the goroutine of io.Copy(stream, source).

Sends(e) == total[e] > 0

\* Journal.Append of the next payload; the budget error ends the copy.
WriteAppend(e, n) ==
    /\ writer[e].pc = "idle" /\ ~st[e].closed
    /\ n <= total[e] - st[e].end
    /\ IF n > JournalBytes - (st[e].end - st[e].base)
       THEN /\ writer' = [writer EXCEPT ![e] = [Idle EXCEPT !.pc = "copied",
                                                          !.result = "budget"]]
            /\ UNCHANGED st
       ELSE /\ st' = [st EXCEPT ![e].end = @ + n]
            /\ writer' = [writer EXCEPT ![e] = [Idle EXCEPT !.pc = "wait",
                                                          !.start = st[e].end]]
    /\ UNCHANGED <<network, reader, rep, control, mig, resume, epoch, registry,
                   timer, finished, delivered, total>>

\* waitPhysical and the publication of the write attempt.
WriteAttempt(e) ==
    LET s == st[e] IN
    /\ writer[e].pc = "wait" /\ ~s.closed /\ s.physical # None
    /\ \/ /\ s.transmitted >= s.end
          /\ writer' = [writer EXCEPT ![e] = Idle]
          /\ UNCHANGED st
       \/ /\ s.transmitted < writer[e].start
          /\ writer' = [writer EXCEPT ![e] = [Idle EXCEPT !.pc = "copied",
                                                        !.result = "state"]]
          /\ UNCHANGED st
       \/ /\ s.transmitted >= writer[e].start /\ s.transmitted < s.end
          /\ st' = [st EXCEPT ![e].attemptEnd = s.end]
          /\ writer' = [writer EXCEPT ![e].pc = "writing", ![e].from = s.transmitted,
                                      ![e].at = s.transmitted,
                                      ![e].physical = s.physical]
    /\ UNCHANGED <<network, reader, rep, control, mig, resume, epoch, registry,
                   timer, finished, delivered, total>>

\* physical.Write, one cell at a time.
WriteCell(e) ==
    LET w == writer[e] IN
    /\ w.pc = "writing" /\ w.at < st[e].end
    /\ CanSend(w.physical, e)
    /\ wire' = Sent(w.physical, e, w.at)
    /\ writer' = [writer EXCEPT ![e].at = @ + 1]
    /\ UNCHANGED <<alive, via, shut, st, reader, rep, control, mig, resume, epoch,
                   registry, timer, finished, delivered, total>>

\* What physical.Write wrote is counted, and a staged acknowledgement is
\* released, refused, or dropped, under mu.
Commit(s, w, err) ==
    LET confirmed == ~s.closed /\ s.physical \in {w.physical, None}
                       /\ s.transmitted = w.from
        sent == IF confirmed THEN w.at ELSE s.transmitted
    IN  [transmitted |-> sent,
         deferred |-> IF s.pendingAck <= sent THEN s.pendingAck ELSE 0,
         invalid  |-> s.pendingAck > sent /\ err # "nil"]

WriteReturn(e, err) ==
    LET s == st[e]
        w == writer[e]
        c == Commit(s, w, err)
    IN  /\ w.pc = "writing"
        /\ IF w.at = s.end THEN err = "nil" /\ UNCHANGED wire
           ELSE /\ err \in WriteErrors(w.physical, e)
                /\ wire' \in MaybeSent(w.physical, e, w.at)
        /\ st' = [st EXCEPT ![e].transmitted = c.transmitted,
                            ![e].attemptEnd = 0, ![e].pendingAck = 0]
        /\ writer' = [writer EXCEPT ![e].pc = "settle", ![e].deferred = c.deferred,
                                    ![e].invalid = c.invalid, ![e].err = err]
        /\ UNCHANGED <<alive, via, shut, reader, rep, control, mig, resume, epoch, registry,
                       timer, finished, delivered, total>>

\* ackJournal(offset, true): a newer acknowledgement may have come first.
ackDeferred(s, offset) ==
    [ok |-> offset <= s.base \/ ~s.closed,
     base |-> IF offset <= s.base \/ s.closed THEN s.base ELSE offset]

\* The rest of the loop body of Write, up to its return or the next attempt.
WriteSettle(e) ==
    LET w == writer[e]
        ack == ackDeferred(st[e], w.deferred)
        s == IF w.deferred # 0 /\ ack.ok THEN [st[e] EXCEPT !.base = ack.base] ELSE st[e]
        Return(result) ==
            /\ writer' = [writer EXCEPT ![e] = [Idle EXCEPT !.pc = "copied",
                                                          !.result = result]]
            /\ st' = [st EXCEPT ![e] = s]
            /\ UNCHANGED <<wire, shut, mig>>
    IN  /\ w.pc = "settle"
        /\ IF w.deferred # 0 /\ ~ack.ok THEN Return("closed")
           ELSE IF w.invalid THEN Return("state")
           ELSE IF s.closed THEN Return("closed")
           ELSE IF s.transmitted >= s.end
                THEN /\ writer' = [writer EXCEPT ![e] = Idle]
                     /\ st' = [st EXCEPT ![e] = s]
                     /\ UNCHANGED <<wire, shut, mig>>
           ELSE IF w.err # "lost" THEN Return(w.err)
           ELSE /\ markUnavailable(e, w.physical, s)
                /\ writer' = [writer EXCEPT ![e] = [Idle EXCEPT !.pc = "wait",
                                                              !.start = w.start]]
        /\ UNCHANGED <<alive, via, reader, rep, control, resume, epoch, registry,
                       timer, finished, delivered, total>>

\* io.Copy ends: the source is exhausted, or the stream was closed under it.
CopyEnds(e) ==
    /\ Sends(e)
    /\ \/ writer[e].pc = "idle" /\ st[e].end = total[e] /\ ~st[e].closed
          /\ writer' = [writer EXCEPT ![e] = [Idle EXCEPT !.pc = "copied",
                                                        !.result = "ok"]]
       \/ writer[e].pc \in {"idle", "wait"} /\ st[e].closed
          /\ writer' = [writer EXCEPT ![e] = [Idle EXCEPT !.pc = "copied",
                                                        !.result = "closed"]]
    /\ UNCHANGED <<network, st, reader, rep, control, mig, resume, epoch, registry,
                   timer, finished, delivered, total>>

\* CloseWrite up to waitPhysical; the relay calls it however the copy ended.
CloseWriteBegin(e) ==
    /\ writer[e].pc = "copied"
    /\ IF st[e].closed
       THEN writer' = [writer EXCEPT ![e].pc = "done"] /\ UNCHANGED st
       ELSE /\ st' = [st EXCEPT ![e].localFIN = TRUE]
            /\ writer' = [writer EXCEPT ![e].pc = "fin"]
    /\ UNCHANGED <<network, reader, rep, control, mig, resume, epoch, registry,
                   timer, finished, delivered, total>>

CloseWriteWait(e) ==
    LET s == st[e] IN
    /\ writer[e].pc = "fin"
    /\ s.closed \/ s.physical # None
    /\ IF s.closed \/ s.finTransmitted \/ s.transmitted < s.end
       THEN writer' = [writer EXCEPT ![e].pc = "done"]
       ELSE writer' = [writer EXCEPT ![e].pc = "finsend", ![e].physical = s.physical]
    /\ UNCHANGED <<network, st, reader, rep, control, mig, resume, epoch, registry,
                   timer, finished, delivered, total>>

\* physical.CloseWrite; any error makes the stream unavailable.
CloseWriteSend(e) ==
    LET w == writer[e] IN
    /\ w.pc = "finsend"
    /\ \/ /\ CanSend(w.physical, e)
          /\ wire' = WithFIN(w.physical, e)
          /\ st' = [st EXCEPT ![e].finTransmitted = @ \/ st[e].physical = w.physical]
          /\ writer' = [writer EXCEPT ![e].pc = "done", ![e].physical = None]
          /\ UNCHANGED <<shut, mig>>
       \/ /\ WriteErrors(w.physical, e) # {}
          /\ markUnavailable(e, w.physical, st[e])
          /\ writer' = [writer EXCEPT ![e].pc = "fin", ![e].physical = None]
    /\ UNCHANGED <<alive, via, reader, rep, control, resume, epoch, registry,
                   timer, finished, delivered, total>>
-----------------------------------------------------------------------------
\* Read, in the goroutine of io.Copy(target, stream).

Receives(e) == total[Peer(e)] > 0

ReadWait(e) ==
    /\ Receives(e)
    /\ reader[e].pc = "wait"
    /\ \/ /\ st[e].closed
          /\ reader' = [reader EXCEPT ![e].pc = "done", ![e].result = "closed"]
       \/ /\ ~st[e].closed /\ st[e].physical # None
          /\ reader' = [reader EXCEPT ![e].pc = "reading",
                                      ![e].physical = st[e].physical]
    /\ UNCHANGED <<network, st, writer, rep, control, mig, resume, epoch, registry,
                   timer, finished, delivered, total>>

\* physical.Read returns n bytes; sending their credit may fail (err).
ReadCells(e, n, err) ==
    LET p == reader[e].physical IN
    /\ reader[e].pc = "reading"
    /\ n <= Len(wire[p][e]) /\ \A i \in 1 .. n : wire[p][e][i] >= 0
    /\ err = "nil" \/ err \in WriteErrors(p, e)
    /\ wire' = [wire EXCEPT ![p][e] = SubSeq(@, n + 1, Len(@))]
    /\ reader' = [reader EXCEPT ![e].pc = "got", ![e].err = err,
                                ![e].got = SubSeq(wire[p][e], 1, n)]
    /\ UNCHANGED <<alive, via, shut, st, writer, rep, control, mig, resume, epoch,
                   registry, timer, finished, delivered, total>>

\* physical.Read returns no byte: a carrier loss is recoverable, the rest ends
\* the copy.
ReadFails(e, err) ==
    LET p == reader[e].physical IN
    /\ reader[e].pc = "reading"
    /\ err \in ReadErrors(p, e)
    /\ IF err = "lost"
       THEN /\ markUnavailable(e, p, st[e])
            /\ reader' = [reader EXCEPT ![e] = Waiting]
       ELSE /\ reader' = [reader EXCEPT ![e] = [Waiting EXCEPT !.pc = "done",
                                                              !.result = err]]
            /\ UNCHANGED <<st, wire, shut, mig>>
    /\ UNCHANGED <<alive, via, writer, rep, control, resume, epoch, registry,
                   timer, finished, delivered, total>>

\* Mutation: replayed bytes the application already has are not dropped.
DroppedNone(s, n) == 0

\* The bytes of a read that precede receiveOffset on a replacement stream.
Dropped(s, n) == Smaller(n, s.discard)

\* The locked part of Read and the acknowledgement it triggers.
ReadApply(e) ==
    LET r == reader[e]
        s == st[e]
        d == Dropped(s, Len(r.got))
        kept == SubSeq(r.got, d + 1, Len(r.got))
        receive == s.receive + Len(kept)
        notify == receive - s.notified >= AckEvery
        applied == [s EXCEPT !.discard = @ - d, !.receive = receive,
                             !.notified = IF notify THEN receive ELSE @]
        unsent == notify /\ (finished[e] \/ e \notin alive[lease[e]])
        Stop(result) ==
            /\ reader' = [reader EXCEPT ![e] = [Waiting EXCEPT !.pc = "done",
                                                              !.result = result]]
            /\ UNCHANGED <<st, wire, shut, mig, frames, delivered, total>>
    IN  /\ r.pc = "got"
        /\ IF s.closed THEN Stop("closed")
           ELSE IF s.physical # r.physical THEN Stop("state")
           ELSE /\ delivered' = [delivered EXCEPT ![e] = @ \o kept]
                /\ frames' = IF notify /\ ~unsent
                             THEN WithFrame(lease[e], e, receive) ELSE frames
                /\ IF unsent \/ r.err = "lost"
                   THEN markUnavailable(e, r.physical, applied)
                   ELSE st' = [st EXCEPT ![e] = applied] /\ UNCHANGED <<wire, shut, mig>>
                /\ reader' = [reader EXCEPT ![e] =
                                IF kept = <<>> /\ r.err \notin {"nil", "lost"}
                                THEN [Waiting EXCEPT !.pc = "done", !.result = "state"]
                                ELSE Waiting]
        /\ UNCHANGED <<alive, via, writer, rep, lease, handlers, resume,
                       epoch, registry, timer, finished, total>>
-----------------------------------------------------------------------------
\* Control channels.

\* Mutation: Ack accepts any offset the journal holds.
AckUnstaged(s, offset) ==
    IF s.closed \/ offset < s.base \/ offset > s.end
    THEN [ok |-> FALSE, stream |-> s]
    ELSE [ok |-> TRUE, stream |-> [s EXCEPT !.base = offset]]

\* ResumableStream.Ack: an offset beyond transmitted is staged while a write
\* attempt that covers it is in progress, and refused otherwise.
Ack(s, offset) ==
    IF s.closed THEN [ok |-> FALSE, stream |-> s]
    ELSE IF offset > s.transmitted
    THEN IF s.attemptEnd # 0 /\ offset <= s.attemptEnd
         THEN [ok |-> TRUE,
               stream |-> [s EXCEPT !.pendingAck = IF offset > @ THEN offset ELSE @]]
         ELSE [ok |-> FALSE, stream |-> s]
    ELSE IF offset < s.base THEN [ok |-> FALSE, stream |-> s]
    ELSE [ok |-> TRUE, stream |-> [s EXCEPT !.base = offset]]

\* receiveLoop takes one frame.  An acknowledgement the stream refuses aborts
\* the flow on this channel and tells the peer; one without a handler only
\* tells the peer.  An abort finishes the flow if the channel is its lease.
ReceiveFrame(c, e) ==
    LET frame == Head(frames[c][e])
        popped == [frames EXCEPT ![c][e] = Tail(@)]
        reply == IF Peer(e) \in alive[c]
                 THEN [popped EXCEPT ![c][Peer(e)] = Append(@, ABORT)] ELSE popped
        ack == Ack(st[e], frame)
        handleAbort ==
            IF lease[e] = c
            THEN finish(e, handlers[e] \ {c}, None)
            ELSE /\ handlers' = [handlers EXCEPT ![e] = @ \ {c}]
                 /\ UNCHANGED <<finished, st, wire, shut, registry>>
    IN  /\ frames[c][e] # <<>> /\ e \in alive[c]
        /\ \/ /\ frame = ABORT /\ c \notin handlers[e]
              /\ frames' = popped
              /\ UNCHANGED <<handlers, finished, st, wire, shut, registry>>
           \/ /\ frame = ABORT /\ c \in handlers[e]
              /\ frames' = popped
              /\ handleAbort
           \/ /\ frame # ABORT /\ c \notin handlers[e]
              /\ frames' = reply
              /\ UNCHANGED <<handlers, finished, st, wire, shut, registry>>
           \/ /\ frame # ABORT /\ c \in handlers[e] /\ ack.ok
              /\ frames' = popped
              /\ st' = [st EXCEPT ![e] = ack.stream]
              /\ UNCHANGED <<handlers, finished, wire, shut, registry>>
           \/ /\ frame # ABORT /\ c \in handlers[e] /\ ~ack.ok
              /\ frames' = reply
              /\ handleAbort
        /\ UNCHANGED <<alive, via, writer, reader, rep, lease, mig,
                       resume, epoch, timer, delivered, total>>

\* The migration timer fires: expired only if the lease is still the lost one.
MigrationExpires ==
    /\ Deadlines
    /\ timer # "off" /\ lease["server"] = timer /\ ~finished["server"]
    /\ finish("server", handlers["server"], None)
    /\ timer' = "off"
    /\ UNCHANGED <<alive, via, writer, reader, rep, lease, frames, mig,
                   resume, epoch, delivered, total>>
-----------------------------------------------------------------------------
\* DetachPhysical and Replace.  rep[e].owner is the stream on whose behalf
\* replaceMu is held.

\* DetachPhysical: the physical stream is closed; a write attempt in progress
\* is waited for, holding replaceMu.
Detach(e, owner) ==
    /\ st' = [st EXCEPT ![e].physical = None]
    /\ IF st[e].physical = None THEN UNCHANGED <<wire, shut>>
       ELSE CloseStream(st[e].physical, e)
    /\ rep' = [rep EXCEPT ![e] =
                 [Free EXCEPT !.owner = owner, !.pc = "detaching",
                              !.waits = writer[e].pc = "writing"]]

Detached(e, owner) ==
    /\ rep[e].owner = owner /\ rep[e].pc = "detaching"
    /\ rep[e].waits => writer[e].pc \notin {"writing", "settle"}
    /\ rep' = [rep EXCEPT ![e] = Free]

\* The ResumeState each end passes to Replace for stream p.
PeerReceiveOffset(e, p) == IF e = "client" THEN resume[p].base ELSE resume[p].receive
ReceiveOffset(e, p) == IF e = "client" THEN resume[p].receive ELSE resume[p].base

\* The checks of Replace and of the ackJournal it makes.
Resumable(e, p) ==
    LET s == st[e] IN
    /\ ~s.closed /\ s.physical = None
    /\ ReceiveOffset(e, p) <= s.receive
    /\ PeerReceiveOffset(e, p) <= s.transmitted
    /\ PeerReceiveOffset(e, p) >= s.base /\ PeerReceiveOffset(e, p) <= s.end

\* After a failed Replace the caller puts the old lease back.
Restored(e, p) ==
    LET old == IF e = "client" THEN mig.old ELSE resume[p].old IN
    /\ rep' = [rep EXCEPT ![e] = Free]
    /\ lease' = [lease EXCEPT ![e] = old]
    /\ handlers' = [handlers EXCEPT ![e] = IF old = via[p] THEN @ ELSE @ \ {via[p]}]
    /\ IF e = "client"
       THEN mig' = [mig EXCEPT !.pc = "route", !.stream = None] /\ UNCHANGED resume
       ELSE resume' = [resume EXCEPT ![p].pc = "done"] /\ UNCHANGED mig

\* A failed Replace closes its candidate.
ReplaceFails(e, p) == CloseStream(p, e) /\ Restored(e, p)

\* The stream whose RESUME this end is about to install.
Replacing(e, p) ==
    IF e = "client" THEN mig.pc = "replace" /\ mig.stream = p
    ELSE resume[p].pc = "replace"

\* Replace up to the journal snapshot.
ReplaceBegin(e, p) ==
    /\ Replacing(e, p) /\ rep[e].pc = "free"
    /\ IF Resumable(e, p)
       THEN /\ st' = [st EXCEPT ![e].base = PeerReceiveOffset(e, p)]
            /\ rep' = [rep EXCEPT ![e] =
                         [Free EXCEPT !.owner = p, !.pc = "replay",
                                      !.next = PeerReceiveOffset(e, p),
                                      !.until = PeerReceiveOffset(e, p),
                                      !.buffer = Smaller(ReplayBuffer,
                                          st[e].end - PeerReceiveOffset(e, p)),
                                      !.snap = st[e].end]]
            /\ UNCHANGED <<wire, shut, lease, handlers, mig, resume>>
       ELSE ReplaceFails(e, p) /\ UNCHANGED st
    /\ UNCHANGED <<alive, via, writer, reader, frames, epoch, registry,
                   timer, finished, delivered, total>>

\* Journal.Replay fills the copy buffer, up to the journal's current end, unless
\* acknowledgements moved past it.
ReplayFill(e) ==
    LET x == rep[e] IN
    /\ x.pc = "replay" /\ x.next = x.until /\ x.next < x.snap
    /\ IF st[e].closed \/ x.next < st[e].base
       THEN ReplaceFails(e, x.owner)
       ELSE /\ rep' = [rep EXCEPT ![e].until = Smaller(x.next + x.buffer, st[e].end)]
            /\ UNCHANGED <<wire, shut, lease, handlers, mig, resume>>
    /\ UNCHANGED <<alive, via, st, writer, reader, frames, epoch,
                   registry, timer, finished, delivered, total>>

\* writeAll sends the buffered bytes on the candidate, cell by cell.
ReplayCell(e) ==
    LET x == rep[e] IN
    /\ x.pc = "replay" /\ x.next < x.until
    /\ \/ /\ CanSend(x.owner, e)
          /\ wire' = Sent(x.owner, e, x.next)
          /\ rep' = [rep EXCEPT ![e].next = @ + 1]
          /\ UNCHANGED <<shut, lease, handlers, mig, resume>>
       \/ /\ ~Alive(x.owner, e)
          /\ wire' \in MaybeSent(x.owner, e, x.next)
          /\ shut' = [shut EXCEPT ![x.owner] = @ \cup {e}]
          /\ Restored(e, x.owner)
       \/ /\ Alive(x.owner, e) /\ WriteErrors(x.owner, e) # {}
          /\ ReplaceFails(e, x.owner)
    /\ UNCHANGED <<alive, via, st, writer, reader, frames, epoch,
                   registry, timer, finished, delivered, total>>

\* The loop of Replace has reached the end of the journal as it was snapshotted.
Replayed(x) == x.next >= x.snap /\ x.next = x.until

\* A half-close made before now is repeated on the candidate.
ReplayFIN(e) ==
    LET x == rep[e] IN
    /\ x.pc = "replay" /\ Replayed(x)
    /\ \/ /\ ~st[e].localFIN
          /\ rep' = [rep EXCEPT ![e].pc = "publish"]
          /\ UNCHANGED <<wire, shut, lease, handlers, mig, resume>>
       \/ /\ st[e].localFIN /\ CanSend(x.owner, e)
          /\ wire' = WithFIN(x.owner, e)
          /\ rep' = [rep EXCEPT ![e].pc = "publish", ![e].fin = TRUE]
          /\ UNCHANGED <<shut, lease, handlers, mig, resume>>
       \/ /\ st[e].localFIN /\ WriteErrors(x.owner, e) # {}
          /\ ReplaceFails(e, x.owner)
    /\ UNCHANGED <<alive, via, st, writer, reader, frames, epoch,
                   registry, timer, finished, delivered, total>>

\* Mutation: the replayed bytes are not counted as transmitted.
PublishedUncounted(s, x, received) ==
    [s EXCEPT !.physical = x.owner, !.finTransmitted = x.fin,
              !.discard = s.receive - received]

\* The state Replace leaves behind.
Published(s, x, received) ==
    [s EXCEPT !.physical = x.owner, !.transmitted = x.snap,
              !.finTransmitted = x.fin, !.discard = s.receive - received]

\* The final locked section of Replace, and what its caller does on success.
Publish(e) ==
    LET x == rep[e]
        p == x.owner
        s == st[e]
    IN  /\ x.pc = "publish"
        /\ IF s.closed \/ s.physical # None \/ ReceiveOffset(e, p) > s.receive
           THEN ReplaceFails(e, p) /\ UNCHANGED <<st, timer>>
           ELSE /\ st' = [st EXCEPT ![e] = Published(s, x, ReceiveOffset(e, p))]
                /\ rep' = [rep EXCEPT ![e] = Free]
                /\ IF e = "client"
                   THEN /\ mig' = [mig EXCEPT !.pc = "replaced"]
                        /\ UNCHANGED <<resume, handlers, timer>>
                   ELSE /\ resume' = [resume EXCEPT ![p].pc = "done"]
                        /\ handlers' = [handlers EXCEPT ![e] =
                              IF resume[p].old = via[p] THEN @ ELSE @ \ {resume[p].old}]
                        /\ timer' = "off"
                        /\ UNCHANGED mig
                /\ UNCHANGED <<wire, shut, lease>>
        /\ UNCHANGED <<alive, via, writer, reader, frames, epoch,
                       registry, finished, delivered, total>>
-----------------------------------------------------------------------------
\* The client's migrate, run by one worker at a time for a flow.

MigrateDetach ==
    /\ mig.pc = "queued"
    /\ IF st["client"].closed
       THEN mig' = [mig EXCEPT !.pc = "aborted"] /\ UNCHANGED <<st, wire, shut, rep>>
       ELSE mig' = [mig EXCEPT !.pc = "detaching"] /\ Detach("client", None)
    /\ UNCHANGED <<alive, via, writer, reader, control, resume, epoch, registry,
                   timer, finished, delivered, total>>

MigrateDetached ==
    /\ mig.pc = "detaching"
    /\ Detached("client", None)
    /\ mig' = [mig EXCEPT !.pc = "route"]
    /\ UNCHANGED <<network, st, writer, reader, control, resume, epoch, registry,
                   timer, finished, delivered, total>>

\* A route other than the current lease is chosen and the RESUME is sent.
MigrateOpen(c) ==
    LET p == Len(via) + 1 IN
    /\ mig.pc = "route" /\ ~finished["client"]
    /\ Len(via) < MaxStreams
    /\ c # lease["client"] /\ "client" \in alive[c]
    /\ via' = Append(via, c)
    /\ resume' = [resume EXCEPT ![p] =
                    [pc |-> "opening", epoch |-> epoch + 1,
                     base |-> st["client"].base, receive |-> st["client"].receive,
                     old |-> First]]
    /\ mig' = [pc |-> "opening", stream |-> p, old |-> lease["client"]]
    /\ UNCHANGED <<alive, wire, shut, st, writer, reader, rep, control, epoch,
                   registry, timer, finished, delivered, total>>

\* mux.Open returns: the stream, or an error once the carrier is lost.
MigrateOpened ==
    LET p == mig.stream
        c == via[p]
    IN  /\ mig.pc = "opening"
        /\ \/ /\ resume[p].pc # "opening" /\ "client" \in alive[c]
              /\ c \notin handlers["client"]
              /\ handlers' = [handlers EXCEPT !["client"] = @ \cup {c}]
              /\ lease' = [lease EXCEPT !["client"] = c]
              /\ mig' = [mig EXCEPT !.pc = "replace"]
              /\ UNCHANGED <<wire, shut>>
           \/ /\ resume[p].pc # "opening"
              /\ c \in handlers["client"]
              /\ CloseStream(p, "client")
              /\ mig' = [mig EXCEPT !.pc = "route", !.stream = None]
              /\ UNCHANGED <<handlers, lease>>
           \/ /\ "client" \notin alive[c]
              /\ mig' = [mig EXCEPT !.pc = "route", !.stream = None]
              /\ UNCHANGED <<handlers, lease, wire, shut>>
        /\ UNCHANGED <<alive, via, st, writer, reader, rep, frames,
                       resume, epoch, registry, timer, finished, delivered, total>>

\* The migration deadline, or a flow that finished meanwhile.
MigrateTimeout ==
    /\ mig.pc \in {"route", "opening"} /\ (Deadlines \/ finished["client"])
    /\ mig' = [mig EXCEPT !.pc = "aborted"]
    /\ finish("client", handlers["client"], mig.stream)
    /\ frames' = IF finished["client"] THEN frames
                 ELSE WithFrame(lease["client"], "client", ABORT)
    /\ UNCHANGED <<alive, via, writer, reader, rep, lease, resume,
                   epoch, timer, delivered, total>>

\* The new epoch is recorded and migration requests are accepted again.
MigrateEnds ==
    /\ mig.pc = "replaced"
    /\ epoch' = epoch + 1
    /\ mig' = [mig EXCEPT !.pc = "none", !.stream = None]
    /\ handlers' = [handlers EXCEPT !["client"] = @ \ {mig.old}]
    /\ UNCHANGED <<network, st, writer, reader, rep, lease, frames,
                   resume, registry, timer, finished, delivered, total>>
-----------------------------------------------------------------------------
\* The server's handler of one RESUME stream: Accept, Resume, replace.

ResumeAccept(p) ==
    /\ p <= Len(via) /\ resume[p].pc = "opening" /\ Alive(p, "server")
    /\ resume' = [resume EXCEPT ![p].pc = "accepted"]
    /\ UNCHANGED <<network, st, writer, reader, rep, control, mig, epoch, registry,
                   timer, finished, delivered, total>>

\* Mutation: the epoch of the RESUME is not compared with the record.
AttachAnyEpoch(r, p) == "ok"

\* FlowRegistry.Attach for the flow's own principal and constellation.
Attach(r, p) ==
    IF resume[p].epoch = r.epoch /\ via[p] = r.lease THEN "ok"
    ELSE IF resume[p].epoch = r.epoch + 1 THEN "ok"
    ELSE "conflict"

\* ContinuityRuntime.Resume up to DetachPhysical: the registry decides, the new
\* control channel is registered and becomes the flow's lease.
ResumeAttach(p) ==
    LET c == via[p]
        reject == /\ CloseStream(p, "server")
                  /\ resume' = [resume EXCEPT ![p].pc = "done"]
    IN  /\ resume[p].pc = "accepted"
        /\ \/ /\ finished["server"] \/ ~registry.present
              /\ reject
              /\ UNCHANGED <<st, registry, finished, lease, handlers>>
           \/ /\ ~finished["server"] /\ registry.present
              /\ Attach(registry, p) = "conflict"
              /\ finish("server", handlers["server"], p)
              /\ resume' = [resume EXCEPT ![p].pc = "done"]
              /\ UNCHANGED lease
           \/ /\ ~finished["server"] /\ registry.present
              /\ Attach(registry, p) = "ok"
              /\ registry' = [registry EXCEPT !.epoch = resume[p].epoch, !.lease = c]
              /\ IF lease["server"] # c /\ ("server" \notin alive[c]
                                             \/ c \in handlers["server"])
                 THEN reject /\ UNCHANGED <<lease, handlers>>
                 ELSE /\ resume' = [resume EXCEPT ![p].pc = "attached",
                                                  ![p].old = lease["server"]]
                      /\ lease' = [lease EXCEPT !["server"] = c]
                      /\ handlers' = [handlers EXCEPT !["server"] =
                                         IF lease["server"] = c THEN @ ELSE @ \cup {c}]
                      /\ UNCHANGED <<wire, shut>>
              /\ UNCHANGED <<st, finished>>
        /\ UNCHANGED <<alive, via, writer, reader, rep, frames, mig,
                       epoch, timer, delivered, total>>

ResumeDetach(p) ==
    /\ resume[p].pc = "attached" /\ rep["server"].pc = "free"
    /\ IF st["server"].closed
       THEN ReplaceFails("server", p) /\ UNCHANGED st
       ELSE /\ resume' = [resume EXCEPT ![p].pc = "detaching"]
            /\ Detach("server", p)
            /\ UNCHANGED <<lease, handlers, mig>>
    /\ UNCHANGED <<alive, via, writer, reader, frames, epoch, registry,
                   timer, finished, delivered, total>>

ResumeDetached(p) ==
    /\ resume[p].pc = "detaching"
    /\ Detached("server", p)
    /\ resume' = [resume EXCEPT ![p].pc = "replace"]
    /\ UNCHANGED <<network, st, writer, reader, control, mig, epoch, registry,
                   timer, finished, delivered, total>>
-----------------------------------------------------------------------------
Next ==
    \/ \E e \in End :
         \/ \E c \in Carriers :
              MuxLost(c, e) \/ ReceiveFrame(c, e)
         \/ \E n \in 1 .. MaxPayload : WriteAppend(e, n)
         \/ WriteAttempt(e) \/ WriteCell(e) \/ WriteSettle(e)
         \/ \E err \in {"nil", "lost", "closed", "reset"} : WriteReturn(e, err)
         \/ CopyEnds(e) \/ CloseWriteBegin(e) \/ CloseWriteWait(e) \/ CloseWriteSend(e)
         \/ ReadWait(e) \/ ReadApply(e)
         \/ \E n \in 1 .. MaxPayload, err \in {"nil", "lost", "closed", "reset"} :
              ReadCells(e, n, err)
         \/ \E err \in {"lost", "closed", "reset", "eof"} : ReadFails(e, err)
         \/ \E p \in Streams : ReplaceBegin(e, p)
         \/ ReplayFill(e) \/ ReplayCell(e) \/ ReplayFIN(e) \/ Publish(e)
         \/ CloseFlow(e)
    \/ MigrationExpires
    \/ MigrateDetach \/ MigrateDetached \/ MigrateOpened \/ MigrateTimeout \/ MigrateEnds
    \/ \E c \in Carriers : MigrateOpen(c)
    \/ \E p \in Streams :
         ResumeAccept(p) \/ ResumeAttach(p) \/ ResumeDetach(p) \/ ResumeDetached(p)

Spec == Init /\ [][Next]_vars
-----------------------------------------------------------------------------
\* The fields have their Go types, and the offsets of a stream are ordered the
\* way its methods assume: base, transmitted and a staged acknowledgement never
\* pass the end of the journal, which never holds more than its budget.
TypeOK ==
    /\ alive \in [Carriers -> SUBSET End] /\ shut \in [Streams -> SUBSET End]
    /\ via \in Seq(Carriers) /\ Len(via) \in Streams
    /\ lease \in [End -> Carriers] /\ handlers \in [End -> SUBSET Carriers]
    /\ finished \in [End -> BOOLEAN] /\ epoch \in Nat /\ registry.epoch \in Nat
    /\ \A e \in End :
         /\ st[e].physical \in 0 .. Len(via)
         /\ st[e].end \in 0 .. total[e] /\ st[e].base \in 0 .. st[e].end
         /\ st[e].end - st[e].base <= JournalBytes
         /\ st[e].transmitted \in 0 .. st[e].end
         /\ st[e].attemptEnd \in {0, st[e].end}
         /\ st[e].discard \in 0 .. st[e].receive
         /\ st[e].notified \in 0 .. st[e].receive
         /\ Len(delivered[e]) = st[e].receive

\* The bytes an application reads are exactly the bytes its peer wrote, in
\* order, none missing and none repeated, however often and wherever carriers
\* were lost (stream.go:36-38, "one stable byte stream over a sequence of
\* physical streams").
ExactlyOnce ==
    \A e \in End : \A i \in 1 .. Len(delivered[e]) : delivered[e][i] = i - 1

\* A replay journal never retires a byte the peer has not received, and never
\* one whose own physical write is unconfirmed (journal.go:18-21,
\* NP2-CONSTELLATION-SPEC.md:89-92).
RetireOnlyReceived ==
    \A e \in End : /\ st[e].base <= st[Peer(e)].receive
                  /\ st[e].base <= st[e].transmitted

\* An end-of-file reaches the application only after every byte the peer's
\* journal ever accepted (stream.go:215-216: "A FIN is sent only after every
\* journaled byte has reached that physical stream").
EofAfterJournal ==
    \A e \in End : reader[e].result = "eof" => Len(delivered[e]) = st[Peer(e)].end

\* An acknowledgement is staged only for bytes of the physical Write in
\* progress that are still unconfirmed, and none outlives that Write
\* (stream.go:459-467; NP2-CONSTELLATION-SPEC.md:90-91, "only within the bounded
\* active write range").
StagedWithinAttempt ==
    \A e \in End : st[e].pendingAck # 0 =>
        /\ writer[e].pc = "writing"
        /\ st[e].pendingAck \in st[e].transmitted + 1 .. st[e].attemptEnd

\* Both journals are well formed, acknowledgements retire and stage only what
\* the peer has received, and an end-of-file comes after all that the peer's
\* journal accepted (Journal.Ack, ResumableStream.Ack and CloseWrite).
JournalsAreSound == TypeOK /\ RetireOnlyReceived /\ StagedWithinAttempt /\ EofAfterJournal

\* "Offsets never regress" (NP2-CONSTELLATION-SPEC.md:88): acknowledged,
\* produced, transmitted and received offsets, and the accepted epochs at both
\* ends, only grow, across writes, detaches, replays and refused resumes.
OffsetsNeverRegress ==
    [][/\ \A e \in End : /\ st'[e].base >= st[e].base
                         /\ st'[e].end >= st[e].end
                         /\ st'[e].transmitted >= st[e].transmitted
                         /\ st'[e].receive >= st[e].receive
       /\ epoch' >= epoch
       /\ registry'.epoch >= registry.epoch]_vars

-----------------------------------------------------------------------------
\* What the documents say of the program where the code does otherwise.

\* "Budget exhaustion ... must not ... silently drop bytes"
\* (NP2-CONSTELLATION-SPEC.md:100-101): an application that reads a clean
\* end-of-file has read everything its peer's application sent.
EofMeansComplete ==
    \A e \in End : reader[e].result = "eof" => Len(delivered[e]) = total[Peer(e)]
=============================================================================
