------------------------------- MODULE TunFlow -------------------------------
(***************************************************************************)
(* The TCP flows of the tunnel (internal/tunstack/dialer.go and            *)
(* deferred_conn.go), over the attribution table of DnsAttribution.        *)
(*                                                                         *)
(* DialContext opens the stream of an attributed address at once, by name. *)
(* Another web flow is deferred: its first bytes are kept until they show  *)
(* a domain, show that there is none, fill the buffer, or a timer or a     *)
(* call that needs the stream comes first.  Opening holds the connection's *)
(* mutex, across the round trip; Close cancels the opening before it asks  *)
(* for the mutex.  A write is its number and its size.                     *)
(***************************************************************************)
EXTENDS DnsAttribution

CONSTANTS TunFlows,           \* TCP flows
          Targets,            \* the addresses they are for
          FirstFlightMaximum, \* firstFlightMaximumBytes
          WriteSizes,         \* sizes of the application's writes
          MaxWrites           \* bound on them

VARIABLE tun

tunVars == <<tun, dnsVars>>

NoFlow == [phase |-> "idle", address |-> "none", host |-> "none", timer |-> "none",
           lock |-> "none", domain |-> "none", pendingBytes |-> <<>>, stream |-> "none",
           copied |-> "no", err |-> FALSE, closed |-> FALSE, cancelled |-> FALSE, ready |-> FALSE,
           writer |-> "idle", written |-> 0, acked |-> 0, sent |-> <<>>, decisions |-> 0,
           target |-> "none", named |-> "none"]

TunInit == tun = [f \in TunFlows |-> NoFlow] /\ DnsInit

Size(bytes) == FoldLeft(LAMBDA n, b : n + b.size, 0, bytes)

\* DialContext.  named is history: where the domain of the flow came from.
DialContext(f, address) ==
  /\ tun[f].phase = "idle"
  /\ LET domain == domainFor(address) IN
     tun' = [tun EXCEPT ![f] =
       IF domain # "none"
       THEN [@ EXCEPT !.phase = "direct", !.address = address, !.host = domain, !.lock = "dial",
                      !.named = "dns"]
       ELSE [@ EXCEPT !.phase = "deferred", !.address = address, !.host = address,
                      !.timer = "armed"]]
  /\ addresses' = Looked(address)
  /\ UNCHANGED <<queries, count, writes, told, clock>>

\* The opener of an attributed flow returns.
DialReturns(f, ok) ==
  /\ tun[f].lock = "dial"
  /\ LET k == tun[f] IN
     tun' = [tun EXCEPT ![f] =
       IF ok THEN [k EXCEPT !.lock = "none", !.stream = "open", !.target = k.host, !.ready = TRUE,
                            !.copied = "yes"]
       ELSE [k EXCEPT !.lock = "none", !.phase = "failed"]]
  /\ UNCHANGED dnsVars

Deferred(f) == tun[f].phase = "deferred"
Free(f) == tun[f].lock = "none"

----------------------------------------------------------------------------
(* openLocked.                                                             *)

\* A timer that has fired cannot be stopped: its function still runs.
StopTimer(timer) == IF timer = "armed" THEN "stopped" ELSE timer

\* Mutant of Opening: the bytes are kept only until the opener is called.
OpeningUnkept(k, by, name) ==
  [k EXCEPT !.timer = StopTimer(@), !.lock = by, !.domain = name, !.decisions = @ + 1,
            !.pendingBytes = <<>>]

\* The stream must be opened: the timer is stopped, the decision observed, and
\* the opener called with the mutex held.
Opening(k, by, name) ==
  [k EXCEPT !.timer = StopTimer(@), !.lock = by, !.domain = name, !.decisions = @ + 1]

\* Its early returns: closed, opened already, or failed already.
openLocked(k, by, name) ==
  IF k.closed \/ k.err THEN [k EXCEPT !.ready = TRUE]
  ELSE IF k.stream # "none" THEN k
  ELSE Opening(k, by, name)

\* The opener returns; an opening that Close has cancelled may still succeed.
OpenerReturns(f, ok) ==
  /\ Deferred(f)
  /\ ~Free(f)
  /\ tun[f].stream = "none"
  /\ LET k == tun[f] IN
     tun' = [tun EXCEPT ![f] =
       IF ok THEN [k EXCEPT !.stream = "open",
                            !.target = IF k.domain = "none" THEN k.host ELSE k.domain,
                            !.named = IF k.domain = "none" THEN @ ELSE "sniffed"]
       ELSE [k EXCEPT !.err = TRUE, !.ready = TRUE, !.lock = "none",
                      !.writer = IF k.lock \in {"write", "overflow"} THEN "failed" ELSE @]]
  /\ UNCHANGED dnsVars

\* The kept bytes are copied to the stream before anything else is; a copy
\* that fails may have sent some of them, and closes the stream.
CopyPending(f) ==
  /\ Deferred(f)
  /\ ~Free(f)
  /\ tun[f].stream = "open"
  /\ tun[f].copied = "no"
  /\ LET k == tun[f] IN
     \/ tun' = [tun EXCEPT ![f] =
          [k EXCEPT !.copied = "yes", !.sent = @ \o k.pendingBytes, !.pendingBytes = <<>>,
                    !.ready = TRUE, !.lock = "none",
                    !.acked = IF k.lock = "write" THEN k.written ELSE @,
                    !.writer = CASE k.lock = "write" -> "idle"
                                 [] k.lock = "overflow" -> "sending"
                                 [] OTHER -> @]]
     \/ \E n \in 0..(Len(k.pendingBytes) - 1) :
          tun' = [tun EXCEPT ![f] =
            [k EXCEPT !.stream = "closed", !.copied = "failed", !.err = TRUE,
                      !.sent = @ \o SubSeq(k.pendingBytes, 1, n), !.pendingBytes = <<>>,
                      !.ready = TRUE, !.lock = "none",
                      !.writer = IF k.lock \in {"write", "overflow"} THEN "failed" ELSE @]]
  /\ UNCHANGED dnsVars

----------------------------------------------------------------------------
(* The callers.                                                            *)

Chunk(n, size) == [n |-> n, size |-> size]

\* Write on a connection that has its stream, or has failed.
WriteThrough(f, size) ==
  /\ tun[f].writer = "idle"
  /\ tun[f].phase # "idle"
  /\ Free(f)
  /\ tun[f].written < MaxWrites
  /\ tun[f].closed \/ tun[f].err \/ tun[f].stream # "none"
  /\ LET k == tun[f] IN
     tun' = [tun EXCEPT ![f] =
       IF k.closed \/ k.err \/ k.stream = "closed" THEN [k EXCEPT !.writer = "failed"]
       ELSE [k EXCEPT !.written = @ + 1, !.acked = k.written + 1,
                      !.sent = Append(@, Chunk(k.written + 1, size))]]
  /\ UNCHANGED dnsVars

\* Write before there is a stream: the bytes that do not fit open it at once
\* and go after it; the others are kept and inspected.  decision is "more",
\* "numeric" or the domain that they show.
WriteFirstFlight(f, size, decision) ==
  /\ Deferred(f)
  /\ tun[f].writer = "idle"
  /\ Free(f)
  /\ tun[f].written < MaxWrites
  /\ ~tun[f].closed /\ ~tun[f].err /\ tun[f].stream = "none"
  /\ LET k == tun[f]
         n == k.written + 1
         overflow == size > FirstFlightMaximum - Size(k.pendingBytes)
         kept == [k EXCEPT !.pendingBytes = Append(@, Chunk(n, size)), !.written = n]
         name == IF decision \in {"more", "numeric"} THEN "none" ELSE decision
     IN tun' = [tun EXCEPT ![f] =
          IF overflow THEN [openLocked(k, "overflow", "none") EXCEPT !.writer = "opening", !.written = n]
          ELSE IF decision = "more" /\ Size(kept.pendingBytes) < FirstFlightMaximum
          THEN [kept EXCEPT !.acked = n]
          ELSE [openLocked(kept, "write", name) EXCEPT !.writer = "opening"]]
  /\ UNCHANGED dnsVars

\* The bytes that did not fit are written without the mutex.
WriteOverflow(f) ==
  /\ tun[f].writer = "sending"
  /\ LET k == tun[f] IN
     tun' = [tun EXCEPT ![f] =
       IF k.stream = "closed" THEN [k EXCEPT !.writer = "failed"]
       ELSE [k EXCEPT !.writer = "idle", !.acked = k.written,
                      !.sent = Append(@, Chunk(k.written, FirstFlightMaximum + 1))]]
  /\ UNCHANGED dnsVars

\* The timer of the first flight fires; its function then waits for the mutex.
TimerFires(f) ==
  /\ tun[f].timer = "armed"
  /\ tun' = [tun EXCEPT ![f].timer = "fired"]
  /\ UNCHANGED dnsVars

openNumericAfterTimeout(f) ==
  /\ Deferred(f)
  /\ tun[f].timer = "fired"
  /\ Free(f)
  /\ tun' = [tun EXCEPT ![f] = [openLocked(@, "timer", "none") EXCEPT !.timer = "stopped"]]
  /\ UNCHANGED dnsVars

\* CloseWrite, SetDeadline and SetReadDeadline need the stream.
requireStream(f) ==
  /\ Deferred(f)
  /\ Free(f)
  /\ tun[f].stream = "none" \/ tun[f].closed
  /\ tun' = [tun EXCEPT ![f] = openLocked(@, "require", "none")]
  /\ UNCHANGED dnsVars

\* Close cancels the opening, then takes the mutex.
CloseCancels(f) ==
  /\ tun[f].phase \in {"deferred", "direct"}
  /\ tun[f].lock # "dial"
  /\ ~tun[f].cancelled
  /\ tun' = [tun EXCEPT ![f].cancelled = TRUE]
  /\ UNCHANGED dnsVars

CloseFlow(f) ==
  /\ tun[f].cancelled
  /\ Free(f)
  /\ ~tun[f].closed
  /\ tun' = [tun EXCEPT ![f].closed = TRUE, ![f].ready = TRUE, ![f].pendingBytes = <<>>,
                        ![f].timer = StopTimer(@),
                        ![f].stream = IF @ = "open" THEN "closed" ELSE @]
  /\ UNCHANGED dnsVars

TunNext ==
  \/ \E f \in TunFlows :
       \/ \E address \in Targets : DialContext(f, address)
       \/ \E ok \in BOOLEAN : DialReturns(f, ok) \/ OpenerReturns(f, ok)
       \/ CopyPending(f) \/ WriteOverflow(f) \/ TimerFires(f) \/ openNumericAfterTimeout(f)
       \/ requireStream(f) \/ CloseCancels(f) \/ CloseFlow(f)
       \/ \E size \in WriteSizes :
            \/ WriteThrough(f, size)
            \/ \E decision \in {"more", "numeric"} \cup Domains : WriteFirstFlight(f, size, decision)
  \/ DnsNext /\ UNCHANGED tun

----------------------------------------------------------------------------
(* Properties.                                                             *)

Numbers(bytes) == [i \in DOMAIN bytes |-> bytes[i].n]
UpTo(n) == [i \in 1..n |-> i]

\* The stream gets the application's bytes from the first, in order and once,
\* however the timer, a deadline or the first flight opened it; and while the
\* connection is whole, every byte that Write has accepted is on the stream
\* or kept for it (Write, openLocked).
FirstFlightIsKept ==
  \A f \in TunFlows : LET k == tun[f] IN
    /\ Numbers(k.sent) = UpTo(Len(k.sent))
    /\ (~k.closed /\ ~k.err /\ k.phase # "failed") =>
         /\ Numbers(k.sent \o k.pendingBytes) = UpTo(Len(k.sent) + Len(k.pendingBytes))
         /\ Len(k.sent) + Len(k.pendingBytes) >= k.acked
    /\ Size(k.pendingBytes) <= FirstFlightMaximum

\* A flow never opens a second time, and its decision is counted once at most;
\* a closed one keeps no stream, even one whose opening crossed the Close
\* (openLocked, decisionOnce, Close).
OpenedOnce ==
  \A f \in TunFlows :
    /\ tun[f].decisions <= 1
    /\ tun[f].closed => tun[f].stream # "open"

\* A Read that waits for the stream is woken by whatever settles it, and finds
\* the stream usable or an error (signalReadyLocked).
ReadersAreWoken ==
  \A f \in TunFlows : (Deferred(f) /\ Free(f)) =>
    (tun[f].ready <=> tun[f].closed \/ tun[f].err \/ tun[f].stream # "none")

\* The destination of a stream is its address, the name that its own first
\* bytes show, or a name that DNS gave that address (DialContext, openLocked).
TargetIsKnown ==
  \A f \in TunFlows : LET k == tun[f] IN k.target # "none" =>
    CASE k.named = "none" -> k.target = k.address
      [] k.named = "dns" -> <<k.target, k.address>> \in told.facts
      [] OTHER -> k.target \in Domains /\ k.target = k.domain

TunnelIsFaithful ==
  /\ TablesAreBounded /\ AttributionIsAnswered
  /\ FirstFlightIsKept /\ OpenedOnce /\ ReadersAreWoken /\ TargetIsKnown
=============================================================================
