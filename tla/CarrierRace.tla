----------------------------- MODULE CarrierRace -----------------------------
(***************************************************************************)
(* How the client obtains one authenticated session                        *)
(* (internal/app/client_race.go, client.go and the three Dial functions).  *)
(*                                                                         *)
(* A call of raceClientCarriers starts one goroutine per carrier: the      *)
(* first dials at once, the others after a delay.  An attempt dials its    *)
(* carrier, authenticates on it and sends an outcome; the caller keeps the *)
(* first success, cancels the rest and closes every later success.  Calls  *)
(* share a cache that names the carrier to try first; it expires, an       *)
(* attempt that fails withdraws it, and a change of network clears it.     *)
(*                                                                         *)
(* A dial is cut into the steps that leave different things to close.  The *)
(* delays are not ordered: a delayed attempt may start at any moment.      *)
(***************************************************************************)
EXTENDS Integers, Sequences, Functions

CONSTANTS Races,           \* calls of raceClientCarriers
          CarrierCacheTTL, \* CarrierCacheTTL, in ticks
          MaxRaceClock,    \* bound on the clock
          MaxResets        \* bound on changes of network

VARIABLES http3Configured,
          preference, \* the entry of the server in carrierPreferenceCache
          race,       \* per call: phase, order, outcomes, collected, winner, cancelled
          attempt,    \* per call and carrier: the stage of its goroutine
          carrier,    \* per call and carrier: none, partial, open, session or closed
          raceClock,
          resets

raceVars == <<http3Configured, preference, race, attempt, carrier, raceClock, resets>>

Carriers == {"http3", "webrtc", "https"}
NoPreference == [kind |-> "none", recorded |-> 0]
NoRace == [phase |-> "idle", order |-> <<>>, outcomes |-> <<>>, collected |-> 0,
           winner |-> "none", cancelled |-> FALSE]

\* The steps of a dial: what exists when each of them starts.
DialSteps == [http3  |-> <<"session", "stream">>,
              webrtc |-> <<"peer", "open">>,
              https  |-> <<"websocket">>]
LastStep(k) == DialSteps[k][Len(DialSteps[k])]

RaceInit ==
  /\ http3Configured \in BOOLEAN
  /\ preference = NoPreference
  /\ race = [r \in Races |-> NoRace]
  /\ attempt = [r \in Races |-> [k \in Carriers |-> "idle"]]
  /\ carrier = [r \in Races |-> [k \in Carriers |-> "none"]]
  /\ raceClock = 0
  /\ resets = 0

----------------------------------------------------------------------------
(* The cache of preferences.                                               *)

\* load: an expired entry is deleted.
load == IF preference # NoPreference /\ raceClock - preference.recorded < CarrierCacheTTL
        THEN preference ELSE NoPreference

record(kind) == preference' = [kind |-> kind, recorded |-> raceClock]

invalidate(kind) ==
  preference' = IF preference.kind = kind THEN NoPreference ELSE preference

\* ResetClientCarrierPreferences, on a change of network.
ResetClientCarrierPreferences ==
  /\ resets < MaxResets
  /\ resets' = resets + 1
  /\ preference' = NoPreference
  /\ UNCHANGED <<http3Configured, race, attempt, carrier, raceClock>>

RaceTick ==
  /\ raceClock < MaxRaceClock
  /\ preference # NoPreference
  /\ raceClock' = raceClock + 1
  /\ UNCHANGED <<http3Configured, preference, race, attempt, carrier, resets>>

----------------------------------------------------------------------------
(* The race.                                                               *)

AppendUnique(order, kind) == IF kind \in Range(order) THEN order ELSE Append(order, kind)

\* HTTPS is a compatibility carrier: its success does not put it first while
\* HTTP/3 is configured.
clientCarrierOrder(cached) ==
  LET first == IF cached # "none" /\ ~(http3Configured /\ cached = "https")
               THEN <<cached>> ELSE <<>>
      fast == IF http3Configured THEN AppendUnique(first, "http3") ELSE first
  IN AppendUnique(AppendUnique(fast, "webrtc"), "https")

raceClientCarriers(r) ==
  /\ race[r].phase = "idle"
  /\ LET order == clientCarrierOrder(load.kind) IN
     /\ race' = [race EXCEPT ![r].phase = "racing", ![r].order = order]
     /\ attempt' = [attempt EXCEPT ![r] =
          [k \in Carriers |-> IF k = order[1] THEN DialSteps[k][1]
                              ELSE IF k \in Range(order) THEN "delayed" ELSE "idle"]]
  /\ preference' = load
  /\ UNCHANGED <<http3Configured, carrier, raceClock, resets>>

DelayEnds(r, k) ==
  /\ attempt[r][k] = "delayed"
  /\ attempt' = [attempt EXCEPT ![r][k] = DialSteps[k][1]]
  /\ UNCHANGED <<http3Configured, preference, race, carrier, raceClock, resets>>

\* A goroutine sends its outcome and ends.
Sends(r, k, ok) ==
  /\ attempt' = [attempt EXCEPT ![r][k] = "sent"]
  /\ race' = [race EXCEPT ![r].outcomes = Append(@, [kind |-> k, ok |-> ok])]

DelayCancelled(r, k) ==
  /\ attempt[r][k] = "delayed"
  /\ race[r].cancelled
  /\ Sends(r, k, FALSE)
  /\ UNCHANGED <<http3Configured, preference, carrier, raceClock, resets>>

Dialing(r, k) == attempt[r][k] \in Range(DialSteps[k])

\* A step of the dial succeeds: the next one starts with something to close,
\* or the carrier is there and authentication starts.
DialAdvances(r, k) ==
  /\ Dialing(r, k)
  /\ LET last == attempt[r][k] = LastStep(k) IN
     /\ attempt' = [attempt EXCEPT ![r][k] = IF last THEN "authenticating" ELSE LastStep(k)]
     /\ carrier' = [carrier EXCEPT ![r][k] = IF last THEN "open" ELSE "partial"]
  /\ UNCHANGED <<http3Configured, preference, race, raceClock, resets>>

Dropped(c) == IF c = "none" THEN c ELSE "closed"

\* Any step fails, times out or is cancelled: what exists is closed.
DialFails(r, k) ==
  /\ Dialing(r, k)
  /\ carrier' = [carrier EXCEPT ![r][k] = Dropped(@)]
  /\ invalidate(k)
  /\ Sends(r, k, FALSE)
  /\ UNCHANGED <<http3Configured, raceClock, resets>>

\* session.ConnectClient closes the carrier that it cannot authenticate on.
AuthenticateClientCarrier(r, k, ok) ==
  /\ attempt[r][k] = "authenticating"
  /\ carrier' = [carrier EXCEPT ![r][k] = IF ok THEN "session" ELSE "closed"]
  /\ IF ok THEN UNCHANGED preference ELSE invalidate(k)
  /\ Sends(r, k, ok)
  /\ UNCHANGED <<http3Configured, raceClock, resets>>

\* Mutant of closeAuthenticatedOutcome: only failed outcomes are closed.
closeFailedOutcome(c, ok) == IF ok THEN c ELSE Dropped(c)

closeAuthenticatedOutcome(c, ok) == Dropped(c)

\* The caller takes an outcome: the first success wins and cancels the race.
Collect(r) ==
  /\ race[r].phase = "racing"
  /\ race[r].outcomes # <<>>
  /\ LET o == Head(race[r].outcomes)
         wins == o.ok /\ race[r].winner = "none" IN
     /\ race' = [race EXCEPT ![r].outcomes = Tail(@), ![r].collected = @ + 1,
                             ![r].winner = IF wins THEN o.kind ELSE @,
                             ![r].cancelled = @ \/ wins]
     /\ carrier' = IF wins THEN carrier
                   ELSE [carrier EXCEPT ![r][o.kind] = closeAuthenticatedOutcome(@, o.ok)]
  /\ UNCHANGED <<http3Configured, preference, attempt, raceClock, resets>>

\* Every goroutine has reported: the winner is recorded and returned.
RaceReturns(r) ==
  /\ race[r].phase = "racing"
  /\ race[r].collected = Len(race[r].order)
  /\ race' = [race EXCEPT ![r].phase = IF race[r].winner = "none" THEN "failed" ELSE "returned"]
  /\ IF race[r].winner = "none" THEN UNCHANGED preference ELSE record(race[r].winner)
  /\ UNCHANGED <<http3Configured, attempt, carrier, raceClock, resets>>

\* The caller's own context ends.
CallerCancels(r) ==
  /\ race[r].phase = "racing"
  /\ ~race[r].cancelled
  /\ race' = [race EXCEPT ![r].cancelled = TRUE]
  /\ UNCHANGED <<http3Configured, preference, attempt, carrier, raceClock, resets>>

RaceNext ==
  \/ \E r \in Races :
       \/ raceClientCarriers(r) \/ Collect(r) \/ RaceReturns(r) \/ CallerCancels(r)
       \/ \E k \in Carriers :
            \/ DelayEnds(r, k) \/ DelayCancelled(r, k) \/ DialAdvances(r, k) \/ DialFails(r, k)
            \/ \E ok \in BOOLEAN : AuthenticateClientCarrier(r, k, ok)
  \/ ResetClientCarrierPreferences
  \/ RaceTick

RaceSpec == RaceInit /\ [][RaceNext]_raceVars

----------------------------------------------------------------------------
(* Properties.                                                             *)

Alive(r) == {k \in Carriers : carrier[r][k] \in {"partial", "open", "session"}}

\* A call returns with exactly the winner's session open, or fails with
\* nothing open, however late the losers succeed; until then everything open
\* is in the hands of a goroutine, of the channel or of the caller
\* (raceAuthenticatedCandidates, closeAuthenticatedOutcome).
OneSessionSurvives ==
  \A r \in Races :
    /\ race[r].phase = "returned" => Alive(r) = {race[r].winner}
    /\ race[r].phase = "failed" => Alive(r) = {}
    /\ race[r].phase = "racing" =>
         \A k \in Alive(r) : \/ Dialing(r, k) \/ attempt[r][k] = "authenticating"
                             \/ \E o \in Range(race[r].outcomes) : o.kind = k /\ o.ok
                             \/ race[r].winner = k

\* Whatever the cache says, a race with HTTP/3 configured starts on a carrier
\* with datagrams, and HTTPS and WebRTC are always among its candidates
\* (clientCarrierOrder: HTTPS "must not pin future media sessions").
HTTPSNeverPins ==
  \A r \in Races : race[r].phase # "idle" =>
    /\ http3Configured => Head(race[r].order) # "https"
    /\ {"webrtc", "https"} \subseteq Range(race[r].order)
    /\ http3Configured <=> "http3" \in Range(race[r].order)

RaceIsSound == OneSessionSurvives /\ HTTPSNeverPins
=============================================================================
