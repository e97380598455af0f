------------------------------- MODULE Realtime -------------------------------
(* Realtime sessions: websocket sessions relayed by three goroutines (two     *)
(* copy loops and a heartbeat), WebRTC calls the gateway creates and watches  *)
(* through a sideband connection of its own, and sessions that attach to such *)
(* a call by its id.  The call registry remembers which calls the gateway     *)
(* created, so that the usage of their responses is recorded by one           *)
(* connection only.                                                           *)
EXTENDS Naturals, FiniteSets

CONSTANTS Calls,        \* calls that may be created
          Sessions,     \* client websocket requests
          MaxCalls,     \* maxCalls: entries of the registry
          TTL,          \* DefaultCallTTL
          MaxClock,     \* bound: time
          MaxResponses  \* bound: responses of one call

ASSUME RealtimeAssumption ==
    /\ IsFiniteSet(Calls) /\ "none" \notin Calls
    /\ MaxCalls \in Nat \ {0} /\ TTL \in Nat /\ MaxClock \in Nat /\ MaxResponses \in Nat

VARIABLES rtClock,
          entries,      \* the registry: call id -> time of expiry, for the live ones
          born,         \* call -> time it was registered; MaxClock + 1 before
          observer,     \* call -> the sideband goroutine: state, deadline, frames read
          responses,    \* call -> response.done events the provider sent so far
          logged,       \* usage entries written: <<call, response>> -> how many
          session       \* request -> the relayed session

rtVars == <<rtClock, entries, born, observer, responses, logged, session>>

Peers == {"client", "upstream"}
Loops == {"c2u", "u2c"}
Source(loop) == IF loop = "c2u" THEN "client" ELSE "upstream"

\* A connection is open, "left" (its peer closed it and the close frame waits to
\* be read), "dead" (its peer vanished without a word) or "shut" (closed here).
NoSession == [phase |-> "none", call |-> "none", tap |-> FALSE, read |-> 0,
              conn |-> [p \in Peers |-> "open"], loop |-> [l \in Loops |-> "run"],
              beat |-> "run", cause |-> "none"]

NoObserver == [state |-> "none", deadline |-> 0, read |-> 0]
ObserverEnded == [NoObserver EXCEPT !.state = "ended"]

RTInit ==
    /\ rtClock = 0 /\ entries = [c \in {} |-> 0]
    /\ born = [c \in Calls |-> MaxClock + 1]
    /\ observer = [c \in Calls |-> NoObserver]
    /\ responses = [c \in Calls |-> 0]
    /\ logged = [cr \in Calls \X (1 .. MaxResponses) |-> 0]
    /\ session = [s \in Sessions |-> NoSession]

RTTick == /\ rtClock < MaxClock /\ rtClock' = rtClock + 1
          /\ UNCHANGED <<entries, born, observer, responses, logged, session>>

-----------------------------------------------------------------------------
(* The call registry.                                                        *)

Keep(es, cs) == [c \in DOMAIN es \cap cs |-> es[c]]

PruneLocked(es) == Keep(es, {c \in DOMAIN es : rtClock <= es[c]})

\* The entry closest to expiry makes room; among equals the map decides.
EvictSoonestLocked(es) ==
    {Keep(es, DOMAIN es \ {v}) : v \in {c \in DOMAIN es : \A d \in DOMAIN es : es[c] <= es[d]}}

\* The registry after c was registered, one of several when the map decides.
Register(es, c) ==
    LET live == PruneLocked(es)
        room == IF c \notin DOMAIN live /\ Cardinality(DOMAIN live) >= MaxCalls
                THEN EvictSoonestLocked(live) ELSE {live}
    IN {[d \in DOMAIN r \cup {c} |-> IF d = c THEN rtClock + TTL ELSE r[d]] : r \in room}

\* A lookup drops an expired entry.
Found(c) == c \in DOMAIN entries /\ rtClock <= entries[c]
AfterLookup(c) == IF Found(c) THEN entries ELSE Keep(entries, DOMAIN entries \ {c})

-----------------------------------------------------------------------------
(* Calls.                                                                    *)

StartObserver(c) ==
    observer' = [observer EXCEPT ![c].state = "dialing", ![c].deadline = rtClock + TTL]

\* POST /v1/realtime/calls: the answered offer is registered and its observer
\* is started, unless the sideband target is unavailable.
RealtimeCalls(c) ==
    /\ born[c] > MaxClock
    /\ born' = [born EXCEPT ![c] = rtClock]
    /\ entries' \in Register(entries, c)
    /\ StartObserver(c) \/ UNCHANGED observer
    /\ UNCHANGED <<rtClock, responses, logged, session>>

ObserverDial(c) ==
    /\ observer[c].state = "dialing"
    /\ \E ok \in BOOLEAN :
          observer' = [observer EXCEPT ![c] = IF ok THEN [@ EXCEPT !.state = "attached",
                                                                  !.read = responses[c]]
                                              ELSE ObserverEnded]
    /\ UNCHANGED <<rtClock, entries, born, responses, logged, session>>

\* The provider finishes a response of a call that was created.
Respond(c) ==
    /\ born[c] <= MaxClock /\ responses[c] < MaxResponses
    /\ responses' = [responses EXCEPT ![c] = @ + 1]
    /\ UNCHANGED <<rtClock, entries, born, observer, logged, session>>

Log(c, r) == logged' = [logged EXCEPT ![<<c, r>>] = @ + 1]

\* The observer's tap records the usage of every response it reads.
ObserveFrame(c) ==
    /\ observer[c].state = "attached" /\ observer[c].read < responses[c]
    /\ observer' = [observer EXCEPT ![c].read = @ + 1]
    /\ Log(c, observer[c].read + 1)
    /\ UNCHANGED <<rtClock, entries, born, responses, session>>

\* The provider closes the sideband connection, it dies under the heartbeat, or
\* the deadline of the observer's context passes.
ObserverEnds(c) ==
    /\ observer[c].state = "attached" \/ rtClock >= observer[c].deadline
    /\ observer[c].state \in {"dialing", "attached"}
    /\ observer' = [observer EXCEPT ![c] = ObserverEnded]
    /\ UNCHANGED <<rtClock, entries, born, responses, logged, session>>

-----------------------------------------------------------------------------
(* Sessions.                                                                 *)

\* GET /v1/realtime: a plain session names its model; a sideband session names
\* a call, and its route and the decision to tap come from the registry.  A call
\* the registry does not know needs an explicit model.  The session may also be
\* refused on the way: resolution, access, budget, no target, dial failure.
Open(s, c, tap) ==
    \/ session' = [session EXCEPT ![s] = [@ EXCEPT !.phase = "relaying", !.call = c, !.tap = tap,
                                                   !.read = IF c = "none" THEN 0 ELSE responses[c]]]
    \/ session' = [session EXCEPT ![s].phase = "refused"]

\* Mutant of Taps: an attached session always records usage.
TapsAlways(c) == TRUE

\* A registered call has its observer; the session attached to it records nothing.
Taps(c) == ~Found(c)

Handle(s) ==
    /\ session[s].phase = "none"
    /\ \/ Open(s, "none", TRUE) /\ UNCHANGED entries
       \/ \E c \in {d \in Calls : born[d] <= MaxClock}, model \in BOOLEAN :
             /\ entries' = AfterLookup(c)
             /\ IF Found(c) \/ model THEN Open(s, c, Taps(c))
                ELSE session' = [session EXCEPT ![s].phase = "refused"]
    /\ UNCHANGED <<rtClock, born, observer, responses, logged>>

Relaying(s) == session[s].phase \in {"relaying", "closing"}
Cancelled(s) == session[s].phase = "closing"

\* copyFrames: a frame is tapped before it is forwarded; reading ends with the
\* peer's close frame, a connection shut here or the cancelled context.  A read
\* from a dead peer just blocks.
CopyFrame(s) ==
    /\ Relaying(s) /\ session[s].loop["u2c"] = "run" /\ session[s].conn["upstream"] = "open"
    /\ session[s].call # "none" /\ session[s].read < responses[session[s].call]
    /\ session' = [session EXCEPT ![s].read = @ + 1]
    /\ IF session[s].tap THEN Log(session[s].call, session[s].read + 1) ELSE UNCHANGED logged
    /\ UNCHANGED <<rtClock, entries, born, observer, responses>>

EndLoop(s, l, why) ==
    session' = [session EXCEPT ![s].loop[l] = "done",
                               ![s].cause = IF @ = "none" THEN why ELSE @]

CopyEnds(s, l) ==
    /\ Relaying(s) /\ session[s].loop[l] = "run"
    /\ \/ session[s].conn[Source(l)] = "left" /\ EndLoop(s, l, "close")
       \/ (Cancelled(s) \/ session[s].conn[Source(l)] = "shut") /\ EndLoop(s, l, "torn down")
    /\ UNCHANGED <<rtClock, entries, born, observer, responses, logged>>

\* Mutant of Heartbeat: every failed ping is left to the reads.
HeartbeatForgives(s) ==
    /\ Relaying(s) /\ session[s].beat = "run"
    /\ ~Cancelled(s) /\ \E p \in Peers : session[s].conn[p] \in {"left", "dead"}
    /\ session' = [session EXCEPT ![s].beat = "wait"]
    /\ UNCHANGED <<rtClock, entries, born, observer, responses, logged>>

\* heartbeat: a dead peer fails its ping; a connection already closed leaves the
\* cause to the reads, and the loop waits for the cancellation.
Heartbeat(s) ==
    /\ Relaying(s) /\ session[s].beat = "run"
    /\ \/ /\ ~Cancelled(s) /\ \E p \in Peers : session[s].conn[p] = "dead"
          /\ session' = [session EXCEPT ![s].beat = "done",
                                        ![s].cause = IF @ = "none" THEN "heartbeat" ELSE @]
       \/ /\ ~Cancelled(s) /\ \E p \in Peers : session[s].conn[p] = "left"
          /\ session' = [session EXCEPT ![s].beat = "wait"]
    /\ UNCHANGED <<rtClock, entries, born, observer, responses, logged>>

HeartbeatCancelled(s) ==
    /\ Cancelled(s) /\ session[s].beat \in {"run", "wait"}
    /\ session' = [session EXCEPT ![s].beat = "done"]
    /\ UNCHANGED <<rtClock, entries, born, observer, responses, logged>>

\* relay: the first goroutine to end decides; then the context is cancelled and
\* both connections are closed with its close code.
FirstDone(s) ==
    /\ session[s].phase = "relaying" /\ session[s].cause # "none"
    /\ session' = [session EXCEPT ![s].phase = "closing", ![s].conn = [p \in Peers |-> "shut"]]
    /\ UNCHANGED <<rtClock, entries, born, observer, responses, logged>>

RelayReturns(s) ==
    /\ Cancelled(s) /\ session[s].beat = "done"
    /\ \A l \in Loops : session[s].loop[l] = "done"
    /\ session' = [session EXCEPT ![s] = [NoSession EXCEPT !.phase = "returned"]]
    /\ UNCHANGED <<rtClock, entries, born, observer, responses, logged>>

\* A peer hangs up, or vanishes.
PeerGoes(s) ==
    /\ session[s].phase = "relaying"
    /\ \E p \in Peers, how \in {"left", "dead"} :
          session[s].conn[p] = "open" /\ session' = [session EXCEPT ![s].conn[p] = how]
    /\ UNCHANGED <<rtClock, entries, born, observer, responses, logged>>

SessionStep(s) ==
    \/ \E l \in Loops : CopyEnds(s, l)
    \/ Heartbeat(s) \/ HeartbeatCancelled(s) \/ FirstDone(s) \/ RelayReturns(s)

RTNext ==
    \/ RTTick
    \/ \E c \in Calls : RealtimeCalls(c) \/ ObserverDial(c) \/ Respond(c) \/ ObserveFrame(c)
                        \/ ObserverEnds(c)
    \/ \E s \in Sessions : Handle(s) \/ CopyFrame(s) \/ PeerGoes(s) \/ SessionStep(s)

\* The scheduler runs every goroutine of a session, and the ticker ticks.
RTFair == \A s \in Sessions : WF_rtVars(SessionStep(s))

RTSpec == RTInit /\ [][RTNext]_rtVars /\ RTFair

-----------------------------------------------------------------------------
RTTypeOK ==
    /\ Cardinality(DOMAIN entries) <= MaxCalls
    /\ \A s \in Sessions : session[s].phase \in
          {"none", "refused", "relaying", "closing", "returned"}

\* The registry may have forgotten c: its entry expired, or as many calls as it
\* holds were registered no earlier.
Forgettable(c) ==
    \/ rtClock > born[c] + TTL
    \/ Cardinality({d \in Calls \ {c} : born[d] \in born[c] .. MaxClock}) >= MaxCalls

\* A response of a call the gateway created is recorded once, whoever attaches
\* to the call and whatever the client says about its model, as long as the
\* registry can hold the call (handle drops the tap of a registered call; after
\* an eviction the observer and the attached session both record it).
UsageCountedOnce ==
    \A c \in Calls, r \in 1 .. MaxResponses : logged[<<c, r>>] > 1 => Forgettable(c)

\* A session whose peer hung up or silently vanished is torn down: both copy
\* loops and the heartbeat end and relay returns (a read from a dead peer blocks
\* for ever, so this is the heartbeat's doing).
SessionsEnd ==
    \A s \in Sessions :
        (\E p \in Peers : session[s].conn[p] \in {"left", "dead"}) ~> session[s].phase = "returned"
=============================================================================
