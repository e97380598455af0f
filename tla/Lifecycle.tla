----------------------------- MODULE Lifecycle -----------------------------
(***************************************************************************)
(* The life of the process (run/run.go, internal/app/app.go): New opens    *)
(* the components in order and unwinds what it opened when one fails; Run  *)
(* starts the server and, on a signal, a goroutine of its own shuts the    *)
(* application down; when Start fails, Run shuts it down itself.  Requests *)
(* in flight record usage, which the usage logger keeps in memory until it *)
(* flushes.                                                                *)
(***************************************************************************)
EXTENDS Integers, Sequences

CONSTANTS
  MaxRequests,   \* bound on the requests in flight
  MaxEntries     \* bound on the usage entries recorded

VARIABLES
  main,          \* where Run is
  opened,        \* components New opened so far
  comps,         \* component -> "absent", "open" or "closed"
  http,          \* the listener: "down", "up", "draining" or "stopped"
  registered,    \* a.serverDone # nil: "no", "yes", or "sent" once the result is in
  shutdown,      \* a.shutdown
  shutter,       \* the two possible callers of Shutdown
  inflight,      \* requests being handled
  recorded,      \* usage entries handed to the logger so far
  pending,       \* usage entries not yet flushed
  late           \* the server was started after Shutdown had looked for one

lifeVars == <<main, opened, comps, http, registered, shutdown, shutter, inflight,
              recorded, pending, late>>

\* New, in order.  The API keys live in the usage storage and have no Close.
OpenOrder == <<"providers", "audit", "usage", "batch", "files", "responses",
               "conversations", "virtual", "cache">>
Components == {OpenOrder[i] : i \in DOMAIN OpenOrder}

\* Stores opened with NewWithSharedStorage on the database of usage.
SharedStorage == {"batch", "files", "responses", "conversations"}

\* Mutant of CloseOrder: the storage's owner goes before the file mapping.
CloseOrderUsageEarly == <<"cache", "responses", "conversations", "providers", "virtual",
                          "usage", "files", "batch", "audit">>

\* Shutdown: what Server.Shutdown releases comes first.
CloseOrder == <<"cache", "responses", "conversations", "providers", "virtual",
                "files", "batch", "usage", "audit">>

Callers == {"signal", "startFailure"}
Running == main # "exited"
----------------------------------------------------------------------------
LifeInit ==
  /\ main = "new" /\ opened = 0
  /\ comps = [c \in Components |-> "absent"]
  /\ http = "down" /\ registered = "no"
  /\ shutdown = FALSE
  /\ shutter = [c \in Callers |-> [at |-> "idle", server |-> FALSE, closed |-> 0, expired |-> FALSE]]
  /\ inflight = 0 /\ recorded = 0 /\ pending = 0 /\ late = FALSE

\* New opens the next component; after the last one Run listens for signals.
Open ==
  /\ main = "new"
  /\ opened' = opened + 1
  /\ comps' = [comps EXCEPT ![OpenOrder[opened + 1]] = "open"]
  /\ main' = IF opened' = Len(OpenOrder) THEN "starting" ELSE "new"
  /\ UNCHANGED <<http, registered, shutdown, shutter, inflight, recorded, pending, late>>

OpenFails ==
  /\ main = "new"
  /\ main' = "unwinding"
  /\ UNCHANGED <<opened, comps, http, registered, shutdown, shutter, inflight, recorded, pending, late>>

\* fail: the closers in reverse order, every one of them.
Unwind ==
  /\ main = "unwinding"
  /\ IF opened = 0 THEN main' = "exited" /\ UNCHANGED <<opened, comps>>
     ELSE /\ comps' = [comps EXCEPT ![OpenOrder[opened]] = "closed"]
          /\ opened' = opened - 1
          /\ UNCHANGED main
  /\ UNCHANGED <<http, registered, shutdown, shutter, inflight, recorded, pending, late>>

\* startServer, up to the listener: the address may be taken.
Start ==
  /\ main = "starting"
  /\ main' = "serving"
  /\ registered' = "yes"
  /\ late' = \E c \in Callers : shutter[c].at \in {"wait", "close", "done"}
  /\ http' \in {"up", "stopped"}
  /\ UNCHANGED <<opened, comps, shutdown, shutter, inflight, recorded, pending>>

\* The server's Start returns: it never listened, the requests are drained, or
\* the grace period for them is over.
ServerReturns ==
  /\ main = "serving"
  /\ http \in {"draining", "stopped"}
  /\ main' = IF http = "stopped" THEN "failed" ELSE "returned"
  /\ http' = "stopped"
  /\ registered' = "sent"
  /\ UNCHANGED <<opened, comps, shutdown, shutter, inflight, recorded, pending, late>>

\* Run returns as soon as Start has; after a failed start it shuts down first
\* and waits for that, at most until its timeout.
RunReturns ==
  /\ \/ main = "returned"
     \/ main = "shutting" /\ (shutter["startFailure"].at = "done" \/ shutter["startFailure"].expired)
  /\ main' = "exited"
  /\ UNCHANGED <<opened, comps, http, registered, shutdown, shutter, inflight, recorded, pending, late>>

StartFailed ==
  /\ main = "failed"
  /\ main' = "shutting"
  /\ shutter' = [shutter EXCEPT !["startFailure"].at = "claim"]
  /\ UNCHANGED <<opened, comps, http, registered, shutdown, inflight, recorded, pending, late>>

\* SIGINT, SIGTERM or the end of Run's context.
Signal ==
  /\ main \in {"starting", "serving", "failed", "shutting"}
  /\ shutter["signal"].at = "idle"
  /\ shutter' = [shutter EXCEPT !["signal"].at = "claim"]
  /\ UNCHANGED <<main, opened, comps, http, registered, shutdown, inflight, recorded, pending, late>>
----------------------------------------------------------------------------
(* Shutdown. *)

\* The first caller goes on, any other returns at once.
Claim(c) ==
  /\ Running /\ shutter[c].at = "claim"
  /\ shutdown' = TRUE
  /\ shutter' = [shutter EXCEPT ![c].at = IF shutdown THEN "done" ELSE "stop"]
  /\ UNCHANGED <<main, opened, comps, http, registered, inflight, recorded, pending, late>>

\* Mutant of StopServer: the server is waited for, and not told to stop.
StopServerNever(c) ==
  /\ Running /\ shutter[c].at = "stop"
  /\ shutter' = [shutter EXCEPT ![c].at = IF registered = "yes" THEN "wait" ELSE "close",
                                ![c].server = registered = "yes"]
  /\ UNCHANGED <<main, opened, comps, http, registered, shutdown, inflight, recorded, pending, late>>

\* serverStop and serverDone are read under serverMu: no server, nothing to wait for.
StopServer(c) ==
  /\ Running /\ shutter[c].at = "stop"
  /\ http' = IF registered = "yes" /\ http = "up" THEN "draining" ELSE http
  /\ shutter' = [shutter EXCEPT ![c].at = IF registered = "yes" THEN "wait" ELSE "close",
                                ![c].server = registered = "yes"]
  /\ UNCHANGED <<main, opened, comps, registered, shutdown, inflight, recorded, pending, late>>

ServerStopped(c) ==
  /\ Running /\ shutter[c].at = "wait"
  /\ registered = "sent"
  /\ shutter' = [shutter EXCEPT ![c].at = "close"]
  /\ UNCHANGED <<main, opened, comps, http, registered, shutdown, inflight, recorded, pending, late>>

\* The shutdown's context ends: the wait for the server is given up.
Expire(c) ==
  /\ Running /\ shutter[c].at \in {"wait", "close"} /\ ~ shutter[c].expired
  /\ shutter' = [shutter EXCEPT ![c].expired = TRUE, ![c].at = "close"]
  /\ UNCHANGED <<main, opened, comps, http, registered, shutdown, inflight, recorded, pending, late>>

\* Every component is closed, an error or not; closing usage flushes it.
CloseNext(c) ==
  /\ Running /\ shutter[c].at = "close"
  /\ LET n == shutter[c].closed + 1 IN
       /\ comps' = [comps EXCEPT ![CloseOrder[n]] = "closed"]
       /\ pending' = IF CloseOrder[n] = "usage" THEN 0 ELSE pending
       /\ shutter' = [shutter EXCEPT ![c].closed = n,
                                     ![c].at = IF n = Len(CloseOrder) THEN "done" ELSE "close"]
  /\ UNCHANGED <<main, opened, http, registered, shutdown, inflight, recorded, late>>
----------------------------------------------------------------------------
(* Requests. *)

Request ==
  /\ Running /\ http = "up" /\ inflight < MaxRequests
  /\ inflight' = inflight + 1
  /\ UNCHANGED <<main, opened, comps, http, registered, shutdown, shutter, recorded, pending, late>>

\* A request ends and records its usage; a closed logger drops the entry.
Respond ==
  /\ Running /\ inflight > 0
  /\ inflight' = inflight - 1
  /\ recorded < MaxEntries
  /\ recorded' = recorded + 1
  /\ pending' = IF comps["usage"] = "open" THEN pending + 1 ELSE pending
  /\ UNCHANGED <<main, opened, comps, http, registered, shutdown, shutter, late>>

\* The flush loop's ticker.
Flush ==
  /\ Running /\ comps["usage"] = "open" /\ pending > 0
  /\ pending' = 0
  /\ UNCHANGED <<main, opened, comps, http, registered, shutdown, shutter, inflight, recorded, late>>

LifeNext ==
  \/ Open \/ OpenFails \/ Unwind
  \/ Start \/ ServerReturns \/ RunReturns \/ StartFailed \/ Signal
  \/ \E c \in Callers : Claim(c) \/ StopServer(c) \/ ServerStopped(c) \/ Expire(c) \/ CloseNext(c)
  \/ Request \/ Respond \/ Flush

LifeFairness ==
  /\ WF_lifeVars(Start) /\ WF_lifeVars(ServerReturns) /\ WF_lifeVars(RunReturns) /\ WF_lifeVars(StartFailed)
  /\ WF_lifeVars(Unwind)
  /\ \A c \in Callers : WF_lifeVars(Claim(c) \/ StopServer(c) \/ ServerStopped(c) \/ CloseNext(c))

LifeSpec == LifeInit /\ [][LifeNext]_lifeVars /\ LifeFairness
----------------------------------------------------------------------------
(* Properties. *)

\* The database is closed by its owner, usage, and never while a store that
\* shares it is open, on the way out of a failed New (app.go:111-129) or of
\* Shutdown (app.go:498-553).
StorageOutlivesItsUsers ==
  comps["usage"] = "closed" => \A c \in SharedStorage : comps[c] # "open"

\* Shutdown closes a component under a running request only when it gave up
\* waiting for the server, when the grace period for requests was over, or when
\* the server started behind its back (app.go:473-496).
DrainedBeforeClose ==
  /\ inflight > 0
  /\ http # "stopped" /\ ~ late
  /\ \A c \in Callers : ~ shutter[c].expired
  => \A c \in Components : comps[c] = "open"

\* Shutdown and a failed New take the components down in an order that leaves
\* nobody without what he uses.
ClosedInOrder == StorageOutlivesItsUsers /\ DrainedBeforeClose

\* A signal ends the process, and with it everything is released, unless the
\* server was started behind Shutdown's back (run.go:167-200).
SignalEndsProcess ==
  (shutter["signal"].at = "claim") ~> (main = "exited" \/ late)

\* What requests recorded is in the database when the process ends after a
\* signal (app.go:455: "Usage logger close (flushes pending usage records)").
FlushedAtExit ==
  main = "exited" /\ shutter["signal"].at # "idle" => pending = 0
============================================================================
