--------------------------- MODULE CircuitBreaker ---------------------------
(***************************************************************************)
(* One provider's circuit breaker (internal/llmclient/circuit_breaker.go)  *)
(* and the lifecycle of the client requests that pass through it           *)
(* (internal/llmclient/client.go).  The breaker's methods are atomic, they *)
(* run under its mutex; everything a request does between two of them      *)
(* interleaves with the other requests.                                    *)
(***************************************************************************)
EXTENDS Naturals

CONSTANTS
  Requests,          \* slots of concurrent client requests
  FailureThreshold,  \* CircuitBreaker.FailureThreshold; 0 disables the breaker
  SuccessThreshold,  \* CircuitBreaker.SuccessThreshold
  Timeout,           \* CircuitBreaker.Timeout, in ticks of the model's clock
  MaxAttempts,       \* what maxAttempts() returns: MaxRetries + 1, at least 1
  FailureCap         \* bound of the model: failures saturates here

ASSUME BreakerAssumption ==
  /\ FailureThreshold \in Nat \ {0}
  /\ SuccessThreshold \in Nat
  /\ Timeout \in Nat
  /\ MaxAttempts \in Nat \ {0}
  /\ FailureCap \in Nat /\ FailureCap >= FailureThreshold

(* How one upstream attempt can end.  "local": buildRequest failed, nothing *)
(* was sent.  "canceled": the caller gave up.  "timeout": the client's own  *)
(* deadline.  "transport": any other send or read error.  "overloaded":     *)
(* 502, 503 or 504.  "fault": another status of at least 500.  "tooMany":   *)
(* 429.  "answered": every other status.                                    *)
Outcomes == {"local", "canceled", "timeout", "transport", "overloaded",
             "fault", "tooMany", "answered"}

(* Attempts the retry loops repeat: a retryable status, or an error of the  *)
(* transport that is not a client timeout.                                  *)
Retryable == {"canceled", "transport", "overloaded", "tooMany"}

(* Outcomes for which the breaker records a failure.                        *)
Tripping == {"timeout", "transport", "overloaded", "fault"}

VARIABLES
  state,             \* circuitBreaker.state
  failures,          \* circuitBreaker.failures
  successes,         \* circuitBreaker.successes
  halfOpenAllowed,   \* circuitBreaker.halfOpenAllowed
  sinceFailure,      \* time.Since(lastFailure), saturating at Timeout + 1
  pc,                \* where each request is
  attempt,           \* the retry loop's counter
  budget,            \* the retry loop's bound
  probe,             \* requestScope.halfOpenProbe
  holders,           \* history: probes in flight of this half-open period
  healthy            \* the provider: TRUE once it answers every request

breaker == <<state, failures, successes, halfOpenAllowed, sinceFailure>>
requests == <<pc, attempt, budget, probe>>
vars == <<breaker, requests, holders, healthy>>

Init ==
  /\ state = "closed"
  /\ failures = 0
  /\ successes = 0
  /\ halfOpenAllowed = TRUE
  /\ sinceFailure = Timeout + 1
  /\ pc = [r \in Requests |-> "idle"]
  /\ attempt = [r \in Requests |-> 0]
  /\ budget = [r \in Requests |-> 1]
  /\ probe = [r \in Requests |-> FALSE]
  /\ holders = {}
  /\ healthy = FALSE

-----------------------------------------------------------------------------
(* The breaker's methods.                                                   *)

Succ(n) == IF n < FailureCap THEN n + 1 ELSE n

TimedOut == state = "open" /\ sinceFailure > Timeout

(* acquire in the closed state: let through, not a probe.                   *)
AcquireClosed == state = "closed" /\ UNCHANGED breaker

(* acquire grants the probe slot: the open period is over, or the breaker   *)
(* is half-open and its slot is free.  In every other case it rejects and   *)
(* changes nothing.                                                         *)
AcquireProbe ==
  /\ TimedOut \/ (state = "halfOpen" /\ halfOpenAllowed)
  /\ state' = "halfOpen"
  /\ successes' = IF TimedOut THEN 0 ELSE successes
  /\ halfOpenAllowed' = FALSE
  /\ UNCHANGED <<failures, sinceFailure>>

ReleaseProbe ==
  /\ halfOpenAllowed' = (halfOpenAllowed \/ state = "halfOpen")
  /\ UNCHANGED <<state, failures, successes, sinceFailure>>

(* Mutants of SuccessInHalfOpen and Trips below.                            *)
SuccessKeepsSlot ==
  /\ state = "halfOpen"
  /\ successes' = successes + 1
  /\ UNCHANGED halfOpenAllowed
  /\ LET closes == successes + 1 >= SuccessThreshold
     IN  /\ state' = IF closes THEN "closed" ELSE state
         /\ failures' = IF closes THEN 0 ELSE failures

TripsLate(n) == n > FailureThreshold

SuccessInHalfOpen ==
  /\ state = "halfOpen"
  /\ successes' = successes + 1
  /\ halfOpenAllowed' = TRUE
  /\ LET closes == successes + 1 >= SuccessThreshold
     IN  /\ state' = IF closes THEN "closed" ELSE state
         /\ failures' = IF closes THEN 0 ELSE failures

SuccessInClosed ==
  /\ state = "closed"
  /\ failures' = 0
  /\ UNCHANGED <<state, successes, halfOpenAllowed>>

RecordSuccess ==
  /\ \/ SuccessInHalfOpen
     \/ SuccessInClosed
     \/ state = "open" /\ UNCHANGED breaker
  /\ UNCHANGED sinceFailure

Trips(n) == n >= FailureThreshold

RecordFailure ==
  /\ failures' = Succ(failures)
  /\ sinceFailure' = 0
  /\ \/ /\ state = "closed"
        /\ state' = IF Trips(failures') THEN "open" ELSE state
        /\ UNCHANGED <<successes, halfOpenAllowed>>
     \/ /\ state = "halfOpen"
        /\ state' = "open"
        /\ successes' = 0
        /\ halfOpenAllowed' = TRUE
     \/ state = "open" /\ UNCHANGED <<state, successes, halfOpenAllowed>>

-----------------------------------------------------------------------------
(* The client: DoRaw, DoStream and DoPassthrough.                           *)

(* A logical request starts.  A stream, a one-shot body and a passthrough   *)
(* that is not idempotent have one attempt; the others have MaxAttempts.    *)
Start(r, isProbe) ==
  /\ pc' = [pc EXCEPT ![r] = "sending"]
  /\ attempt' = [attempt EXCEPT ![r] = 0]
  /\ \E n \in {1, MaxAttempts} : budget' = [budget EXCEPT ![r] = n]
  /\ probe' = [probe EXCEPT ![r] = isProbe]

BeginRequest(r) ==
  /\ pc[r] = "idle"
  /\ \/ AcquireClosed /\ Start(r, FALSE) /\ UNCHANGED holders
     \/ /\ AcquireProbe
        /\ Start(r, TRUE)
        /\ holders' = IF TimedOut THEN {r} ELSE holders \cup {r}
  /\ UNCHANGED healthy

(* The request returns to its caller; its slot is free for another one.     *)
Finish(r) ==
  /\ pc' = [pc EXCEPT ![r] = "idle"]
  /\ attempt' = [attempt EXCEPT ![r] = 0]
  /\ budget' = [budget EXCEPT ![r] = 1]
  /\ probe' = [probe EXCEPT ![r] = FALSE]
  /\ holders' = holders \ {r}

(* Mutant of ReleaseHalfOpenProbe: the slot is not returned.                *)
KeepHalfOpenProbe(r) == UNCHANGED breaker

ReleaseHalfOpenProbe(r) == IF probe[r] THEN ReleaseProbe ELSE UNCHANGED breaker

(* recordCircuitBreakerCompletion's 429 branch: IsHalfOpen takes and drops  *)
(* the lock, RecordFailure takes it again.                                  *)
CheckHalfOpen(r) ==
  /\ UNCHANGED breaker
  /\ IF state = "halfOpen"
       THEN /\ pc' = [pc EXCEPT ![r] = "tooMany"]
            /\ UNCHANGED <<attempt, budget, probe, holders>>
       ELSE Finish(r)

(* completeScope and finishRequestWithoutBreaker: what the last attempt     *)
(* of a request tells the breaker.                                          *)
Conclude(r, o) ==
  \/ o \in {"local", "canceled"} /\ ReleaseHalfOpenProbe(r) /\ Finish(r)
  \/ o \in Tripping /\ RecordFailure /\ Finish(r)
  \/ o = "answered" /\ RecordSuccess /\ Finish(r)
  \/ o = "tooMany" /\ CheckHalfOpen(r)

(* A probe is never retried: it is settled by its first attempt.            *)
LastAttempt(r) == probe[r] \/ attempt[r] + 1 >= budget[r]

Retries(r, o) == o \in Retryable /\ ~LastAttempt(r)

(* An attempt ends.  The loop retries it or the request is concluded.       *)
AttemptEnds(r) ==
  /\ pc[r] = "sending"
  /\ \E o \in IF healthy THEN {"answered"} ELSE Outcomes :
       \/ /\ Retries(r, o)
          /\ pc' = [pc EXCEPT ![r] = "backoff"]
          /\ UNCHANGED <<breaker, attempt, budget, probe, holders>>
       \/ ~Retries(r, o) /\ Conclude(r, o)
  /\ UNCHANGED healthy

(* waitForRetryAttempt: the backoff passes, or the caller's context ends    *)
(* first and the request returns without a word to the breaker.             *)
BackoffEnds(r) ==
  /\ pc[r] = "backoff"
  /\ \/ /\ pc' = [pc EXCEPT ![r] = "sending"]
        /\ attempt' = [attempt EXCEPT ![r] = @ + 1]
        /\ UNCHANGED <<budget, probe, holders>>
     \/ Finish(r)
  /\ UNCHANGED <<breaker, healthy>>

(* The failure the 429 branch decided to record.                            *)
RecordTooMany(r) ==
  /\ pc[r] = "tooMany"
  /\ RecordFailure
  /\ Finish(r)
  /\ UNCHANGED healthy

-----------------------------------------------------------------------------
(* The environment.                                                         *)

TimePasses ==
  /\ sinceFailure <= Timeout
  /\ sinceFailure' = sinceFailure + 1
  /\ UNCHANGED <<state, failures, successes, halfOpenAllowed, requests,
                 holders, healthy>>

(* The provider recovers for good.                                          *)
Recover ==
  /\ ~healthy
  /\ healthy' = TRUE
  /\ UNCHANGED <<breaker, requests, holders>>

Next ==
  \/ \E r \in Requests :
       BeginRequest(r) \/ AttemptEnds(r) \/ BackoffEnds(r) \/ RecordTooMany(r)
  \/ TimePasses
  \/ Recover

Spec == Init /\ [][Next]_vars

(* Time passes; an attempt ends because the HTTP client has a deadline; a   *)
(* backoff is finite; a goroutine that runs is scheduled.  Nothing obliges  *)
(* a caller to send a request.                                              *)
Fairness ==
  /\ WF_vars(TimePasses)
  /\ \A r \in Requests :
       WF_vars(AttemptEnds(r)) /\ WF_vars(BackoffEnds(r)) /\ WF_vars(RecordTooMany(r))

FairSpec == Spec /\ Fairness

-----------------------------------------------------------------------------
(* Properties.                                                              *)

TypeOK ==
  /\ state \in {"closed", "open", "halfOpen"}
  /\ failures \in 0 .. FailureCap
  /\ successes \in Nat
  /\ halfOpenAllowed \in BOOLEAN
  /\ sinceFailure \in 0 .. Timeout + 1
  /\ pc \in [Requests -> {"idle", "sending", "backoff", "tooMany"}]
  /\ attempt \in [Requests -> Nat]
  /\ budget \in [Requests -> Nat]
  /\ probe \in [Requests -> BOOLEAN]
  /\ holders \subseteq Requests
  /\ healthy \in BOOLEAN

(* The probe slot is never lost: while the breaker is half-open with its    *)
(* slot taken, a probe of this half-open period is still in flight and will *)
(* give it back.  Otherwise every request would be rejected until the       *)
(* process restarts, because acquire only leaves half-open by a verdict     *)
(* (the comment of releaseProbe).                                           *)
ProbeSlotNeverLost ==
  state = "halfOpen" /\ ~halfOpenAllowed =>
    \E r \in holders : probe[r] /\ pc[r] \in {"sending", "tooMany"}

(* The thresholds are never overrun: whatever stale verdicts arrive, a      *)
(* closed breaker has counted fewer failures, and a half-open one fewer     *)
(* successes, than it takes to leave the state.                             *)
ThresholdsDecide ==
  /\ state = "closed" => failures < FailureThreshold
  /\ state = "halfOpen" => successes = 0 \/ successes < SuccessThreshold

(* A half-open probe costs the upstream one attempt: it never waits for or  *)
(* makes a second one, so a cancellation during backoff, which tells the    *)
(* breaker nothing, can never strand the slot.                              *)
ProbeIsNotRetried ==
  \A r \in Requests : probe[r] => attempt[r] = 0 /\ pc[r] # "backoff"

(* Once the provider answers and callers keep trying, the breaker closes    *)
(* and stays closed, whatever stale verdicts of the outage are in flight.   *)
(* Traffic, which nothing guarantees, is what drives the breaker from open  *)
(* over half-open to closed, so it is a premise.                            *)
CallersKeepTrying == SF_vars(\E r \in Requests : BeginRequest(r))
ClosesAfterRecovery == CallersKeepTrying => [](healthy => <>[](state = "closed"))

=============================================================================
