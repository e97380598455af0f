----------------------- MODULE CircuitBreaker_proofs -----------------------
(* Machine-checked proofs about CircuitBreaker, for any set of requests,    *)
(* any thresholds, timeout and number of attempts.                          *)
EXTENDS CircuitBreaker, TLAPS

(* The inductive invariant.  ProbeSlotNeverLost is inductive only beside    *)
(* ProbeIsNotRetried: a probe that could back off would leave the states    *)
(* from which it returns its slot.                                          *)
IInv == TypeOK /\ ThresholdsDecide /\ ProbeIsNotRetried /\ ProbeSlotNeverLost

(* TypeOK in parts a step proves on its own: numbers, the request loops'    *)
(* counters, Boolean flags.                                                 *)
Numbers ==
  /\ state \in {"closed", "open", "halfOpen"}
  /\ failures \in 0 .. FailureCap
  /\ successes \in Nat
  /\ sinceFailure \in 0 .. Timeout + 1

Loops ==
  /\ pc \in [Requests -> {"idle", "sending", "backoff", "tooMany"}]
  /\ attempt \in [Requests -> Nat]
  /\ budget \in [Requests -> Nat]

Flags ==
  /\ halfOpenAllowed \in BOOLEAN
  /\ healthy \in BOOLEAN

Probes ==
  /\ probe \in [Requests -> BOOLEAN]
  /\ holders \subseteq Requests

(* The type invariant, in parts that change together.                        *)
LEMMA TypeParts == TypeOK <=> Numbers /\ Loops /\ Flags /\ Probes
BY DEF TypeOK, Numbers, Loops, Flags, Probes

(* What the breaker's methods do to its numbers.                            *)
LEMMA VerdictNumbers ==
  ASSUME TypeOK, RecordFailure \/ RecordSuccess \/ ReleaseProbe \/ UNCHANGED breaker
  PROVE  Numbers'
BY BreakerAssumption
DEF BreakerAssumption, TypeOK, Numbers, RecordFailure, Trips, Succ, RecordSuccess,
    SuccessInHalfOpen, SuccessInClosed, ReleaseProbe, breaker

(* What they do to the slot.                                                *)
LEMMA VerdictSlot ==
  ASSUME TypeOK, RecordFailure \/ RecordSuccess \/ ReleaseProbe \/ UNCHANGED breaker
  PROVE  halfOpenAllowed' \in BOOLEAN
BY DEF TypeOK, RecordFailure, RecordSuccess, SuccessInHalfOpen, SuccessInClosed, ReleaseProbe, breaker

(* What the end of a request does to its bookkeeping.                       *)
LEMMA FinishTypes ==
  ASSUME TypeOK, NEW r \in Requests, Finish(r)
  PROVE  Loops' /\ Probes'
<1>1. Loops'
  BY DEF TypeOK, Loops, Finish
<1>2. Probes'
  BY DEF TypeOK, Probes, Finish
<1> QED
  BY <1>1, <1>2

(* The initial state, in the same parts.                                    *)
LEMMA InitTypes == Init => TypeOK
<1> SUFFICES ASSUME Init PROVE TypeOK
  OBVIOUS
<1>1. Numbers
  BY BreakerAssumption DEF BreakerAssumption, Init, Numbers
<1>2. Loops
  BY DEF Init, Loops
<1>3. Flags /\ Probes
  BY DEF Init, Flags, Probes
<1> QED
  BY <1>1, <1>2, <1>3, TypeParts

(* Every variable keeps its type under every step of the client and of the  *)
(* breaker's methods.                                                       *)
THEOREM TypeCorrect == Spec => []TypeOK
<1>1. Init => TypeOK
  BY InitTypes
<1>2. TypeOK /\ [Next]_vars => TypeOK'
  <2> SUFFICES ASSUME TypeOK, [Next]_vars PROVE Numbers' /\ Loops' /\ Flags' /\ Probes'
    BY DEF TypeOK, Numbers, Loops, Flags, Probes
  <2>1. ASSUME NEW r \in Requests, BeginRequest(r) PROVE Numbers' /\ Loops' /\ Flags' /\ Probes'
    <3>1. Numbers'
      <4>1. AcquireClosed \/ AcquireProbe
        BY <2>1 DEF BeginRequest
      <4>2. CASE AcquireClosed
        BY <4>2 DEF TypeOK, Numbers, AcquireClosed, breaker
      <4>3. CASE AcquireProbe
        <5>1. successes' \in Nat
          BY <4>3 DEF TypeOK, AcquireProbe
        <5> QED
          BY <4>3, <5>1 DEF TypeOK, Numbers, AcquireProbe
      <4> QED
        BY <4>1, <4>2, <4>3
    <3>2. Loops'
      BY <2>1, BreakerAssumption DEF BreakerAssumption, TypeOK, Loops, BeginRequest, Start
    <3>3. Flags'
      BY <2>1 DEF TypeOK, Flags, BeginRequest, AcquireClosed, AcquireProbe, breaker
    <3>4. Probes'
      BY <2>1 DEF TypeOK, Probes, BeginRequest, Start
    <3> QED
      BY <3>1, <3>2, <3>3, <3>4
  <2>2. ASSUME NEW r \in Requests, AttemptEnds(r) PROVE Numbers' /\ Loops' /\ Flags' /\ Probes'
    <3>1. PICK o \in Outcomes :
            \/ /\ pc' = [pc EXCEPT ![r] = "backoff"]
               /\ UNCHANGED <<breaker, attempt, budget, probe, holders>>
            \/ Conclude(r, o)
      BY <2>2 DEF AttemptEnds, Outcomes
    <3>2. UNCHANGED healthy
      BY <2>2 DEF AttemptEnds
    <3>3. RecordFailure \/ RecordSuccess \/ ReleaseProbe \/ UNCHANGED breaker
      BY <3>1 DEF Conclude, ReleaseHalfOpenProbe, CheckHalfOpen
    <3>4. Numbers' /\ Flags'
      BY <3>2, <3>3, VerdictNumbers, VerdictSlot DEF TypeOK, Flags
    <3>5. \/ Finish(r)
          \/ /\ \E p \in {"backoff", "tooMany"} : pc' = [pc EXCEPT ![r] = p]
             /\ UNCHANGED <<attempt, budget, probe, holders>>
      BY <3>1 DEF Conclude, CheckHalfOpen
    <3>6. CASE Finish(r)
      BY <3>4, <3>6, FinishTypes
    <3>7. CASE /\ \E p \in {"backoff", "tooMany"} : pc' = [pc EXCEPT ![r] = p]
               /\ UNCHANGED <<attempt, budget, probe, holders>>
      BY <3>4, <3>7 DEF TypeOK, Loops, Probes
    <3> QED
      BY <3>5, <3>6, <3>7
  <2>3. ASSUME NEW r \in Requests, BackoffEnds(r) PROVE Numbers' /\ Loops' /\ Flags' /\ Probes'
    <3>1. Numbers' /\ Flags'
      BY <2>3, VerdictNumbers, VerdictSlot DEF BackoffEnds, TypeOK, Flags
    <3>2. CASE Finish(r)
      BY <3>1, <3>2, FinishTypes
    <3>3. CASE ~Finish(r)
      <4>1. Loops'
        BY <2>3, <3>3 DEF BackoffEnds, TypeOK, Loops
      <4>2. Probes'
        BY <2>3, <3>3 DEF BackoffEnds, TypeOK, Probes
      <4> QED
        BY <3>1, <4>1, <4>2
    <3> QED
      BY <3>2, <3>3
  <2>4. ASSUME NEW r \in Requests, RecordTooMany(r) PROVE Numbers' /\ Loops' /\ Flags' /\ Probes'
    BY <2>4, VerdictNumbers, VerdictSlot, FinishTypes DEF RecordTooMany, TypeOK, Flags
  <2>5. CASE TimePasses
    <3>1. Numbers'
      BY <2>5, BreakerAssumption DEF BreakerAssumption, TimePasses, TypeOK, Numbers
    <3>2. Loops' /\ Flags' /\ Probes'
      BY <2>5 DEF TimePasses, requests, TypeOK, Loops, Flags, Probes
    <3> QED
      BY <3>1, <3>2
  <2>6. CASE Recover \/ UNCHANGED vars
    BY <2>6 DEF Recover, vars, breaker, requests, TypeOK, Numbers, Loops, Flags, Probes
  <2> QED
    BY <2>1, <2>2, <2>3, <2>4, <2>5, <2>6 DEF Next
<1> QED
  BY <1>1, <1>2, PTL DEF Spec

(* RecordFailure never leaves the breaker half-open, so it cannot strand    *)
(* the slot, and it leaves it closed only below the threshold.              *)
LEMMA FailureVerdict ==
  ASSUME TypeOK, ThresholdsDecide, RecordFailure
  PROVE  state' # "halfOpen" /\ ThresholdsDecide'
BY BreakerAssumption DEF BreakerAssumption, TypeOK, ThresholdsDecide, RecordFailure, Trips, Succ

(* RecordSuccess leaves the breaker half-open only with a free slot and too *)
(* few successes, and resets the failures whenever it leaves it closed.     *)
LEMMA SuccessVerdict ==
  ASSUME TypeOK, ThresholdsDecide, RecordSuccess
  PROVE  (state' = "halfOpen" => halfOpenAllowed') /\ ThresholdsDecide'
BY BreakerAssumption
DEF BreakerAssumption, TypeOK, ThresholdsDecide, RecordSuccess, SuccessInHalfOpen, SuccessInClosed, breaker

(* A request that finishes is no probe any more and waits for nothing.      *)
LEMMA FinishClears ==
  ASSUME TypeOK, ProbeIsNotRetried, NEW r \in Requests, Finish(r)
  PROVE  /\ ProbeIsNotRetried'
         /\ \A q \in Requests \ {r} :
              q \in holders /\ probe[q] /\ pc[q] \in {"sending", "tooMany"} =>
                q \in holders' /\ probe'[q] /\ pc'[q] \in {"sending", "tooMany"}
BY DEF TypeOK, ProbeIsNotRetried, Finish

(* A step that neither leaves the breaker half-open with a taken slot nor   *)
(* touches the counters keeps the invariant if it finishes one request.     *)
LEMMA NonAttemptSteps ==
  ASSUME IInv, NEW r \in Requests, BeginRequest(r) \/ BackoffEnds(r) \/ RecordTooMany(r)
  PROVE  (ThresholdsDecide /\ ProbeIsNotRetried /\ ProbeSlotNeverLost)'
<1>1. CASE BeginRequest(r)
  <2>1. ThresholdsDecide'
    BY <1>1 DEF IInv, TypeOK, ThresholdsDecide, BeginRequest, AcquireClosed, AcquireProbe, TimedOut, breaker
  <2>2. ProbeIsNotRetried'
    BY <1>1 DEF IInv, TypeOK, ProbeIsNotRetried, BeginRequest, Start
  <2>3. CASE AcquireClosed
    <3>1. ProbeSlotNeverLost'
      BY <2>3 DEF AcquireClosed, ProbeSlotNeverLost, breaker
    <3> QED
      BY <2>1, <2>2, <3>1
  <2>4. CASE Start(r, TRUE) /\ r \in holders'
    <3>1. ProbeSlotNeverLost'
      BY <2>4 DEF Start, ProbeSlotNeverLost, IInv, TypeOK
    <3> QED
      BY <2>1, <2>2, <3>1
  <2>5. AcquireClosed \/ (Start(r, TRUE) /\ r \in holders')
    BY <1>1 DEF BeginRequest
  <2> QED
    BY <2>3, <2>4, <2>5
<1>2. CASE BackoffEnds(r)
  <2>1. ThresholdsDecide'
    BY <1>2 DEF IInv, ThresholdsDecide, BackoffEnds, breaker
  <2>2. ~probe[r]
    BY <1>2 DEF IInv, ProbeIsNotRetried, BackoffEnds
  <2>3. ProbeIsNotRetried'
    BY <1>2, <2>2 DEF IInv, TypeOK, ProbeIsNotRetried, BackoffEnds, Finish
  <2>4. ProbeSlotNeverLost'
    BY <1>2, <2>2 DEF IInv, TypeOK, ProbeSlotNeverLost, BackoffEnds, Finish, breaker
  <2> QED
    BY <2>1, <2>3, <2>4
<1>3. CASE RecordTooMany(r)
  BY <1>3, FailureVerdict, FinishClears DEF IInv, RecordTooMany, ProbeSlotNeverLost
<1> QED
  BY <1>1, <1>2, <1>3

(* The steps in which an attempt ends, one per kind of outcome.             *)
LEMMA AttemptSteps ==
  ASSUME IInv, NEW r \in Requests, AttemptEnds(r)
  PROVE  (ThresholdsDecide /\ ProbeIsNotRetried /\ ProbeSlotNeverLost)'
<1>1. PICK o \in Outcomes :
        \/ /\ Retries(r, o)
           /\ pc' = [pc EXCEPT ![r] = "backoff"]
           /\ UNCHANGED <<breaker, attempt, budget, probe, holders>>
        \/ Conclude(r, o)
  BY DEF AttemptEnds, Outcomes
<1>2. CASE Retries(r, o) /\ pc' = [pc EXCEPT ![r] = "backoff"]
            /\ UNCHANGED <<breaker, attempt, budget, probe, holders>>
  <2>1. ~probe[r]
    BY <1>2 DEF Retries, LastAttempt
  <2> QED
    BY <1>2, <2>1 DEF IInv, TypeOK, ThresholdsDecide, ProbeIsNotRetried, ProbeSlotNeverLost, breaker
<1>3. ASSUME ReleaseHalfOpenProbe(r), Finish(r)
      PROVE  (ThresholdsDecide /\ ProbeIsNotRetried /\ ProbeSlotNeverLost)'
  <2>1. ThresholdsDecide'
    BY <1>3 DEF IInv, ThresholdsDecide, ReleaseHalfOpenProbe, ReleaseProbe, breaker
  <2>2. state' = "halfOpen" /\ ~halfOpenAllowed' =>
          state = "halfOpen" /\ ~halfOpenAllowed /\ ~probe[r]
    BY <1>3 DEF IInv, TypeOK, ReleaseHalfOpenProbe, ReleaseProbe, breaker
  <2> QED
    BY <1>3, <2>1, <2>2, FinishClears DEF IInv, TypeOK, ProbeSlotNeverLost
<1>4. ASSUME RecordFailure, Finish(r)
      PROVE  (ThresholdsDecide /\ ProbeIsNotRetried /\ ProbeSlotNeverLost)'
  BY <1>4, FailureVerdict, FinishClears DEF IInv, ProbeSlotNeverLost
<1>5. ASSUME RecordSuccess, Finish(r)
      PROVE  (ThresholdsDecide /\ ProbeIsNotRetried /\ ProbeSlotNeverLost)'
  BY <1>5, SuccessVerdict, FinishClears DEF IInv, ProbeSlotNeverLost
<1>6. ASSUME CheckHalfOpen(r), pc[r] = "sending"
      PROVE  (ThresholdsDecide /\ ProbeIsNotRetried /\ ProbeSlotNeverLost)'
  <2>1. ThresholdsDecide'
    BY <1>6 DEF IInv, ThresholdsDecide, CheckHalfOpen, breaker
  <2>2. CASE state = "halfOpen"
    BY <1>6, <2>1, <2>2 DEF IInv, TypeOK, ProbeIsNotRetried, ProbeSlotNeverLost, CheckHalfOpen, breaker
  <2>3. CASE state # "halfOpen"
    BY <1>6, <2>1, <2>3, FinishClears DEF IInv, CheckHalfOpen, ProbeSlotNeverLost, breaker
  <2> QED
    BY <2>2, <2>3
<1> QED
  BY <1>1, <1>2, <1>3, <1>4, <1>5, <1>6 DEF Conclude, AttemptEnds

(* The invariant holds in every reachable state.                            *)
THEOREM Invariance == Spec => []IInv
<1>1. Init => IInv
  <2> SUFFICES ASSUME Init PROVE ThresholdsDecide /\ ProbeIsNotRetried /\ ProbeSlotNeverLost
    BY InitTypes DEF IInv
  <2>1. ThresholdsDecide
    BY BreakerAssumption DEF BreakerAssumption, Init, ThresholdsDecide
  <2>2. ProbeIsNotRetried /\ ProbeSlotNeverLost
    BY DEF Init, ProbeIsNotRetried, ProbeSlotNeverLost
  <2> QED
    BY <2>1, <2>2
<1>2. IInv /\ TypeOK' /\ [Next]_vars => IInv'
  <2> SUFFICES ASSUME IInv, TypeOK', [Next]_vars
               PROVE  (ThresholdsDecide /\ ProbeIsNotRetried /\ ProbeSlotNeverLost)'
    BY DEF IInv
  <2>1. CASE TimePasses \/ Recover \/ UNCHANGED vars
    BY <2>1 DEF TimePasses, Recover, vars, breaker, requests, IInv, ThresholdsDecide, ProbeIsNotRetried, ProbeSlotNeverLost
  <2> QED
    BY <2>1, NonAttemptSteps, AttemptSteps DEF Next
<1> QED
  BY <1>1, <1>2, TypeCorrect, PTL DEF Spec

(* While the breaker is half-open with its slot taken, a probe that will    *)
(* return the slot is in flight: releaseProbe and the verdicts never leave  *)
(* a breaker that rejects everything.                                       *)
THEOREM ProbeSlotSafe == Spec => []ProbeSlotNeverLost
BY Invariance, PTL DEF IInv

(* No order of stale verdicts overruns a threshold (RecordFailure and       *)
(* RecordSuccess).                                                          *)
THEOREM ThresholdsSafe == Spec => []ThresholdsDecide
BY Invariance, PTL DEF IInv

(* A half-open probe makes one upstream attempt (DoRaw, DoPassthrough).     *)
THEOREM ProbeOneAttempt == Spec => []ProbeIsNotRetried
BY Invariance, PTL DEF IInv
=============================================================================
