------------------------------- MODULE Routing -------------------------------
(***************************************************************************)
(* How one translated request walks from its primary model through its     *)
(* failover targets, and the cooldown tracker that all requests share.     *)
(*                                                                         *)
(* Requests are goroutines.  At each position of its target list a request *)
(* asks the tracker about the provider, then about the model, each under   *)
(* the tracker's lock; let through, it calls the provider, and its failure *)
(* is recorded in the tracker when the call returns.  Time is a number of  *)
(* ticks, kept relative to now: what is left of a cooldown, and how long   *)
(* ago its last counted failure was.                                       *)
(*                                                                         *)
(* Left out: MarkTerminal, which the error text never reaches (the router  *)
(* passes the text of GatewayError.Err, and the upstream client leaves it  *)
(* nil), the metrics, and the attempt log, which only this request reads.  *)
(***************************************************************************)
EXTENDS Integers, Sequences

CONSTANTS
  Requests,       \* request slots; a slot is used again once it is idle
  Targets,        \* the primary, then the failover targets: <<[provider, model], ...>>
  KeyCooldown,    \* cooldown after a 429, 401 or 403
  ModelCooldown,  \* cooldown after a 404
  MaxCooldown,    \* cap of the exponential backoff
  HerdWindow      \* antiHerdWindow

ASSUME TargetsAssumption ==
  Targets # << >> /\ Targets \in Seq({Targets[i] : i \in DOMAIN Targets})
ASSUME CooldownAssumption ==
  /\ {KeyCooldown, ModelCooldown, MaxCooldown, HerdWindow} \subseteq Nat \ {0}
  /\ HerdWindow <= KeyCooldown
  /\ KeyCooldown <= ModelCooldown
  /\ ModelCooldown <= MaxCooldown

VARIABLES
  entries,   \* the tracker: per key what is left of the cooldown, the backoff
             \* of the failures counted, and the age of the last counted one
  pc,        \* where a request is; while it asks, the scope it asks about
  pos,       \* its position in Targets
  last,      \* what its last attempt left: "ok", or an error that does or
             \* does not justify a failover
  canceled,  \* its context is done
  missedAge  \* history: ticks since a target last answered 404

vars == <<entries, pc, pos, last, canceled, missedAge>>

Positions == DOMAIN Targets

(* A CooldownKey.  Requests ask about scopes "provider" and "model";       *)
(* failures are recorded under scopes "key" and "model".                   *)
Key(scope, i) ==
  [scope |-> scope, provider |-> Targets[i].provider,
   model |-> IF scope = "model" THEN Targets[i].model ELSE ""]

Scopes == {"provider", "key", "model"}
Keys == {Key(scope, i) : scope \in Scopes, i \in Positions}

Duration(scope) == IF scope = "model" THEN ModelCooldown ELSE KeyCooldown

(* The n-th counted failure cools for d * 2^(n-1), capped.  A key always   *)
(* fails with the same d, so the count is kept as the wait it stands for.  *)
Least(a, b) == IF a < b THEN a ELSE b
Backoff(d, wait) == IF wait = 0 THEN d ELSE Least(2 * wait, MaxCooldown)

(* A key that is not in the map: nothing to wait for, nothing counted, and *)
(* a last failure that is infinitely old.                                  *)
NoEntry == [left |-> 0, wait |-> 0, age |-> HerdWindow]

TypeOK ==
  /\ entries \in [Keys -> [left : 0..MaxCooldown, wait : 0..MaxCooldown, age : 0..HerdWindow]]
  /\ pc \in [Requests -> {"idle", "provider", "model", "calling", "sweep"}]
  /\ pos \in [Requests -> Positions]
  /\ last \in [Requests -> {"none", "ok", "failover", "final"}]
  /\ canceled \in [Requests -> BOOLEAN]
  /\ missedAge \in [Positions -> 0..MaxCooldown]

Init ==
  /\ entries = [k \in Keys |-> NoEntry]
  /\ pc = [r \in Requests |-> "idle"]
  /\ pos = [r \in Requests |-> 1]
  /\ last = [r \in Requests |-> "none"]
  /\ canceled = [r \in Requests |-> FALSE]
  /\ missedAge = [i \in Positions |-> MaxCooldown]

-----------------------------------------------------------------------------
(* CooldownTracker                                                         *)

\* Mutant of Active: an entry counts for as long as it is in the map.
Present(k) == entries[k].wait > 0

\* Mutant of Active: off by one at the end of the wait.
ActiveButLastTick(k) == entries[k].left > 1

Active(k) == entries[k].left > 0

\* Mutant of RecordFailure: every failure of a storm starts the wait again.
RecordEveryFailure(e, d) ==
  IF e.age < HerdWindow
  THEN [e EXCEPT !.left = d]
  ELSE [left |-> Backoff(d, e.wait), wait |-> Backoff(d, e.wait), age |-> 0]

(* RecordFailure.  Inside the herd window a failure is not counted and     *)
(* only an expired cooldown starts again.                                  *)
RecordFailure(e, d) ==
  IF e.age < HerdWindow
  THEN [e EXCEPT !.left = IF @ = 0 THEN d ELSE @]
  ELSE [left |-> Backoff(d, e.wait), wait |-> Backoff(d, e.wait), age |-> 0]

(* The scope that RecordFailureFromStatusCode files a status under.        *)
ScopeOfStatus(status) ==
  CASE status \in {"denied", "limited"} -> "key"
    [] status = "missing" -> "model"

Recorded(status, i) ==
  IF status \in {"denied", "limited", "missing"}
  THEN [entries EXCEPT ![Key(ScopeOfStatus(status), i)] =
          RecordFailure(@, Duration(ScopeOfStatus(status)))]
  ELSE entries

-----------------------------------------------------------------------------
(* One request                                                             *)

Begin(r) ==
  /\ pc[r] = "idle"
  /\ pc' = [pc EXCEPT ![r] = "provider"]
  /\ pos' = [pos EXCEPT ![r] = 1]
  /\ canceled' = [canceled EXCEPT ![r] = FALSE]
  /\ UNCHANGED <<entries, last, missedAge>>

(* resolveProvider fails: the selector has left the registry.              *)
Unresolved(r) ==
  /\ pc[r] = "provider"
  /\ pc' = [pc EXCEPT ![r] = "sweep"]
  /\ \E kind \in {"failover", "final"} : last' = [last EXCEPT ![r] = kind]
  /\ UNCHANGED <<entries, pos, canceled, missedAge>>

(* Check finds an active cooldown: a 429 of the gateway's own, which is    *)
(* not recorded and justifies a failover.                                  *)
Refused(r) ==
  /\ pc[r] \in {"provider", "model"}
  /\ Active(Key(pc[r], pos[r]))
  /\ pc' = [pc EXCEPT ![r] = "sweep"]
  /\ last' = [last EXCEPT ![r] = "failover"]
  /\ UNCHANGED <<entries, pos, canceled, missedAge>>

(* Check finds none, and deletes an expired entry.                         *)
Passed(r) ==
  /\ pc[r] \in {"provider", "model"}
  /\ ~ Active(Key(pc[r], pos[r]))
  /\ entries' = [entries EXCEPT ![Key(pc[r], pos[r])] = NoEntry]
  /\ pc' = [pc EXCEPT ![r] = IF @ = "provider" THEN "model" ELSE "calling"]
  /\ UNCHANGED <<pos, last, canceled, missedAge>>

(* The provider answers and the router records the failure.  A 429 and a   *)
(* 5xx always justify a failover; of the other errors, those whose code or *)
(* text says that the model is not there ("other" stands for any status    *)
(* the tracker ignores).                                                   *)
CallEnds(r) ==
  /\ pc[r] = "calling"
  /\ \E status \in {"ok", "denied", "limited", "missing", "other"} :
       /\ entries' = Recorded(status, pos[r])
       /\ missedAge' = [i \in Positions |->
                          IF status = "missing" /\ Key("model", i) = Key("model", pos[r])
                          THEN 0 ELSE missedAge[i]]
       /\ \E kind \in CASE status = "ok" -> {"ok"}
                        [] status = "limited" -> {"failover"}
                        [] OTHER -> {"failover", "final"} :
            last' = [last EXCEPT ![r] = kind]
  /\ pc' = [pc EXCEPT ![r] = "sweep"]
  /\ UNCHANGED <<pos, canceled>>

(* tryFailoverResponse and tryFailoverStream go on while the context lives *)
(* and only if the PRIMARY's error justified it.                           *)
MayTryNext(r) ==
  /\ last[r] # "ok"
  /\ ~ canceled[r]
  /\ pos[r] = 1 => last[r] = "failover"

(* The targets in between are those the model authorizer does not allow.   *)
TryNext(r) ==
  /\ pc[r] = "sweep"
  /\ MayTryNext(r)
  /\ \E next \in pos[r] + 1..Len(Targets) : pos' = [pos EXCEPT ![r] = next]
  /\ pc' = [pc EXCEPT ![r] = "provider"]
  /\ UNCHANGED <<entries, last, canceled, missedAge>>

(* The answer, or the last error, goes to the client: also when every      *)
(* target left is refused by the authorizer, or there is no failover.      *)
Finish(r) ==
  /\ pc[r] = "sweep"
  /\ pc' = [pc EXCEPT ![r] = "idle"]
  /\ last' = [last EXCEPT ![r] = "none"]
  /\ UNCHANGED <<entries, pos, canceled, missedAge>>

(* The client disconnects, or the request's deadline passes.               *)
Cancel(r) ==
  /\ pc[r] # "idle"
  /\ ~ canceled[r]
  /\ canceled' = [canceled EXCEPT ![r] = TRUE]
  /\ UNCHANGED <<entries, pc, pos, last, missedAge>>

Aged(e) == [e EXCEPT !.left = IF @ > 0 THEN @ - 1 ELSE 0,
                     !.age = Least(@ + 1, HerdWindow)]

Tick ==
  /\ entries' = [k \in Keys |-> Aged(entries[k])]
  /\ missedAge' = [i \in Positions |-> Least(missedAge[i] + 1, MaxCooldown)]
  /\ UNCHANGED <<pc, pos, last, canceled>>

RequestStep(r) ==
  Unresolved(r) \/ Refused(r) \/ Passed(r) \/ CallEnds(r) \/ TryNext(r) \/ Finish(r)

Next ==
  \/ \E r \in Requests : Begin(r) \/ RequestStep(r) \/ Cancel(r)
  \/ Tick

Spec == Init /\ [][Next]_vars

(* Calls end (the upstream client has timeouts), requests go on, and time  *)
(* passes.  No client has to call or to hang up.                           *)
FairSpec == Spec /\ (\A r \in Requests : WF_vars(RequestStep(r))) /\ WF_vars(Tick)

-----------------------------------------------------------------------------
(* Properties                                                              *)

(* A storm of concurrent failures costs one wait: no cooldown runs longer  *)
(* than the backoff of its counted failures, measured from the last        *)
(* counted one (the comment above CooldownTracker.RecordFailure).          *)
StormsDoNotExtend ==
  \A k \in Keys :
    entries[k].left > 0 => entries[k].left + entries[k].age <= entries[k].wait

(* After a provider answered 404 for a model, no request is let through to *)
(* that model before the lockout is over, however the failures of other    *)
(* requests, expiries and cleanups fall between; a storm may shorten the   *)
(* wait of its own last failure by less than the herd window. And only the *)
(* model that was missing is locked out, not its provider's other models   *)
(* (RecordFailureFromStatusCode).                                          *)
ModelLockoutLasts ==
  [][\A r \in Requests :
       /\ (pc[r] = "model" /\ pc'[r] = "calling")
            => missedAge[pos[r]] > ModelCooldown - HerdWindow
       /\ (pc[r] = "model" /\ pc'[r] = "sweep")
            => missedAge[pos[r]] < MaxCooldown]_vars

(* A target that requests keep asking for is called again and again: no    *)
(* lockout is for ever, even if the model stays missing.                   *)
LockoutsEnd ==
  \A i \in Positions :
    ([]<>(\E r \in Requests : pc[r] = "model" /\ pos[r] = i))
      => []<>(\E r \in Requests : pc[r] = "calling" /\ pos[r] = i)

(* What the router says of itself: while a 429, 401 or 403 of a provider   *)
(* is cooling, the check before a call does not let requests through to it *)
(* ("Check provider-level cooldown before making the call",                *)
(* routeResolvedModelCall).                                                *)
CooledProviderIsRefused ==
  [][\A r \in Requests :
       (pc[r] = "provider" /\ pc'[r] = "model")
         => ~ Active(Key("key", pos[r]))]_vars

=============================================================================
