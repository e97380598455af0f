---------------------------- MODULE Routing_proofs ---------------------------
(* Machine-checked proofs about Routing: for any number of requests, any     *)
(* list of targets (a target may be listed twice) and any cooldowns that     *)
(* CooldownAssumption allows.                                                *)
EXTENDS Routing, TLAPS

(* The wait of a key's first counted failure. *)
Base(k) == Duration(k.scope)

(* A key that failed within the herd window is still inside the wait that    *)
(* its last counted failure set; an older one may only have less left.       *)
WaitOfLastFailure ==
  \A k \in Keys :
    /\ entries[k].wait # 0 => entries[k].wait >= Base(k)
    /\ entries[k].age < HerdWindow =>
         entries[k].wait # 0 /\ entries[k].left + entries[k].age = entries[k].wait

(* The lockout of a model runs from its last 404: the wait of the last       *)
(* counted failure, which may be older by less than the herd window.         *)
LockoutOfLastMiss ==
  \A i \in Positions :
    LET e == entries[Key("model", i)]
    IN  /\ e.left + missedAge[i] > ModelCooldown - HerdWindow
        /\ e.left > 0 => e.left + missedAge[i] <= MaxCooldown

RoutingIInv ==
  /\ TypeOK
  /\ WaitOfLastFailure
  /\ StormsDoNotExtend
  /\ LockoutOfLastMiss

-----------------------------------------------------------------------------
(* The tracker.                                                              *)

(* What the constants mean for one key.                                      *)
LEMMA Durations ==
  /\ KeyCooldown \in Nat /\ ModelCooldown \in Nat /\ MaxCooldown \in Nat /\ HerdWindow \in Nat
  /\ HerdWindow > 0
  /\ \A k \in Keys : /\ k.scope \in Scopes
                     /\ Base(k) \in HerdWindow .. MaxCooldown
                     /\ k.scope = "model" => Base(k) = ModelCooldown
  /\ \A i \in Positions, scope \in Scopes :
       Key(scope, i) \in Keys /\ Key(scope, i).scope = scope
<1>1. /\ {KeyCooldown, ModelCooldown, MaxCooldown, HerdWindow} \subseteq Nat /\ HerdWindow > 0
      /\ HerdWindow <= KeyCooldown /\ KeyCooldown <= ModelCooldown /\ ModelCooldown <= MaxCooldown
  BY CooldownAssumption
<1>2. \A i \in Positions, scope \in Scopes : Key(scope, i).scope = scope
  BY DEF Key
<1>3. \A i \in Positions, scope \in Scopes : Key(scope, i) \in Keys
  BY DEF Keys
<1>4. \A k \in Keys : k.scope \in Scopes
  BY <1>2 DEF Keys
<1> QED
  BY <1>1, <1>2, <1>3, <1>4 DEF Base, Duration

Entry == [left : 0..MaxCooldown, wait : 0..MaxCooldown, age : 0..HerdWindow]

(* One key's part of the invariant. *)
Sound(e, d) ==
  /\ e.wait # 0 => e.wait >= d
  /\ e.age < HerdWindow => e.wait # 0 /\ e.left + e.age = e.wait
  /\ e.left > 0 => e.left + e.age <= e.wait

(* The invariant of the tracker, entry by entry.                             *)
LEMMA SoundEntries ==
  (WaitOfLastFailure /\ StormsDoNotExtend) <=> \A k \in Keys : Sound(entries[k], Base(k))
  BY DEF WaitOfLastFailure, StormsDoNotExtend, Sound

(* The same after a step.                                                    *)
LEMMA SoundEntriesAfter ==
  (WaitOfLastFailure /\ StormsDoNotExtend)' <=> \A k \in Keys : Sound(entries'[k], Base(k))
  BY DEF WaitOfLastFailure, StormsDoNotExtend, Sound, Base, Duration

(* RecordFailure keeps an entry sound and never shortens what is left of a   *)
(* cooldown; afterwards at least the base wait minus the herd window is left.*)
LEMMA RecordKeepsSound ==
  ASSUME NEW e \in Entry, NEW d \in HerdWindow .. MaxCooldown, Sound(e, d)
  PROVE  /\ RecordFailure(e, d) \in Entry
         /\ Sound(RecordFailure(e, d), d)
         /\ RecordFailure(e, d).left >= e.left
         /\ RecordFailure(e, d).left > d - HerdWindow
<1> USE Durations DEF Entry, Sound
<1>1. CASE e.age < HerdWindow
  <2>1. e.left # 0
    BY <1>1
  <2>2. RecordFailure(e, d) = [e EXCEPT !.left = e.left]
    BY <1>1, <2>1 DEF RecordFailure
  <2>3. RecordFailure(e, d) = e
    BY <2>2
  <2> QED
    BY <1>1, <2>3
<1>2. CASE ~ (e.age < HerdWindow)
  <2>1. Backoff(d, e.wait) \in d .. MaxCooldown /\ Backoff(d, e.wait) >= e.wait
    BY DEF Backoff, Least
  <2>2. RecordFailure(e, d) = [left |-> Backoff(d, e.wait), wait |-> Backoff(d, e.wait), age |-> 0]
    BY <1>2 DEF RecordFailure
  <2> HIDE DEF Backoff
  <2>3. e.left <= e.wait
    BY <1>2
  <2> QED
    BY <2>1, <2>2, <2>3
<1> QED
  BY <1>1, <1>2

(* A tick keeps an entry sound. *)
LEMMA TickKeepsSound ==
  ASSUME NEW e \in Entry, NEW d \in HerdWindow .. MaxCooldown, Sound(e, d)
  PROVE  /\ Aged(e) \in Entry
         /\ Sound(Aged(e), d)
         /\ Aged(e).left = IF e.left > 0 THEN e.left - 1 ELSE 0
<1> USE Durations DEF Entry, Sound
<1> DEFINE left == IF e.left > 0 THEN e.left - 1 ELSE 0
           age == Least(e.age + 1, HerdWindow)
<1>1. left \in 0..MaxCooldown /\ age \in 0..HerdWindow
  BY DEF Least
<1>3. age = IF e.age + 1 < HerdWindow THEN e.age + 1 ELSE HerdWindow
  BY DEF Least
<1>4. Aged(e) = [e EXCEPT !.left = left, !.age = age]
  BY DEF Aged
<1> HIDE DEF age
<1>5. Aged(e) \in Entry /\ Aged(e).left = left /\ Aged(e).wait = e.wait /\ Aged(e).age = age
  BY <1>1, <1>4
<1>2. e.age < HerdWindow => e.left > 0
  OBVIOUS
<1> QED
  BY <1>2, <1>3, <1>5

(* No entry at all is sound.                                                 *)
LEMMA NoEntrySound ==
  NoEntry \in Entry /\ \A d \in Nat : Sound(NoEntry, d)
  BY Durations DEF Entry, Sound, NoEntry

-----------------------------------------------------------------------------
(* The steps.                                                                *)

(* The positions of the sweep are those of its list of targets.              *)
LEMMA TargetFacts ==
  /\ Positions = 1 .. Len(Targets) /\ Len(Targets) \in Nat /\ 1 \in Positions
  /\ \A i \in Positions : i \in Int
  BY TargetsAssumption DEF Positions

(* The parts of the invariant that are about the tracker, entry by entry.    *)
Tracker(entry, missed) ==
  /\ entry \in [Keys -> Entry]
  /\ missed \in [Positions -> 0..MaxCooldown]
  /\ \A k \in Keys : Sound(entry[k], Base(k))
  /\ \A i \in Positions :
       /\ entry[Key("model", i)].left + missed[i] > ModelCooldown - HerdWindow
       /\ entry[Key("model", i)].left > 0 =>
            entry[Key("model", i)].left + missed[i] <= MaxCooldown

(* The invariant is that of the types and of the tracker.                    *)
LEMMA TrackerOfIInv ==
  RoutingIInv <=> TypeOK /\ Tracker(entries, missedAge)
  BY SoundEntries DEF RoutingIInv, LockoutOfLastMiss, Tracker, TypeOK, Entry

(* The same after a step.                                                    *)
LEMMA TrackerOfIInvAfter ==
  TypeOK' /\ Tracker(entries', missedAge') => RoutingIInv'
<1> SUFFICES ASSUME TypeOK', Tracker(entries', missedAge') PROVE RoutingIInv'
  OBVIOUS
<1>1. (WaitOfLastFailure /\ StormsDoNotExtend)'
  BY SoundEntriesAfter DEF Tracker
<1>2. LockoutOfLastMiss'
  BY DEF LockoutOfLastMiss, Tracker, Key
<1> QED
  BY <1>1, <1>2 DEF RoutingIInv

(* Nothing has failed yet.                                                   *)
LEMMA RoutingInitIInv == Init => RoutingIInv
<1> SUFFICES ASSUME Init PROVE RoutingIInv
  OBVIOUS
<1>1. NoEntry \in Entry /\ NoEntry.left = 0 /\ \A k \in Keys : Sound(NoEntry, Base(k))
  BY NoEntrySound, Durations DEF NoEntry
<1>2. TypeOK
  BY <1>1, TargetFacts, Durations DEF Init, TypeOK, Entry
<1>3. \A i \in Positions : Key("model", i) \in Keys
  BY Durations DEF Scopes
<1>4. MaxCooldown > ModelCooldown - HerdWindow
  BY CooldownAssumption
<1>5. Tracker(entries, missedAge)
  BY <1>1, <1>3, <1>4, Durations DEF Init, Tracker
<1> QED
  BY <1>2, <1>5, TrackerOfIInv

(* A step that records nothing and waits for nothing leaves the tracker.     *)
LEMMA OtherSteps ==
  ASSUME RoutingIInv, NEW r \in Requests,
         Begin(r) \/ Unresolved(r) \/ Refused(r) \/ TryNext(r) \/ Finish(r) \/ Cancel(r)
  PROVE  RoutingIInv'
<1>1. TypeOK
  BY DEF RoutingIInv
<1>2. UNCHANGED <<entries, missedAge>>
  BY DEF Begin, Unresolved, Refused, TryNext, Finish, Cancel
<1>3. TypeOK'
  <2>1. CASE TryNext(r)
    BY <1>1, <2>1, TargetFacts DEF TryNext, TypeOK
  <2>2. CASE Begin(r) \/ Unresolved(r) \/ Refused(r) \/ Finish(r) \/ Cancel(r)
    BY <1>1, <2>2, TargetFacts DEF Begin, Unresolved, Refused, Finish, Cancel, TypeOK
  <2> QED
    BY <2>1, <2>2
<1> QED
  BY <1>2, <1>3, TrackerOfIInv, TrackerOfIInvAfter

(* Check deletes an expired entry: nothing is left of its wait, and a sound  *)
(* entry with nothing left is older than the herd window.                    *)
LEMMA PassedStep ==
  ASSUME RoutingIInv, NEW r \in Requests, Passed(r)
  PROVE  RoutingIInv'
<1> DEFINE k == Key(pc[r], pos[r])
<1>1. TypeOK /\ Tracker(entries, missedAge)
  BY TrackerOfIInv
<1>2. k \in Keys
  BY <1>1, Durations DEF Passed, TypeOK, Scopes
<1>3. entries' = [entries EXCEPT ![k] = NoEntry] /\ missedAge' = missedAge
  BY DEF Passed
<1>4. entries[k].left = 0 /\ NoEntry.left = 0
  <2>1. entries[k].left \in Nat
    BY <1>1, <1>2, Durations DEF Tracker, Entry
  <2> QED
    BY <2>1 DEF Passed, Active, NoEntry
<1> HIDE DEF k
<1>5. entries' \in [Keys -> Entry]
  BY <1>1, <1>3, NoEntrySound DEF Tracker
<1>6. TypeOK'
  BY <1>1, <1>3, <1>5 DEF Passed, TypeOK, Entry
<1>7. \A j \in Keys : Sound(entries'[j], Base(j)) /\ entries'[j].left = entries[j].left
  <2> SUFFICES ASSUME NEW j \in Keys
               PROVE  Sound(entries'[j], Base(j)) /\ entries'[j].left = entries[j].left
    OBVIOUS
  <2>1. CASE j = k
    BY <1>1, <1>2, <1>3, <1>4, <2>1, NoEntrySound, Durations DEF Tracker
  <2>2. CASE j # k
    BY <1>1, <1>2, <1>3, <2>2 DEF Tracker
  <2> QED
    BY <2>1, <2>2
<1>8. \A i \in Positions : Key("model", i) \in Keys
  BY Durations DEF Scopes
<1>9. Tracker(entries', missedAge')
  BY <1>1, <1>3, <1>5, <1>7, <1>8 DEF Tracker
<1> QED
  BY <1>6, <1>9, TrackerOfIInvAfter

(* A failure is recorded: what is left of the key's cooldown does not        *)
(* shrink, and a 404 starts the age of the model's last miss again.          *)
LEMMA CallEndsStep ==
  ASSUME RoutingIInv, NEW r \in Requests, CallEnds(r)
  PROVE  RoutingIInv'
<1>1. TypeOK /\ Tracker(entries, missedAge)
  BY TrackerOfIInv
<1>2. PICK status \in {"ok", "denied", "limited", "missing", "other"} :
        /\ entries' = Recorded(status, pos[r])
        /\ missedAge' = [i \in Positions |->
                           IF status = "missing" /\ Key("model", i) = Key("model", pos[r])
                           THEN 0 ELSE missedAge[i]]
  BY DEF CallEnds
<1>3. missedAge' \in [Positions -> 0..MaxCooldown]
  BY <1>1, <1>2, Durations DEF TypeOK
<1>4. entries' \in [Keys -> Entry] => TypeOK'
  <2>1. last' \in [Requests -> {"none", "ok", "failover", "final"}]
    BY <1>1 DEF CallEnds, TypeOK
  <2>2. pc' \in [Requests -> {"idle", "provider", "model", "calling", "sweep"}]
    BY <1>1 DEF CallEnds, TypeOK
  <2> QED
    BY <1>1, <1>3, <2>1, <2>2 DEF CallEnds, TypeOK, Entry
<1>5. CASE status \notin {"denied", "limited", "missing"}
  <2>1. entries' = entries /\ missedAge' = missedAge
    BY <1>1, <1>2, <1>5 DEF Recorded, TypeOK
  <2> QED
    BY <1>1, <1>4, <2>1, TrackerOfIInvAfter DEF Tracker
<1>6. CASE status \in {"denied", "limited", "missing"}
  <2> DEFINE scope == ScopeOfStatus(status)
             k == Key(scope, pos[r])
             e == RecordFailure(entries[k], Duration(scope))
  <2>1. scope \in Scopes /\ (status = "missing" <=> scope = "model")
    BY <1>6 DEF ScopeOfStatus, Scopes
  <2>2. k \in Keys /\ k.scope = scope /\ Duration(scope) = Base(k)
    BY <1>1, <2>1, Durations DEF TypeOK, Base
  <2>3. entries' = [entries EXCEPT ![k] = e]
    BY <1>2, <1>6 DEF Recorded
  <2>4. /\ e \in Entry /\ Sound(e, Base(k))
        /\ e.left >= entries[k].left
        /\ e.left > Base(k) - HerdWindow
    BY <1>1, <2>2, Durations, RecordKeepsSound DEF Tracker
  <2> HIDE DEF e, k
  <2>5. entries' \in [Keys -> Entry]
    BY <1>1, <2>3, <2>4 DEF Tracker
  <2>6. \A j \in Keys : Sound(entries'[j], Base(j))
    BY <1>1, <2>2, <2>3, <2>4 DEF Tracker
  <2>7. \A i \in Positions :
          /\ entries'[Key("model", i)].left + missedAge'[i] > ModelCooldown - HerdWindow
          /\ entries'[Key("model", i)].left > 0 =>
               entries'[Key("model", i)].left + missedAge'[i] <= MaxCooldown
    <3> SUFFICES ASSUME NEW i \in Positions
                 PROVE  /\ entries'[Key("model", i)].left + missedAge'[i] > ModelCooldown - HerdWindow
                        /\ entries'[Key("model", i)].left > 0 =>
                             entries'[Key("model", i)].left + missedAge'[i] <= MaxCooldown
      OBVIOUS
    <3>1. Key("model", i) \in Keys /\ Key("model", i).scope = "model"
      BY Durations DEF Scopes
    <3>2. CASE Key("model", i) = k
      <4>1. status = "missing" /\ Base(k) = ModelCooldown
        BY <2>1, <2>2, <3>1, <3>2, Durations
      <4>2. missedAge'[i] = 0
        BY <1>2, <2>1, <3>2, <4>1 DEF k
      <4>3. entries'[k].left = e.left /\ e.left \in 0..MaxCooldown
        BY <1>1, <2>2, <2>3, <2>4 DEF Tracker, Entry
      <4> QED
        BY <2>4, <3>2, <4>1, <4>2, <4>3, Durations
    <3>3. CASE Key("model", i) # k
      <4>1. entries'[Key("model", i)] = entries[Key("model", i)]
        BY <1>1, <2>3, <3>1, <3>3 DEF Tracker
      <4>2. missedAge'[i] = missedAge[i]
        BY <1>2, <2>1, <3>3 DEF k
      <4> QED
        BY <1>1, <4>1, <4>2 DEF Tracker
    <3> QED
      BY <3>2, <3>3
  <2>8. Tracker(entries', missedAge')
    BY <1>3, <2>5, <2>6, <2>7 DEF Tracker
  <2> QED
    BY <1>4, <2>5, <2>8, TrackerOfIInvAfter
<1> QED
  BY <1>5, <1>6

(* Time passes for every key and every miss alike.                           *)
LEMMA TickStep ==
  ASSUME RoutingIInv, Tick
  PROVE  RoutingIInv'
<1>1. TypeOK /\ Tracker(entries, missedAge)
  BY TrackerOfIInv
<1>2. /\ entries' = [k \in Keys |-> Aged(entries[k])]
      /\ missedAge' = [i \in Positions |-> Least(missedAge[i] + 1, MaxCooldown)]
  BY DEF Tick
<1>3. \A k \in Keys :
        /\ Aged(entries[k]) \in Entry
        /\ Sound(Aged(entries[k]), Base(k))
        /\ Aged(entries[k]).left = IF entries[k].left > 0 THEN entries[k].left - 1 ELSE 0
  BY <1>1, Durations, TickKeepsSound DEF Tracker
<1>4. \A i \in Positions :
        missedAge'[i] = IF missedAge[i] + 1 < MaxCooldown THEN missedAge[i] + 1 ELSE MaxCooldown
  BY <1>2 DEF Least
<1>5. missedAge' \in [Positions -> 0..MaxCooldown]
  BY <1>1, <1>2, Durations DEF Tracker, Least
<1>6. entries' \in [Keys -> Entry] /\ \A k \in Keys : Sound(entries'[k], Base(k))
  BY <1>2, <1>3
<1>7. TypeOK'
  BY <1>1, <1>5, <1>6 DEF Tick, TypeOK, Entry
<1>8. \A i \in Positions :
        /\ entries'[Key("model", i)].left + missedAge'[i] > ModelCooldown - HerdWindow
        /\ entries'[Key("model", i)].left > 0 =>
             entries'[Key("model", i)].left + missedAge'[i] <= MaxCooldown
  <2> SUFFICES ASSUME NEW i \in Positions
               PROVE  /\ entries'[Key("model", i)].left + missedAge'[i] > ModelCooldown - HerdWindow
                      /\ entries'[Key("model", i)].left > 0 =>
                           entries'[Key("model", i)].left + missedAge'[i] <= MaxCooldown
    OBVIOUS
  <2> DEFINE k == Key("model", i)
  <2>1. k \in Keys
    BY Durations DEF Scopes
  <2> HIDE DEF k
  <2>2. entries[k].left \in 0..MaxCooldown /\ missedAge[i] \in 0..MaxCooldown
    BY <1>1, <2>1 DEF Tracker, Entry
  <2>3. entries'[k].left = IF entries[k].left > 0 THEN entries[k].left - 1 ELSE 0
    BY <1>2, <1>3, <2>1
  <2>4. /\ entries[k].left + missedAge[i] > ModelCooldown - HerdWindow
        /\ entries[k].left > 0 => entries[k].left + missedAge[i] <= MaxCooldown
    BY <1>1 DEF Tracker, k
  <2>5. MaxCooldown > ModelCooldown - HerdWindow
    BY CooldownAssumption
  <2>6. /\ entries'[k].left + missedAge'[i] > ModelCooldown - HerdWindow
        /\ entries'[k].left > 0 => entries'[k].left + missedAge'[i] <= MaxCooldown
    BY <1>4, <2>2, <2>3, <2>4, <2>5, Durations
  <2> QED
    BY <2>6 DEF k
<1>9. Tracker(entries', missedAge')
  BY <1>5, <1>6, <1>8 DEF Tracker
<1> QED
  BY <1>7, <1>9, TrackerOfIInvAfter

(* The inductive invariant holds in every reachable state.                   *)
THEOREM RoutingInvariance == Spec => []RoutingIInv
<1>1. RoutingIInv /\ [Next]_vars => RoutingIInv'
  <2> SUFFICES ASSUME RoutingIInv, [Next]_vars PROVE RoutingIInv'
    OBVIOUS
  <2>1. CASE UNCHANGED vars
    <3>1. TypeOK'
      BY <2>1 DEF vars, RoutingIInv, TypeOK
    <3> QED
      BY <2>1, <3>1, TrackerOfIInv, TrackerOfIInvAfter DEF vars
  <2> QED
    BY <2>1, OtherSteps, PassedStep, CallEndsStep, TickStep DEF Next, RequestStep
<1> QED
  BY RoutingInitIInv, <1>1, PTL DEF Spec

(* Every variable keeps its type; a request's position stays in its list of  *)
(* targets (tryFailoverResponse, tryFailoverStream).                         *)
THEOREM RoutingTypeCorrect == Spec => []TypeOK
<1>1. RoutingIInv => TypeOK
  BY DEF RoutingIInv
<1> QED
  BY RoutingInvariance, <1>1, PTL

(* However many concurrent failures hit one key, its cooldown never runs     *)
(* longer than the wait of the last counted one (RecordFailure).             *)
THEOREM StormsCostOneWait == Spec => []StormsDoNotExtend
<1>1. RoutingIInv => StormsDoNotExtend
  BY DEF RoutingIInv
<1> QED
  BY RoutingInvariance, <1>1, PTL

(* A step of one request leaves the place of the others.                     *)
LEMMA OnlyOneMoves ==
  ASSUME TypeOK, NEW q \in Requests, NEW r \in Requests, q # r,
         Begin(q) \/ RequestStep(q) \/ Cancel(q)
  PROVE  pc'[r] = pc[r]
  BY DEF TypeOK, Begin, RequestStep, Cancel, Unresolved, Refused, Passed, CallEnds, TryNext, Finish

(* No request passes the check of a model before its lockout is over, and    *)
(* none is refused because of another model (Check, RecordFailure,           *)
(* RecordFailureFromStatusCode, routeResolvedModelCall).                     *)
THEOREM LockoutsHold == Spec => ModelLockoutLasts
<1> DEFINE Lockout(r) ==
      /\ (pc[r] = "model" /\ pc'[r] = "calling") => missedAge[pos[r]] > ModelCooldown - HerdWindow
      /\ (pc[r] = "model" /\ pc'[r] = "sweep") => missedAge[pos[r]] < MaxCooldown
<1>1. RoutingIInv /\ [Next]_vars => [\A r \in Requests : Lockout(r)]_vars
  <2> SUFFICES ASSUME RoutingIInv, Next, NEW r \in Requests, pc[r] = "model",
                      pc'[r] \in {"calling", "sweep"}
               PROVE  Lockout(r)
    OBVIOUS
  <2> DEFINE i == pos[r]
             k == Key("model", i)
  <2>1. TypeOK /\ Tracker(entries, missedAge)
    BY TrackerOfIInv
  <2>2. i \in Positions /\ k \in Keys
    BY <2>1, Durations DEF TypeOK, Scopes
  <2>3. /\ entries[k].left \in 0..MaxCooldown /\ missedAge[i] \in 0..MaxCooldown
        /\ entries[k].left + missedAge[i] > ModelCooldown - HerdWindow
        /\ entries[k].left > 0 => entries[k].left + missedAge[i] <= MaxCooldown
    BY <2>1, <2>2 DEF Tracker, Entry
  <2>4. Begin(r) \/ RequestStep(r) \/ Cancel(r)
    <3>1. ~ Tick
      BY DEF Tick
    <3> QED
      BY <2>1, <3>1, OnlyOneMoves DEF Next
  <2>5. Passed(r) \/ Refused(r)
    BY <2>1, <2>4 DEF Begin, RequestStep, Cancel, Unresolved, CallEnds, TryNext, Finish, TypeOK
  <2>6. CASE Passed(r)
    <3>1. ~ (entries[k].left > 0) /\ pc'[r] = "calling"
      BY <2>1, <2>6 DEF Passed, Active, TypeOK
    <3> QED
      BY <2>3, <3>1, Durations
  <2>7. CASE Refused(r)
    <3>1. entries[k].left > 0 /\ pc'[r] = "sweep"
      BY <2>1, <2>7 DEF Refused, Active, TypeOK
    <3> QED
      BY <2>3, <3>1, Durations
  <2> QED
    BY <2>5, <2>6, <2>7
<1> QED
  BY RoutingInvariance, <1>1, PTL DEF Spec, ModelLockoutLasts
=============================================================================
