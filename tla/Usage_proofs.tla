----------------------------- MODULE Usage_proofs -----------------------------
(* Machine-checked proofs about what usage is charged and reported: the calls *)
(* of realtime sessions, for any calls and sessions that attach to them and   *)
(* any size of the registry; and the usage table, its log and the reports by  *)
(* period, for any rows, zones, retention, chunks and pages.                  *)
EXTENDS Realtime, UsageReports, FiniteSetTheorems, WellFoundedInduction, TLAPS

-----------------------------------------------------------------------------
(* Realtime calls.                                                           *)

Observers == [state : {"none", "dialing", "attached", "ended"}, deadline : Nat, read : Nat]

Relays ==
  [phase : {"none", "refused", "relaying", "closing", "returned"},
   call : Calls \cup {"none"}, tap : BOOLEAN, read : Nat,
   conn : [Peers -> {"open", "left", "dead", "shut"}], loop : [Loops -> {"run", "done"}],
   beat : {"run", "wait", "done"}, cause : {"none", "close", "torn down", "heartbeat"}]

RealtimeTypes ==
  /\ rtClock \in 0 .. MaxClock
  /\ DOMAIN entries \subseteq Calls
  /\ born \in [Calls -> Nat]
  /\ observer \in [Calls -> Observers]
  /\ responses \in [Calls -> 0 .. MaxResponses]
  /\ logged \in [Calls \X (1 .. MaxResponses) -> Nat]
  /\ session \in [Sessions -> Relays]

(* The registry holds calls that were created, until their time is over, and *)
(* never more than its limit.                                                *)
EntriesAreCalls ==
  /\ \A c \in DOMAIN entries : born[c] <= MaxClock /\ entries[c] = born[c] + TTL
  /\ Cardinality(DOMAIN entries) <= MaxCalls

Created(c) == born[c] <= MaxClock

(* Calls were created in the past, and one that the registry no longer holds *)
(* is one that it may have forgotten.                                        *)
ForgottenForAReason ==
  \A c \in Calls :
    IF Created(c) THEN /\ born[c] <= rtClock
                       /\ c \in DOMAIN entries \/ Forgettable(c)
    ELSE observer[c].state = "none"

(* A session attached to a call records its usage only when the registry may *)
(* have forgotten the call.                                                  *)
TapsAreForgotten ==
  \A s \in Sessions :
    session[s].call # "none" =>
      Created(session[s].call) /\ (session[s].tap = TRUE => Forgettable(session[s].call))

(* What is recorded of a call that the registry can hold its observer has    *)
(* read.                                                                     *)
ObserverRecords ==
  \A c \in Calls, r \in 1 .. MaxResponses :
    ~Forgettable(c) /\ logged[<<c, r>>] # 0 =>
      /\ logged[<<c, r>>] = 1
      /\ r <= observer[c].read \/ observer[c].state = "ended"

(* An observer reads once it is attached.                                    *)
ReadsWhenAttached ==
  \A c \in Calls : observer[c].state \in {"none", "dialing"} => observer[c].read = 0

RealtimeIInv ==
  /\ RealtimeTypes /\ EntriesAreCalls /\ ForgottenForAReason
  /\ TapsAreForgotten /\ ObserverRecords /\ ReadsWhenAttached

-----------------------------------------------------------------------------
(* The registry.                                                             *)

(* Nothing has to be remembered before anything was created.                 *)
LEMMA RealtimeBegins == RTInit => RealtimeIInv
<1> SUFFICES ASSUME RTInit PROVE RealtimeIInv
  OBVIOUS
<1> USE RealtimeAssumption DEF RTInit
<1>1. NoSession \in Relays /\ NoObserver \in Observers
  BY DEF NoSession, Relays, NoObserver, Observers
<1>2. RealtimeTypes
  BY <1>1 DEF RealtimeTypes
<1>3. DOMAIN entries = {} /\ \A c \in Calls : born[c] = MaxClock + 1
  OBVIOUS
<1>4. EntriesAreCalls
  BY <1>3, FS_EmptySet DEF EntriesAreCalls
<1>5. ForgottenForAReason
  BY <1>3 DEF ForgottenForAReason, Created, NoObserver
<1>6. TapsAreForgotten
  BY DEF TapsAreForgotten, NoSession
<1>7. ObserverRecords /\ ReadsWhenAttached
  BY DEF ObserverRecords, ReadsWhenAttached, NoObserver
<1> QED
  BY <1>2, <1>4, <1>5, <1>6, <1>7 DEF RealtimeIInv

(* What the constants are.                                                   *)
LEMMA Limits ==
  /\ MaxClock \in Nat /\ TTL \in Nat /\ MaxCalls \in Nat /\ MaxCalls >= 1 /\ MaxResponses \in Nat
  /\ IsFiniteSet(Calls) /\ "none" \notin Calls
  BY RealtimeAssumption

(* Time and further calls do not make the registry remember a call.          *)
LEMMA ForgettableLasts ==
  ASSUME RealtimeTypes, rtClock' \in Nat, rtClock' >= rtClock,
         \A d \in Calls : Created(d) => born'[d] = born[d]
  PROVE  \A c \in Calls : Created(c) => Created(c)' /\ (Forgettable(c) => Forgettable(c)')
<1> SUFFICES ASSUME NEW c \in Calls, Created(c), Forgettable(c) PROVE Forgettable(c)'
  BY Limits DEF Created, RealtimeTypes
<1> DEFINE later == {d \in Calls \ {c} : born[d] \in born[c] .. MaxClock}
           laterNow == {d \in Calls \ {c} : born'[d] \in born'[c] .. MaxClock}
<1>1. later \subseteq laterNow
  BY Limits DEF RealtimeTypes, Created
<1>2. IsFiniteSet(laterNow)
  BY Limits, FS_Subset
<1>3. /\ Cardinality(later) \in Nat /\ Cardinality(laterNow) \in Nat
      /\ Cardinality(later) <= Cardinality(laterNow)
  BY <1>1, <1>2, FS_Subset, FS_CardinalityType
<1>4. CASE rtClock > born[c] + TTL
  BY Limits, <1>4 DEF Forgettable, RealtimeTypes
<1>5. CASE Cardinality(later) >= MaxCalls
  BY Limits, <1>3, <1>5 DEF Forgettable
<1> QED
  BY <1>4, <1>5 DEF Forgettable

(* A call that was not created is not forgotten.                             *)
LEMMA UncreatedIsRemembered ==
  ASSUME RealtimeTypes, NEW c \in Calls, ~Created(c)
  PROVE  ~Forgettable(c)
<1>1. {d \in Calls \ {c} : born[d] \in born[c] .. MaxClock} = {}
  BY Limits DEF RealtimeTypes, Created
<1>2. Cardinality({d \in Calls \ {c} : born[d] \in born[c] .. MaxClock}) = 0
  BY <1>1, FS_EmptySet
<1> QED
  BY <1>2, Limits DEF RealtimeTypes, Created, Forgettable

(* A created call that a lookup does not find may be forgotten.              *)
LEMMA NotFoundIsForgotten ==
  ASSUME RealtimeIInv, NEW c \in Calls, Created(c), ~Found(c)
  PROVE  Forgettable(c)
<1>1. CASE c \in DOMAIN entries
  BY <1>1, Limits DEF RealtimeIInv, RealtimeTypes, EntriesAreCalls, Found, Forgettable
<1>2. CASE c \notin DOMAIN entries
  BY <1>2 DEF RealtimeIInv, ForgottenForAReason
<1> QED
  BY <1>1, <1>2

Live == {d \in DOMAIN entries : rtClock <= entries[d]}

(* What register does to the registry: expired entries go, and when it is    *)
(* full, one that was created no later than all others.                      *)
LEMMA Registered ==
  ASSUME RealtimeIInv, NEW c \in Calls, ~Created(c), NEW after \in Register(entries, c)
  PROVE  \E kept \in SUBSET Live :
           /\ DOMAIN after = kept \cup {c}
           /\ \A d \in kept : after[d] = entries[d]
           /\ after[c] = rtClock + TTL
           /\ \/ kept = Live /\ Cardinality(Live) < MaxCalls
              \/ \E v \in Live : /\ kept = Live \ {v}
                                 /\ Cardinality(Live) >= MaxCalls
                                 /\ \A d \in Live : entries[v] <= entries[d]
<1> DEFINE live == Live
           pruned == PruneLocked(entries)
<1>1. DOMAIN pruned = live /\ \A d \in live : pruned[d] = entries[d]
  BY DEF PruneLocked, Keep, Live
<1>2. c \notin live
  BY Limits DEF RealtimeIInv, RealtimeTypes, EntriesAreCalls, Created, Live
<1>3. Cardinality(live) \in Nat
  BY Limits, FS_Subset, FS_CardinalityType DEF RealtimeIInv, RealtimeTypes, Live
<1> DEFINE room == IF c \notin DOMAIN pruned /\ Cardinality(DOMAIN pruned) >= MaxCalls
                   THEN EvictSoonestLocked(pruned) ELSE {pruned}
<1>4. PICK r \in room : after = [d \in DOMAIN r \cup {c} |-> IF d = c THEN rtClock + TTL ELSE r[d]]
  BY DEF Register
<1>5. CASE Cardinality(live) < MaxCalls
  <2>1. r = pruned
    BY <1>1, <1>3, <1>4, <1>5, Limits
  <2>2. /\ DOMAIN after = live \cup {c} /\ after[c] = rtClock + TTL
        /\ \A d \in live : after[d] = entries[d]
    BY <2>1, <1>1, <1>2, <1>4
  <2> QED
    BY <2>2, <1>5
<1>6. CASE Cardinality(live) >= MaxCalls
  <2>1. r \in EvictSoonestLocked(pruned)
    BY <1>1, <1>2, <1>4, <1>6
  <2>2. PICK v \in live : /\ \A d \in live : entries[v] <= entries[d]
                          /\ r = Keep(pruned, live \ {v})
    BY <2>1, <1>1 DEF EvictSoonestLocked
  <2>3. DOMAIN r = live \ {v} /\ \A d \in live \ {v} : r[d] = entries[d]
    BY <2>2, <1>1 DEF Keep
  <2>4. /\ DOMAIN after = (live \ {v}) \cup {c} /\ after[c] = rtClock + TTL
        /\ \A d \in live \ {v} : after[d] = entries[d]
    BY <2>3, <1>2, <1>4
  <2> QED
    BY <2>2, <2>4, <1>6
<1>7. Cardinality(live) < MaxCalls \/ Cardinality(live) >= MaxCalls
  BY <1>3, Limits
<1> QED
  BY <1>5, <1>6, <1>7 DEF live

-----------------------------------------------------------------------------
(* Steps.                                                                    *)

(* Creating a call: the registry may forget another one for it.              *)
LEMMA CreationKeeps ==
  ASSUME RealtimeIInv, NEW c \in Calls, RealtimeCalls(c)
  PROVE  RealtimeIInv'
<1>t. /\ RealtimeTypes /\ EntriesAreCalls /\ ForgottenForAReason
      /\ TapsAreForgotten /\ ObserverRecords /\ ReadsWhenAttached
  BY DEF RealtimeIInv
<1>a. ~Created(c) /\ born' = [born EXCEPT ![c] = rtClock] /\ UNCHANGED <<rtClock, responses, logged, session>>
  BY <1>t, Limits DEF RealtimeCalls, Created, RealtimeTypes
<1>b. rtClock \in Nat /\ rtClock <= MaxClock /\ born \in [Calls -> Nat]
  BY <1>t, Limits DEF RealtimeTypes
<1>c. \A d \in Calls : born'[d] = IF d = c THEN rtClock ELSE born[d]
  BY <1>t, <1>a, <1>b
<1>1. \A d \in Calls : Created(d) => Created(d)' /\ (Forgettable(d) => Forgettable(d)')
  BY <1>t, <1>a, <1>b, <1>c, ForgettableLasts
<1> DEFINE live == Live
<1>d. entries' \in Register(entries, c)
  BY DEF RealtimeCalls
<1>2. PICK kept \in SUBSET live :
        /\ DOMAIN entries' = kept \cup {c}
        /\ \A d \in kept : entries'[d] = entries[d]
        /\ entries'[c] = rtClock + TTL
        /\ \/ kept = live /\ Cardinality(live) < MaxCalls
           \/ \E v \in live : /\ kept = live \ {v}
                              /\ Cardinality(live) >= MaxCalls
                              /\ \A d \in live : entries[v] <= entries[d]
  BY <1>t, <1>a, <1>d, Registered
<1>3. /\ observer' \in [Calls -> Observers]
      /\ \A d \in Calls : /\ observer'[d].read = observer[d].read
                          /\ d # c => observer'[d] = observer[d]
                          /\ observer'[d].state = "ended" <=> observer[d].state = "ended"
  <2>1. observer[c].state = "none"
    BY <1>t, <1>a DEF ForgottenForAReason
  <2>2. CASE UNCHANGED observer
    BY <1>t, <2>2 DEF RealtimeTypes
  <2>3. CASE StartObserver(c)
    <3> DEFINE begun == [observer[c] EXCEPT !.state = "dialing", !.deadline = rtClock + TTL]
    <3>1. observer' = [observer EXCEPT ![c] = begun]
      BY <2>3 DEF StartObserver
    <3>2. begun \in Observers /\ begun.read = observer[c].read /\ begun.state = "dialing"
      <4>1. observer[c] \in Observers /\ rtClock + TTL \in Nat
        BY <1>t, <1>b, Limits DEF RealtimeTypes
      <4> QED
        BY <4>1 DEF Observers
    <3> QED
      BY <1>t, <2>1, <3>1, <3>2 DEF RealtimeTypes
  <2> QED
    BY <2>2, <2>3 DEF RealtimeCalls
<1> HIDE DEF live
<1>4. RealtimeTypes'
  <2>1. DOMAIN entries' \subseteq Calls
    BY <1>t, <1>2 DEF live, Live, RealtimeTypes
  <2>2. born' \in [Calls -> Nat] /\ rtClock' \in 0 .. MaxClock
    BY <1>t, <1>a, <1>b DEF RealtimeTypes
  <2> QED
    BY <1>t, <1>a, <1>3, <2>1, <2>2 DEF RealtimeTypes
<1>5. live \subseteq DOMAIN entries /\ IsFiniteSet(DOMAIN entries) /\ IsFiniteSet(live) /\ c \notin live
      /\ Cardinality(live) \in Nat /\ Cardinality(live) <= MaxCalls
  <2>1. live \subseteq DOMAIN entries /\ DOMAIN entries \subseteq Calls /\ c \notin live
    BY <1>t, <1>a DEF RealtimeTypes, EntriesAreCalls, Created, Live, live
  <2>2. IsFiniteSet(DOMAIN entries)
    BY <2>1, FS_Subset, Limits
  <2>3. IsFiniteSet(live) /\ Cardinality(live) <= Cardinality(DOMAIN entries)
    BY <2>1, <2>2, FS_Subset
  <2> QED
    BY <1>t, <2>1, <2>2, <2>3, FS_CardinalityType, Limits DEF EntriesAreCalls
<1>6. \A v \in live : /\ IsFiniteSet(live \ {v})
                      /\ Cardinality((live \ {v}) \cup {c}) = Cardinality(live)
  <2> SUFFICES ASSUME NEW v \in live
               PROVE  IsFiniteSet(live \ {v}) /\ Cardinality((live \ {v}) \cup {c}) = Cardinality(live)
    OBVIOUS
  <2>1. IsFiniteSet(live \ {v}) /\ Cardinality(live \ {v}) = Cardinality(live) - 1
    BY <1>5, FS_RemoveElement
  <2>2. Cardinality((live \ {v}) \cup {c}) = Cardinality(live \ {v}) + 1
    BY <2>1, <1>5, FS_AddElement
  <2> QED
    BY <2>1, <2>2, <1>5
<1>7. EntriesAreCalls'
  <2>1. \A d \in DOMAIN entries' : born'[d] <= MaxClock /\ entries'[d] = born'[d] + TTL
    BY <1>t, <1>a, <1>b, <1>c, <1>2, <1>5, Limits DEF EntriesAreCalls, RealtimeTypes
  <2>2. Cardinality(DOMAIN entries') <= MaxCalls
    <3>1. CASE kept = live /\ Cardinality(live) < MaxCalls
      <4>1. Cardinality(live \cup {c}) = Cardinality(live) + 1
        BY <1>5, FS_AddElement
      <4> QED
        BY <4>1, <3>1, <1>2, <1>5, Limits
    <3>2. CASE \E v \in live : kept = live \ {v}
      BY <3>2, <1>2, <1>5, <1>6
    <3> QED
      BY <3>1, <3>2, <1>2
  <2> QED
    BY <1>t, <1>a, <2>1, <2>2, Limits DEF EntriesAreCalls
<1>8. ForgottenForAReason'
  <2> SUFFICES ASSUME NEW d \in Calls
               PROVE  IF Created(d)' THEN born'[d] <= rtClock' /\ (d \in DOMAIN entries' \/ Forgettable(d)')
                      ELSE observer'[d].state = "none"
    BY Limits DEF ForgottenForAReason
  <2>1. CASE d = c
    BY <1>t, <2>1, <1>a, <1>b, <1>c, <1>2, Limits DEF Created
  <2>2. CASE d # c /\ ~Created(d)
    BY <1>t, <2>2, <1>a, <1>c, <1>3 DEF Created, ForgottenForAReason
  <2>3. CASE d # c /\ Created(d) /\ d \in kept
    BY <1>t, <2>3, <1>1, <1>2, <1>a, <1>c DEF ForgottenForAReason
  <2>4. CASE d # c /\ Created(d) /\ d \notin DOMAIN entries
    BY <1>t, <2>4, <1>1, <1>a, <1>c DEF ForgottenForAReason
  <2>5. CASE d # c /\ Created(d) /\ d \in DOMAIN entries \ live
    <3>1. Forgettable(d)
      BY <2>5, <1>t, Limits DEF live, Live, Forgettable, EntriesAreCalls, RealtimeTypes
    <3> QED
      BY <1>t, <3>1, <2>5, <1>1, <1>a, <1>c DEF ForgottenForAReason
  <2>6. CASE d # c /\ Created(d) /\ d \in live \ kept
    <3>1. /\ kept = live \ {d} /\ Cardinality(live) >= MaxCalls
          /\ \A e \in live : entries[d] <= entries[e]
      BY <2>6, <1>2
    <3> DEFINE later == {e \in Calls \ {d} : born'[e] \in born'[d] .. MaxClock}
    <3>2. (live \ {d}) \cup {c} \subseteq later
      BY <1>t, <3>1, <2>6, <1>a, <1>b, <1>c, <1>5, Limits DEF EntriesAreCalls, RealtimeTypes, ForgottenForAReason
    <3>3. Cardinality((live \ {d}) \cup {c}) <= Cardinality(later)
      BY <3>2, FS_Subset, Limits
    <3>4. Cardinality(later) >= MaxCalls
      <4>1. Cardinality(later) \in Nat
        BY FS_Subset, FS_CardinalityType, Limits
      <4> QED
        BY <4>1, <3>1, <3>3, <1>5, <1>6, <2>6, Limits
    <3>5. Forgettable(d)'
      BY <3>4 DEF Forgettable
    <3> QED
      BY <1>t, <3>5, <2>6, <1>1, <1>a, <1>c DEF ForgottenForAReason
  <2> QED
    BY <2>1, <2>2, <2>3, <2>4, <2>5, <2>6
<1>9. TapsAreForgotten'
  BY <1>t, <1>a, <1>1 DEF TapsAreForgotten, RealtimeTypes, Relays
<1>10. ObserverRecords'
  BY <1>t, <1>a, <1>1, <1>3, UncreatedIsRemembered DEF ObserverRecords
<1>11. ReadsWhenAttached'
  BY <1>t, <1>3, <1>a DEF ReadsWhenAttached, ForgottenForAReason
<1> QED
  BY <1>4, <1>7, <1>8, <1>9, <1>10, <1>11 DEF RealtimeIInv

(* A step that creates no call: time only passes, entries only leave, each    *)
(* of a call that may be forgotten.                                          *)
LEMMA RegistryKeeps ==
  ASSUME RealtimeIInv, RealtimeTypes', UNCHANGED born, rtClock' >= rtClock,
         DOMAIN entries' \subseteq DOMAIN entries, \A c \in DOMAIN entries' : entries'[c] = entries[c],
         \A c \in DOMAIN entries \ DOMAIN entries' : Forgettable(c),
         \A c \in Calls : ~Created(c) => observer'[c] = observer[c]
  PROVE  /\ EntriesAreCalls' /\ ForgottenForAReason'
         /\ \A c \in Calls : Created(c) => Created(c)' /\ (Forgettable(c) => Forgettable(c)')
<1>t. RealtimeTypes /\ EntriesAreCalls /\ ForgottenForAReason
  BY DEF RealtimeIInv
<1>1. \A c \in Calls : Created(c) => Created(c)' /\ (Forgettable(c) => Forgettable(c)')
  <2>1. rtClock' \in Nat
    BY Limits DEF RealtimeTypes
  <2> QED
    BY <1>t, <2>1, ForgettableLasts
<1>2. EntriesAreCalls'
  <2>1. IsFiniteSet(DOMAIN entries)
    BY <1>t, FS_Subset, Limits DEF RealtimeTypes
  <2>2. Cardinality(DOMAIN entries') <= Cardinality(DOMAIN entries)
    BY <2>1, FS_Subset
  <2>3. Cardinality(DOMAIN entries) \in Nat /\ Cardinality(DOMAIN entries') \in Nat
    BY <2>1, FS_Subset, FS_CardinalityType
  <2> QED
    BY <1>t, <2>2, <2>3, Limits DEF EntriesAreCalls
<1>3. ForgottenForAReason'
  <2> SUFFICES ASSUME NEW c \in Calls
               PROVE  IF Created(c)' THEN born'[c] <= rtClock' /\ (c \in DOMAIN entries' \/ Forgettable(c)')
                      ELSE observer'[c].state = "none"
    BY DEF ForgottenForAReason
  <2>1. CASE Created(c)
    BY <1>t, <1>1, <2>1, Limits DEF ForgottenForAReason, RealtimeTypes
  <2>2. CASE ~Created(c)
    BY <1>t, <2>2 DEF ForgottenForAReason, Created
  <2> QED
    BY <2>1, <2>2
<1> QED
  BY <1>1, <1>2, <1>3

(* A step that records nothing.                                              *)
LEMMA SilentStepKeeps ==
  ASSUME RealtimeIInv, RealtimeTypes', UNCHANGED <<born, logged>>, rtClock' >= rtClock,
         DOMAIN entries' \subseteq DOMAIN entries, \A c \in DOMAIN entries' : entries'[c] = entries[c],
         \A c \in DOMAIN entries \ DOMAIN entries' : Forgettable(c),
         \A c \in Calls : /\ ~Created(c) => observer'[c] = observer[c]
                          /\ \/ observer'[c].state = "ended"
                             \/ /\ observer'[c].read >= observer[c].read
                                /\ observer[c].state # "ended"
                          /\ observer'[c].state \in {"none", "dialing"} => observer'[c].read = 0,
         \A s \in Sessions :
           \/ session'[s].call = "none"
           \/ session'[s].call = session[s].call /\ session'[s].tap = session[s].tap
           \/ Created(session'[s].call) /\ (session'[s].tap = TRUE => Forgettable(session'[s].call))
  PROVE  RealtimeIInv'
<1>t. RealtimeTypes /\ TapsAreForgotten /\ ObserverRecords
  BY DEF RealtimeIInv
<1>1. /\ EntriesAreCalls' /\ ForgottenForAReason'
      /\ \A c \in Calls : Created(c) => Created(c)' /\ (Forgettable(c) => Forgettable(c)')
  BY RegistryKeeps
<1>2. TapsAreForgotten'
  <2> SUFFICES ASSUME NEW s \in Sessions, NEW c, c = session'[s].call, c # "none"
               PROVE  Created(c)' /\ (session'[s].tap = TRUE => Forgettable(c)')
    BY DEF TapsAreForgotten, Created, Forgettable
  <2>1. c \in Calls
    BY DEF RealtimeTypes, Relays
  <2>2. Created(c) /\ (session'[s].tap = TRUE => Forgettable(c))
    BY <1>t DEF TapsAreForgotten
  <2> QED
    BY <1>1, <2>1, <2>2
<1>3. ObserverRecords'
  <2> SUFFICES ASSUME NEW c \in Calls, NEW r \in 1 .. MaxResponses, ~Forgettable(c)', logged'[<<c, r>>] # 0
               PROVE  logged'[<<c, r>>] = 1 /\ (r <= observer'[c].read \/ observer'[c].state = "ended")
    BY DEF ObserverRecords
  <2>1. ~Forgettable(c)
    BY <1>1, <1>t, UncreatedIsRemembered
  <2>2. logged[<<c, r>>] = 1 /\ (r <= observer[c].read \/ observer[c].state = "ended")
    BY <1>t, <2>1 DEF ObserverRecords
  <2>3. r \in Nat /\ observer[c].read \in Nat /\ observer'[c].read \in Nat
    BY <1>t, Limits DEF RealtimeTypes, Observers
  <2> QED
    BY <2>2, <2>3
<1>4. ReadsWhenAttached'
  BY DEF ReadsWhenAttached
<1> QED
  BY <1>1, <1>2, <1>3, <1>4 DEF RealtimeIInv

(* What a connection records: the observer in the order of the responses, a   *)
(* session only of a call that may be forgotten.                              *)
LEMMA RecordingKeeps ==
  ASSUME RealtimeIInv, RealtimeTypes', UNCHANGED <<rtClock, entries, born>>,
         NEW c \in Calls, NEW n \in 1 .. MaxResponses, Log(c, n),
         \A s \in Sessions : session'[s].call = session[s].call /\ session'[s].tap = session[s].tap,
         \/ UNCHANGED observer /\ Forgettable(c)
         \/ /\ Created(c) /\ observer[c].state = "attached" /\ n = observer[c].read + 1
            /\ observer'[c].read = n /\ observer'[c].state = "attached"
            /\ \A d \in Calls \ {c} : observer'[d] = observer[d]
  PROVE  RealtimeIInv'
<1>t. RealtimeTypes /\ TapsAreForgotten /\ ObserverRecords
  BY DEF RealtimeIInv
<1>u. ReadsWhenAttached
  BY DEF RealtimeIInv
<1>1. EntriesAreCalls' /\ ForgottenForAReason'
  <2>1. rtClock' >= rtClock
    BY <1>t, Limits DEF RealtimeTypes
  <2>2. \A d \in Calls : ~Created(d) => observer'[d] = observer[d]
    OBVIOUS
  <2> QED
    BY <2>1, <2>2, RegistryKeeps
<1>2. \A d \in Calls : (Created(d) <=> Created(d)') /\ (Forgettable(d) <=> Forgettable(d)')
  BY DEF Created, Forgettable
<1>3. TapsAreForgotten'
  BY <1>t, <1>2 DEF TapsAreForgotten, RealtimeTypes, Relays
<1>4. ObserverRecords'
  <2> SUFFICES ASSUME NEW d \in Calls, NEW r \in 1 .. MaxResponses, ~Forgettable(d), logged'[<<d, r>>] # 0
               PROVE  logged'[<<d, r>>] = 1 /\ (r <= observer'[d].read \/ observer'[d].state = "ended")
    BY <1>2 DEF ObserverRecords
  <2>1. logged' = [logged EXCEPT ![<<c, n>>] = @ + 1]
    BY DEF Log
  <2>2. r \in Nat /\ n \in Nat /\ observer[d].read \in Nat
    BY <1>t, Limits DEF RealtimeTypes, Observers
  <2>3. CASE d # c
    BY <1>t, <2>1, <2>2, <2>3 DEF ObserverRecords, RealtimeTypes
  <2>4. CASE d = c /\ r # n
    BY <1>t, <2>1, <2>2, <2>4 DEF ObserverRecords, RealtimeTypes
  <2>5. CASE d = c /\ r = n
    <3>1. logged[<<c, n>>] = 0
      BY <1>t, <2>2, <2>5 DEF ObserverRecords
    <3>2. logged'[<<c, n>>] = 1
      BY <1>t, <2>1, <3>1 DEF RealtimeTypes
    <3> QED
      BY <2>2, <2>5, <3>2
  <2> QED
    BY <2>3, <2>4, <2>5
<1>5. ReadsWhenAttached'
  BY <1>u DEF ReadsWhenAttached
<1> QED
  BY <1>1, <1>3, <1>4, <1>5 DEF RealtimeIInv

(* Time, the provider and the observer.                                      *)
LEMMA CallStepsKeep ==
  ASSUME RealtimeIInv,
         RTTick \/ \E c \in Calls : RealtimeCalls(c) \/ ObserverDial(c) \/ Respond(c)
                                    \/ ObserveFrame(c) \/ ObserverEnds(c)
  PROVE  RealtimeIInv'
<1>t. RealtimeTypes /\ ForgottenForAReason /\ ReadsWhenAttached
  BY DEF RealtimeIInv
<1>c. /\ rtClock \in Nat /\ rtClock >= rtClock
      /\ observer \in [Calls -> Observers] /\ responses \in [Calls -> 0 .. MaxResponses]
      /\ \A c \in Calls : /\ ~Created(c) => observer[c].state = "none"
                          /\ observer[c] \in Observers /\ responses[c] \in Nat
                          /\ observer[c].read \in Nat /\ observer[c].read >= observer[c].read
                          /\ observer[c].state \in {"none", "dialing"} => observer[c].read = 0
  BY <1>t, Limits DEF RealtimeTypes, ForgottenForAReason, ReadsWhenAttached, Observers
<1>1. CASE RTTick
  <2>1. rtClock' \in 0 .. MaxClock /\ rtClock' >= rtClock
    BY <1>t, <1>1, Limits DEF RTTick, RealtimeTypes
  <2>2. RealtimeTypes'
    BY <1>t, <1>1, <2>1 DEF RTTick, RealtimeTypes
  <2> QED
    BY <1>1, <1>c, <2>1, <2>2, SilentStepKeeps DEF RTTick
<1>2. ASSUME NEW c \in Calls, ObserverDial(c) PROVE RealtimeIInv'
  <2>1. PICK ok \in BOOLEAN :
          observer' = [observer EXCEPT ![c] = IF ok THEN [observer[c] EXCEPT !.state = "attached",
                                                                             !.read = responses[c]]
                                              ELSE ObserverEnded]
    BY <1>2 DEF ObserverDial
  <2> DEFINE dialed == IF ok THEN [observer[c] EXCEPT !.state = "attached", !.read = responses[c]]
                       ELSE ObserverEnded
  <2>2. dialed \in Observers /\ (dialed.state = "ended" \/ dialed.state = "attached")
    BY <1>c DEF Observers, ObserverEnded, NoObserver
  <2>3. \A d \in Calls : observer'[d] = IF d = c THEN dialed ELSE observer[d]
    BY <1>c, <2>1
  <2>4. observer[c].state = "dialing" /\ observer[c].read = 0
    BY <1>2, <1>c DEF ObserverDial
  <2>5. dialed.state = "attached" => dialed.read >= 0
    BY <1>c DEF ObserverEnded, NoObserver, Observers
  <2> HIDE DEF dialed
  <2>6. UNCHANGED <<rtClock, entries, born, responses, logged, session>>
    BY <1>2 DEF ObserverDial
  <2>7. RealtimeTypes'
    BY <1>t, <1>c, <2>1, <2>2, <2>6 DEF RealtimeTypes, dialed
  <2>8. \A d \in Calls : /\ ~Created(d) => observer'[d] = observer[d]
                         /\ \/ observer'[d].state = "ended"
                            \/ /\ observer'[d].read >= observer[d].read
                               /\ observer[d].state # "ended"
                         /\ observer'[d].state \in {"none", "dialing"} => observer'[d].read = 0
    BY <1>c, <2>2, <2>3, <2>4, <2>5
  <2> QED
    BY <1>c, <2>6, <2>7, <2>8, SilentStepKeeps
<1>3. ASSUME NEW c \in Calls, Respond(c) PROVE RealtimeIInv'
  <2>1. UNCHANGED <<rtClock, entries, born, observer, logged, session>>
    BY <1>3 DEF Respond
  <2>2. responses' \in [Calls -> 0 .. MaxResponses]
    BY <1>3, <1>c, Limits DEF Respond
  <2>3. RealtimeTypes'
    BY <1>t, <2>1, <2>2 DEF RealtimeTypes
  <2> QED
    BY <1>c, <2>1, <2>3, SilentStepKeeps
<1>4. ASSUME NEW c \in Calls, ObserveFrame(c) PROVE RealtimeIInv'
  <2> DEFINE n == observer[c].read + 1
             reading == [observer[c] EXCEPT !.read = n]
  <2>1. n \in 1 .. MaxResponses /\ reading \in Observers
    BY <1>4, <1>c, Limits DEF ObserveFrame, Observers
  <2>2. /\ UNCHANGED <<rtClock, entries, born, responses, session>>
        /\ observer' = [observer EXCEPT ![c] = reading] /\ Log(c, n)
        /\ observer[c].state = "attached"
    BY <1>4 DEF ObserveFrame
  <2>3. RealtimeTypes'
    BY <1>t, <2>1, <2>2 DEF RealtimeTypes, Log
  <2>4. reading.read = n /\ reading.state = "attached" /\ Created(c)
    BY <1>c, <2>2 DEF Observers
  <2>5. observer'[c] = reading /\ \A d \in Calls \ {c} : observer'[d] = observer[d]
    BY <1>c, <2>2
  <2> QED
    BY <2>1, <2>2, <2>3, <2>4, <2>5, RecordingKeeps
<1>5. ASSUME NEW c \in Calls, ObserverEnds(c) PROVE RealtimeIInv'
  <2>1. /\ UNCHANGED <<rtClock, entries, born, responses, logged, session>>
        /\ observer' = [observer EXCEPT ![c] = ObserverEnded]
        /\ observer[c].state \in {"dialing", "attached"}
    BY <1>5 DEF ObserverEnds
  <2>2. ObserverEnded \in Observers /\ ObserverEnded.state = "ended"
    BY DEF Observers, ObserverEnded, NoObserver
  <2>3. RealtimeTypes'
    BY <1>t, <2>1, <2>2 DEF RealtimeTypes
  <2>4. \A d \in Calls : /\ ~Created(d) => observer'[d] = observer[d]
                         /\ \/ observer'[d].state = "ended"
                            \/ /\ observer'[d].read >= observer[d].read
                               /\ observer[d].state # "ended"
                         /\ observer'[d].state \in {"none", "dialing"} => observer'[d].read = 0
    BY <1>c, <2>1, <2>2
  <2> QED
    BY <1>c, <2>1, <2>3, <2>4, SilentStepKeeps
<1> QED
  BY <1>1, <1>2, <1>3, <1>4, <1>5, CreationKeeps

(* A session that goes on is attached to the same call, or to none any more. *)
LEMMA SessionMoves ==
  ASSUME RealtimeIInv, NEW s \in Sessions, NEW state \in Relays,
         session' = [session EXCEPT ![s] = state],
         state.call = "none" \/ (state.call = session[s].call /\ state.tap = session[s].tap),
         UNCHANGED <<rtClock, entries, born, observer, responses, logged>>
  PROVE  RealtimeIInv'
<1>t. RealtimeTypes /\ ReadsWhenAttached
  BY DEF RealtimeIInv
<1>1. RealtimeTypes'
  BY <1>t DEF RealtimeTypes
<1>2. rtClock' >= rtClock
  BY <1>t, Limits DEF RealtimeTypes
<1>3. \A c \in Calls : /\ \/ observer'[c].state = "ended"
                          \/ /\ observer'[c].read >= observer[c].read
                             /\ observer[c].state # "ended"
                       /\ observer'[c].state \in {"none", "dialing"} => observer'[c].read = 0
  <2>1. \A c \in Calls : observer'[c] = observer[c] /\ observer[c].read \in Nat
    BY <1>t DEF RealtimeTypes, Observers
  <2>2. \A c \in Calls : observer[c].read >= observer[c].read
    BY <2>1
  <2> TAKE c \in Calls
  <2>3. observer[c].state = "ended" \/ observer[c].state # "ended"
    OBVIOUS
  <2>4. observer[c].state \in {"none", "dialing"} => observer[c].read = 0
    BY <1>t DEF ReadsWhenAttached
  <2>5. observer'[c] = observer[c] /\ observer[c].read >= observer[c].read
    BY <2>1, <2>2
  <2> QED
    BY <2>3, <2>4, <2>5
<1>4. \A z \in Sessions : \/ session'[z].call = "none"
                          \/ session'[z].call = session[z].call /\ session'[z].tap = session[z].tap
  BY <1>t DEF RealtimeTypes
<1> QED
  BY <1>1, <1>2, <1>3, <1>4, SilentStepKeeps

(* The relay of a session.                                                   *)
LEMMA RelayKeeps ==
  ASSUME RealtimeIInv, NEW s \in Sessions, PeerGoes(s) \/ SessionStep(s)
  PROVE  RealtimeIInv'
<1>1. session \in [Sessions -> Relays] /\ session[s] \in Relays
  BY DEF RealtimeIInv, RealtimeTypes
<1>2. UNCHANGED <<rtClock, entries, born, observer, responses, logged>>
  BY DEF PeerGoes, SessionStep, CopyEnds, Heartbeat, HeartbeatCancelled, FirstDone, RelayReturns
<1> SUFFICES \E state \in Relays :
               /\ session' = [session EXCEPT ![s] = state]
               /\ state.call = "none" \/ (state.call = session[s].call /\ state.tap = session[s].tap)
  BY <1>2, SessionMoves
<1> DEFINE old == session[s]
<1>3. CASE PeerGoes(s)
  <2>1. PICK p \in Peers, how \in {"left", "dead"} : session' = [session EXCEPT ![s].conn[p] = how]
    BY <1>3 DEF PeerGoes
  <2> DEFINE state == [old EXCEPT !.conn = [old.conn EXCEPT ![p] = how]]
  <2>2. session' = [session EXCEPT ![s] = state]
    BY <2>1
  <2>3. state \in Relays /\ state.call = old.call /\ state.tap = old.tap
    BY <1>1 DEF Relays
  <2> QED
    BY <2>2, <2>3
<1>4. ASSUME NEW l \in Loops, CopyEnds(s, l)
      PROVE  \E state \in Relays :
               /\ session' = [session EXCEPT ![s] = state]
               /\ state.call = "none" \/ (state.call = session[s].call /\ state.tap = session[s].tap)
  <2>1. PICK why \in {"close", "torn down"} : EndLoop(s, l, why)
    BY <1>4 DEF CopyEnds
  <2> DEFINE state == [old EXCEPT !.loop = [old.loop EXCEPT ![l] = "done"],
                                  !.cause = IF old.cause = "none" THEN why ELSE old.cause]
  <2>2. session' = [session EXCEPT ![s] = state]
    BY <2>1, <1>1 DEF EndLoop
  <2>3. state \in Relays /\ state.call = old.call /\ state.tap = old.tap
    BY <1>1 DEF Relays
  <2> QED
    BY <2>2, <2>3
<1>5. CASE Heartbeat(s)
  <2> DEFINE why == IF old.cause = "none" THEN "heartbeat" ELSE old.cause
             over == [old EXCEPT !.beat = "done", !.cause = why]
             waits == [old EXCEPT !.beat = "wait"]
  <2>1. session' = [session EXCEPT ![s] = over] \/ session' = [session EXCEPT ![s] = waits]
    BY <1>1, <1>5 DEF Heartbeat
  <2>2. why \in {"none", "close", "torn down", "heartbeat"}
    BY <1>1 DEF Relays
  <2>3. over \in Relays /\ over.call = old.call /\ over.tap = old.tap
    BY <1>1, <2>2 DEF Relays
  <2>4. waits \in Relays /\ waits.call = old.call /\ waits.tap = old.tap
    BY <1>1 DEF Relays
  <2> QED
    BY <2>1, <2>3, <2>4
<1>6. CASE HeartbeatCancelled(s)
  <2> DEFINE state == [old EXCEPT !.beat = "done"]
  <2>1. session' = [session EXCEPT ![s] = state]
    BY <1>6 DEF HeartbeatCancelled
  <2>2. state \in Relays /\ state.call = old.call /\ state.tap = old.tap
    BY <1>1 DEF Relays
  <2> QED
    BY <2>1, <2>2
<1>8. CASE FirstDone(s)
  <2> DEFINE shut == [p \in Peers |-> "shut"]
             state == [old EXCEPT !.phase = "closing", !.conn = shut]
  <2>1. session' = [session EXCEPT ![s] = state]
    BY <1>8 DEF FirstDone
  <2>2. state \in Relays /\ state.call = old.call /\ state.tap = old.tap
    <3>1. shut \in [Peers -> {"open", "left", "dead", "shut"}]
      OBVIOUS
    <3> HIDE DEF shut
    <3> QED
      BY <1>1, <3>1 DEF Relays
  <2> QED
    BY <2>1, <2>2
<1>7. CASE RelayReturns(s)
  <2> DEFINE state == [NoSession EXCEPT !.phase = "returned"]
  <2>1. session' = [session EXCEPT ![s] = state]
    BY <1>7 DEF RelayReturns
  <2>2. state \in Relays /\ state.call = "none"
    BY DEF Relays, NoSession
  <2> QED
    BY <2>1, <2>2
<1> QED
  BY <1>3, <1>4, <1>5, <1>6, <1>7, <1>8 DEF SessionStep

(* A frame that a session records is one of a call that may be forgotten.    *)
LEMMA CopyFrameKeeps ==
  ASSUME RealtimeIInv, NEW s \in Sessions, CopyFrame(s)
  PROVE  RealtimeIInv'
<1>1. /\ session \in [Sessions -> Relays] /\ session[s] \in Relays
      /\ RealtimeTypes /\ TapsAreForgotten
  BY DEF RealtimeIInv, RealtimeTypes
<1> DEFINE old == session[s]
           state == [old EXCEPT !.read = old.read + 1]
           c == old.call
<1>2. /\ session' = [session EXCEPT ![s] = state]
      /\ UNCHANGED <<rtClock, entries, born, observer, responses>>
      /\ c # "none" /\ old.read < responses[c]
      /\ IF old.tap THEN Log(c, old.read + 1) ELSE UNCHANGED logged
  BY DEF CopyFrame
<1>3. state \in Relays /\ state.call = old.call /\ state.tap = old.tap
  <2>1. old.read + 1 \in Nat
    <3>1. session[s].read \in Nat
      BY <1>1 DEF Relays
    <3> QED
      BY <3>1
  <2>2. state \in Relays
    BY <1>1, <2>1 DEF Relays
  <2>3. DOMAIN old = {"phase", "call", "tap", "read", "conn", "loop", "beat", "cause"}
    BY <1>1 DEF Relays
  <2>4. state.call = old.call /\ state.tap = old.tap
    BY <2>3, Zenon
  <2> QED
    BY <2>2, <2>4
<1>4. c \in Calls /\ old.tap \in BOOLEAN
  BY <1>1, <1>2 DEF Relays
<1>5. CASE old.tap = FALSE
  BY <1>2, <1>3, <1>5, SessionMoves
<1>6. CASE old.tap = TRUE
  <2>1. Forgettable(c) /\ Log(c, old.read + 1)
    BY <1>1, <1>2, <1>6 DEF TapsAreForgotten
  <2>2. old.read + 1 \in 1 .. MaxResponses
    <3>1. responses[c] \in 0 .. MaxResponses /\ old.read \in Nat
      BY <1>1, <1>4 DEF RealtimeTypes, Relays
    <3> QED
      BY <3>1, <1>2, Limits
  <2>3. RealtimeTypes'
    <3>1. session' \in [Sessions -> Relays]
      BY <1>1, <1>2, <1>3
    <3>2. logged' \in [Calls \X (1 .. MaxResponses) -> Nat]
      <4>1. \A d \in Calls, n \in 1 .. MaxResponses :
              Log(d, n) => logged' \in [Calls \X (1 .. MaxResponses) -> Nat]
        BY <1>1 DEF RealtimeTypes, Log
      <4> QED
        BY <4>1, <1>4, <2>1, <2>2
    <3> QED
      BY <1>1, <1>2, <3>1, <3>2 DEF RealtimeTypes
  <2>4. \A z \in Sessions : session'[z].call = session[z].call /\ session'[z].tap = session[z].tap
    BY <1>1, <1>2, <1>3
  <2> QED
    BY <1>2, <1>4, <2>1, <2>2, <2>3, <2>4, RecordingKeeps
<1> QED
  BY <1>4, <1>5, <1>6

(* A session that attaches to a call the registry finds records nothing; one  *)
(* that it does not find may be forgotten.                                    *)
LEMMA HandleKeeps ==
  ASSUME RealtimeIInv, NEW s \in Sessions, Handle(s)
  PROVE  RealtimeIInv'
<1>1. /\ session \in [Sessions -> Relays] /\ session[s] \in Relays
      /\ RealtimeTypes /\ ReadsWhenAttached
  BY DEF RealtimeIInv, RealtimeTypes
<1>2. UNCHANGED <<rtClock, born, observer, responses, logged>>
  BY DEF Handle
<1> DEFINE old == session[s]
           refused == [old EXCEPT !.phase = "refused"]
           opened(c, tap, read) ==
             [old EXCEPT !.phase = "relaying", !.call = c, !.tap = tap, !.read = read]
<1>3. /\ refused \in Relays /\ refused.call = old.call /\ refused.tap = old.tap
      /\ \A c \in Calls \cup {"none"}, tap \in BOOLEAN, read \in Nat :
           /\ opened(c, tap, read) \in Relays
           /\ opened(c, tap, read).call = c /\ opened(c, tap, read).tap = tap
  BY <1>1 DEF Relays
<1>4. CASE Open(s, "none", TRUE) /\ UNCHANGED entries
  <2>1. PICK state \in {opened("none", TRUE, 0), refused} : session' = [session EXCEPT ![s] = state]
    BY <1>1, <1>4 DEF Open
  <2>2. state \in Relays /\ (state.call = "none" \/ (state.call = old.call /\ state.tap = old.tap))
    <3>1. opened("none", TRUE, 0) \in Relays /\ opened("none", TRUE, 0).call = "none"
      BY <1>1 DEF Relays
    <3> HIDE DEF opened, refused
    <3> QED
      BY <1>3, <3>1, <2>1
  <2> QED
    BY <1>2, <1>4, <2>1, <2>2, SessionMoves
<1>5. ASSUME NEW c \in Calls, NEW model \in BOOLEAN, born[c] <= MaxClock,
             entries' = AfterLookup(c),
             IF Found(c) \/ model THEN Open(s, c, Taps(c))
             ELSE session' = [session EXCEPT ![s].phase = "refused"]
      PROVE  RealtimeIInv'
  <2>1. Created(c) /\ c # "none" /\ responses[c] \in Nat
    BY <1>1, <1>5, Limits DEF Created, RealtimeTypes
  <2>2. PICK state \in {opened(c, Taps(c), responses[c]), refused} : session' = [session EXCEPT ![s] = state]
    BY <1>1, <1>5, <2>1 DEF Open
  <2>3. Taps(c) \in BOOLEAN /\ (Taps(c) <=> ~Found(c))
    BY DEF Taps, Found
  <2>4. /\ state \in Relays
        /\ \/ state.call = old.call /\ state.tap = old.tap
           \/ state.call = c /\ state.tap = Taps(c)
    <3>1. opened(c, Taps(c), responses[c]) \in Relays
      BY <1>3, <2>1, <2>3
    <3>2. opened(c, Taps(c), responses[c]).call = c /\ opened(c, Taps(c), responses[c]).tap = Taps(c)
      <4>1. PICK tap \in BOOLEAN : tap = Taps(c)
        BY <2>3
      <4>2. opened(c, tap, responses[c]).call = c /\ opened(c, tap, responses[c]).tap = tap
        BY <1>1 DEF Relays
      <4> QED
        BY <4>1, <4>2
    <3> HIDE DEF opened, refused
    <3> QED
      BY <1>3, <3>1, <3>2, <2>2
  <2>5. ~Found(c) => Forgettable(c)
    BY <2>1, NotFoundIsForgotten
  <2>6. RealtimeTypes'
    BY <1>1, <1>2, <1>5, <2>2, <2>4 DEF RealtimeTypes, AfterLookup, Keep
  <2>7. /\ DOMAIN entries' \subseteq DOMAIN entries
        /\ \A d \in DOMAIN entries' : entries'[d] = entries[d]
        /\ \A d \in DOMAIN entries \ DOMAIN entries' : d = c /\ ~Found(c)
    BY <1>5 DEF AfterLookup, Keep
  <2>8. \A z \in Sessions :
          \/ session'[z].call = session[z].call /\ session'[z].tap = session[z].tap
          \/ session'[z].call = c /\ session'[z].tap = Taps(c)
    BY <1>1, <2>2, <2>4
  <2>9. rtClock' >= rtClock
    BY <1>1, <1>2, Limits DEF RealtimeTypes
  <2>10. \A d \in Calls : /\ \/ observer'[d].state = "ended"
                             \/ /\ observer'[d].read >= observer[d].read
                                /\ observer[d].state # "ended"
                          /\ observer'[d].state \in {"none", "dialing"} => observer'[d].read = 0
    <3>1. \A d \in Calls : observer'[d] = observer[d] /\ observer[d].read \in Nat
      BY <1>1, <1>2 DEF RealtimeTypes, Observers
    <3>2. \A d \in Calls : observer[d].read >= observer[d].read
      BY <3>1
    <3> TAKE d \in Calls
    <3>3. observer[d].state = "ended" \/ observer[d].state # "ended"
      OBVIOUS
    <3>4. observer[d].state \in {"none", "dialing"} => observer[d].read = 0
      BY <1>1 DEF ReadsWhenAttached
    <3>5. observer'[d] = observer[d] /\ observer[d].read >= observer[d].read
      BY <3>1, <3>2
    <3> QED
      BY <3>3, <3>4, <3>5
  <2> QED
    BY <1>2, <2>1, <2>3, <2>5, <2>6, <2>7, <2>8, <2>9, <2>10, SilentStepKeeps
<1> QED
  BY <1>4, <1>5 DEF Handle

-----------------------------------------------------------------------------
(* Theorems.                                                                 *)

(* The invariant of calls and sessions (registry.go, realtime_service.go).    *)
THEOREM RealtimeInvariance == RTSpec => []RealtimeIInv
<1>1. RealtimeIInv /\ [RTNext]_rtVars => RealtimeIInv'
  <2> SUFFICES ASSUME RealtimeIInv, [RTNext]_rtVars PROVE RealtimeIInv'
    OBVIOUS
  <2>1. CASE UNCHANGED rtVars
    <3> USE <2>1 DEF rtVars
    <3>1. (RealtimeTypes /\ EntriesAreCalls /\ ReadsWhenAttached)'
      BY DEF RealtimeIInv, RealtimeTypes, EntriesAreCalls, ReadsWhenAttached
    <3>2. (ForgottenForAReason /\ TapsAreForgotten /\ ObserverRecords)'
      BY DEF RealtimeIInv, ForgottenForAReason, TapsAreForgotten, ObserverRecords, Created, Forgettable
    <3> QED
      BY <3>1, <3>2 DEF RealtimeIInv
  <2> QED
    BY <2>1, CallStepsKeep, HandleKeeps, CopyFrameKeeps, RelayKeeps DEF RTNext
<1> QED
  BY <1>1, RealtimeBegins, PTL DEF RTSpec

(* A response of a call is recorded once, however many sessions attach to it  *)
(* at whatever moment, unless the registry may have forgotten the call (the   *)
(* tap decision of handle, register's eviction).                              *)
THEOREM ResponsesAreBilledOnce == RTSpec => []UsageCountedOnce
<1>1. RealtimeIInv => UsageCountedOnce
  BY Limits DEF RealtimeIInv, ObserverRecords, UsageCountedOnce
<1> QED
  BY <1>1, RealtimeInvariance, PTL

-----------------------------------------------------------------------------
(* The usage table.                                                          *)

-----------------------------------------------------------------------------
(* The order of the log.                                                     *)

(* The log orders rows strictly and totally.                                 *)
LEMMA LogIsOrdered ==
  /\ \A a \in Rows : ~logOrder(a, a)
  /\ \A a, b \in Rows : a # b => logOrder(a, b) \/ logOrder(b, a)
  /\ \A a, b, c \in Rows : logOrder(a, b) /\ logOrder(b, c) => logOrder(a, c)
<1>1. \A a \in Rows : a.id \in Nat /\ a.ts \in Nat
  BY ReportsAssumption
<1>2. \A a, b \in Rows : a # b => a.id # b.id
  BY ReportsAssumption
<1> QED
  BY <1>1, <1>2 DEF logOrder

(* A rank is a number, and a row before another has a smaller one.           *)
LEMMA RanksIncrease ==
  ASSUME NEW rows \in SUBSET Rows
  PROVE  /\ IsFiniteSet(rows)
         /\ \A a \in Rows : Rank(a, rows) \in Nat
         /\ \A a \in rows, b \in Rows : logOrder(a, b) => Rank(a, rows) < Rank(b, rows)
<1> DEFINE before(a) == {r \in rows : logOrder(r, a)}
<1>1. IsFiniteSet(rows)
  BY ReportsAssumption, FS_Subset
<1>2. \A a \in Rows : IsFiniteSet(before(a)) /\ Rank(a, rows) = Cardinality(before(a))
  BY <1>1, FS_Subset DEF Rank
<1>3. \A a \in Rows : Rank(a, rows) \in Nat
  BY <1>2, FS_CardinalityType
<1>4. ASSUME NEW a \in rows, NEW b \in Rows, logOrder(a, b)
      PROVE  Rank(a, rows) < Rank(b, rows)
  <2>1. before(a) \subseteq before(b)
    BY <1>4, LogIsOrdered
  <2>2. a \in before(b) /\ a \notin before(a)
    BY <1>4, LogIsOrdered
  <2>3. Cardinality(before(a)) <= Cardinality(before(b)) /\ Cardinality(before(a)) # Cardinality(before(b))
    BY <1>2, <2>1, <2>2, FS_Subset
  <2> QED
    BY <1>2, <1>3, <2>3
<1> QED
  BY <1>1, <1>3, <1>4

(* Rows take every rank below the rank of one of them.                       *)
LEMMA RanksAreTaken ==
  ASSUME NEW rows \in SUBSET Rows, NEW row \in rows, NEW k \in Nat, k <= Rank(row, rows)
  PROVE  \E r \in rows : Rank(r, rows) = k
<1> DEFINE rank(r) == Rank(r, rows)
           above == {n \in Nat : n >= k /\ \E r \in rows : rank(r) = n}
           less == OpToRel(<, Nat)
<1>1. \A r \in rows : rank(r) \in Nat
  BY RanksIncrease
<1>2. rank(row) \in above
  BY <1>1
<1>3. PICK n \in above : \A m \in above : ~(m < n)
  <2>1. IsWellFoundedOn(less, Nat) /\ above \subseteq Nat /\ above # {}
    BY <1>2, NatLessThanWellFounded
  <2>2. PICK n \in above : \A m \in above : ~(<<m, n>> \in less)
    BY <2>1, WFMin
  <2> QED
    BY <2>2 DEF OpToRel
<1>4. PICK r \in rows : rank(r) = n
  OBVIOUS
<1>5. SUFFICES ASSUME n > k PROVE FALSE
  BY <1>4
<1> DEFINE before == {x \in rows : logOrder(x, r)}
           rankOf == [x \in before |-> rank(x)]
<1>6. IsFiniteSet(before) /\ Cardinality(before) = n
  BY <1>4, RanksIncrease, FS_Subset DEF Rank
<1>7. \A x \in before : rank(x) \in 0 .. k - 1
  <2> TAKE x \in before
  <2>1. rank(x) \in Nat /\ rank(x) < n
    BY <1>1, <1>4, RanksIncrease
  <2> QED
    BY <1>3, <2>1
<1>8. rankOf \in Injection(before, 0 .. k - 1)
  <2>1. rankOf \in [before -> 0 .. k - 1]
    BY <1>7
  <2>2. \A x, y \in before : rank(x) = rank(y) => x = y
    BY <1>1, LogIsOrdered, RanksIncrease
  <2> QED
    BY <2>1, <2>2 DEF Injection, IsInjective
<1>9. IsFiniteSet(0 .. k - 1) /\ Cardinality(0 .. k - 1) = k
  BY FS_Interval
<1>10. Cardinality(before) <= Cardinality(0 .. k - 1)
  BY <1>8, <1>9, FS_Injection DEF ExistsInjection
<1> QED
  BY <1>5, <1>6, <1>9, <1>10

(* A page with fewer rows than its limit is the last one.                    *)
LEMMA ShortPageIsLast ==
  ASSUME NEW rows \in SUBSET Rows, NEW offset \in Nat, NEW row \in rows,
         Rank(row, rows) >= offset + Limit
  PROVE  ~(Cardinality(Page(rows, offset)) < Limit)
<1> DEFINE page == Page(rows, offset)
           places == offset .. offset + Limit - 1
           place == [r \in page |-> Rank(r, rows)]
<1>1. Limit \in Nat /\ Limit >= 1 /\ Rank(row, rows) \in Nat
  <2>1. row \in Rows
    OBVIOUS
  <2> QED
    BY <2>1, ReportsAssumption, RanksIncrease
<1>2. place \in [page -> places] /\ \A n \in places : \E r \in page : place[r] = n
  <2>1. \A n \in places : \E r \in rows : Rank(r, rows) = n
    BY <1>1, RanksAreTaken
  <2> QED
    BY <2>1 DEF Page
<1>3. IsFiniteSet(page)
  BY RanksIncrease, FS_Subset DEF Page
<1>4. Cardinality(places) <= Cardinality(page)
  <2>1. place \in Surjection(page, places)
    BY <1>2 DEF Surjection
  <2> QED
    BY <1>3, <2>1, FS_Surjection DEF ExistsSurjection
<1>5. Cardinality(places) = Limit
  <2>1. offset \in Int /\ offset + Limit - 1 \in Int
    BY <1>1
  <2>2. Cardinality(places) = IF offset > offset + Limit - 1 THEN 0 ELSE (offset + Limit - 1) - offset + 1
    BY <2>1, FS_Interval
  <2> QED
    BY <1>1, <2>2
<1>6. Cardinality(page) \in Nat
  BY <1>3, FS_CardinalityType
<1> QED
  BY <1>1, <1>4, <1>5, <1>6

-----------------------------------------------------------------------------
(* The walk through the log.                                                 *)

Fields == {"step", "offset", "first", "shown", "range", "periods", "split", "buckets", "groups"}

Asked(report) == query # <<>> /\ query[1].report = report

(* A row is inserted at most once: it is with the logger, in the batch, or    *)
(* has been in the table.                                                     *)
RowsAreInsertedOnce ==
  /\ flushed \subseteq Rows /\ batch \subseteq flushed /\ table \subseteq flushed
  /\ table \cap batch = {}
  /\ tick \in Nat

(* The steps of the log belong to it.                                        *)
LogSteps ==
  /\ DOMAIN result = Fields
  /\ query = <<>> => result.step = "idle"
  /\ result.step \in {"count", "page"} => Asked("log")
  /\ Asked("log") => result.step \in {"count", "page", "done"}

(* Of the rows that were there at first, those still to come are behind the   *)
(* offset, and none of the others will come back.                             *)
NothingIsPassedOver ==
  Asked("log") =>
    /\ result.offset \in Nat
    /\ result.first \subseteq flushed \ batch
    /\ \A r \in result.first : sqliteUsageConditions(r, query[1])
    /\ \A r \in result.first \cap table :
         \/ r \in result.shown
         \/ result.step # "done" /\ Rank(r, Selected(query[1])) >= result.offset

ReportsIInv == RowsAreInsertedOnce /\ LogSteps /\ NothingIsPassedOver

(* An empty table and no report.                                             *)
LEMMA ReportsBegin == ReportsInit => ReportsIInv
  BY DEF ReportsInit, ReportsIInv, RowsAreInsertedOnce, LogSteps, NothingIsPassedOver, NoResult, Asked, Fields

(* What the walk needs of a change of the table: rows of the first count do   *)
(* not come back, and no row before one that stays leaves.                    *)
LEMMA TableKeepsWalk ==
  ASSUME ReportsIInv, RowsAreInsertedOnce', UNCHANGED <<query, result>>,
         \A r \in flushed \ batch : r \in flushed' \ batch' /\ (r \in table' => r \in table),
         \A r \in table' : \A x \in table : logOrder(x, r) => x \in table'
  PROVE  ReportsIInv'
<1>1. RowsAreInsertedOnce /\ LogSteps /\ NothingIsPassedOver
  BY DEF ReportsIInv
<1>2. LogSteps'
  BY <1>1 DEF LogSteps, Asked
<1>3. NothingIsPassedOver'
  <2> SUFFICES ASSUME Asked("log") PROVE NothingIsPassedOver'
    BY DEF NothingIsPassedOver, Asked
  <2>1. /\ result.offset \in Nat /\ result.first \subseteq flushed \ batch
        /\ \A r \in result.first : sqliteUsageConditions(r, query[1])
        /\ result.first \subseteq flushed' \ batch' /\ result.first \cap table' \subseteq table
    BY <1>1 DEF NothingIsPassedOver
  <2>2. ASSUME NEW r \in result.first \cap table', r \notin result.shown
        PROVE  result.step # "done" /\ Rank(r, Selected(query[1])') >= result.offset
    <3> DEFINE now == Selected(query[1])
               later == Selected(query[1])'
               before == {x \in now : logOrder(x, r)}
               beforeLater == {x \in later : logOrder(x, r)}
    <3>1. result.step # "done" /\ Rank(r, now) >= result.offset
      BY <1>1, <2>1, <2>2 DEF NothingIsPassedOver
    <3>2. now \in SUBSET Rows /\ later \in SUBSET Rows /\ r \in Rows
      BY <1>1, <2>2 DEF Selected, RowsAreInsertedOnce
    <3>3. before \subseteq beforeLater
      BY <2>2 DEF Selected
    <3>4. IsFiniteSet(beforeLater)
      BY <3>2, RanksIncrease, FS_Subset
    <3>5. Rank(r, now) <= Rank(r, later)
      BY <3>3, <3>4, FS_Subset DEF Rank
    <3>6. Rank(r, now) \in Nat /\ Rank(r, later) \in Nat
      BY <3>2, RanksIncrease
    <3> QED
      BY <2>1, <3>1, <3>5, <3>6
  <2> QED
    BY <2>1, <2>2 DEF NothingIsPassedOver
<1> QED
  BY <1>2, <1>3 DEF ReportsIInv

(* The writer and the sweep.                                                 *)
LEMMA TableStepsKeep ==
  ASSUME ReportsIInv, Tick \/ WriteBatch \/ WriteChunk \/ cleanup
  PROVE  ReportsIInv'
<1>1. RowsAreInsertedOnce /\ UNCHANGED <<query, result>>
  BY DEF ReportsIInv, Tick, WriteBatch, WriteChunk, cleanup
<1>2. CASE Tick
  <2>1. tick' \in Nat /\ UNCHANGED <<table, batch, flushed>>
    BY <1>1, <1>2 DEF Tick, RowsAreInsertedOnce
  <2>2. RowsAreInsertedOnce'
    BY <1>1, <2>1 DEF RowsAreInsertedOnce
  <2> QED
    BY <1>1, <2>1, <2>2, TableKeepsWalk
<1>3. CASE WriteBatch
  <2>1. PICK written \in SUBSET {r \in Rows \ flushed : r.ts <= tick} :
          batch' = written /\ flushed' = flushed \cup written
    BY <1>3 DEF WriteBatch
  <2>2. table' = table /\ batch = {} /\ tick' = tick
    BY <1>3 DEF WriteBatch
  <2>3. RowsAreInsertedOnce'
    BY <1>1, <2>1, <2>2 DEF RowsAreInsertedOnce
  <2> QED
    BY <1>1, <2>1, <2>2, <2>3, TableKeepsWalk
<1>4. CASE WriteChunk
  <2>1. PICK chunk \in SUBSET batch :
          table' = table \cup chunk /\ batch' \subseteq batch \ chunk
          /\ UNCHANGED <<flushed, tick>>
    BY <1>4 DEF WriteChunk
  <2>2. RowsAreInsertedOnce'
    BY <1>1, <2>1 DEF RowsAreInsertedOnce
  <2> QED
    BY <1>1, <2>1, <2>2, TableKeepsWalk
<1>5. CASE cleanup
  <2>1. table' = {r \in table : r.ts >= tick - Retention} /\ UNCHANGED <<tick, batch, flushed>>
    BY <1>5 DEF cleanup
  <2>2. RowsAreInsertedOnce'
    BY <1>1, <2>1 DEF RowsAreInsertedOnce
  <2>3. \A r \in table' : \A x \in table : logOrder(x, r) => x \in table'
    <3> DEFINE oldest == tick - Retention
    <3>1. oldest \in Int /\ \A r \in table : r.ts \in Nat
      BY <1>1, ReportsAssumption DEF RowsAreInsertedOnce
    <3>2. table' = {r \in table : r.ts >= oldest}
      BY <2>1
    <3> HIDE DEF oldest
    <3>3. \A r, x \in table : logOrder(x, r) => x.ts >= r.ts
      BY <3>1 DEF logOrder
    <3> QED
      BY <3>1, <3>2, <3>3
  <2> QED
    BY <1>1, <2>1, <2>2, <2>3, TableKeepsWalk
<1> QED
  BY <1>2, <1>3, <1>4, <1>5

(* A step of another report, and the beginning and the end of any.           *)
LEMMA OtherReportsKeep ==
  ASSUME ReportsIInv, RangeDaily \/ SumDaily \/ SplitDaily \/ SumSummary \/ SplitSummary
                      \/ GetUsageByGroup \/ GetTokenThroughput
  PROVE  ReportsIInv'
<1>1. RowsAreInsertedOnce /\ LogSteps
  BY DEF ReportsIInv
<1>2. UNCHANGED <<tick, table, batch, flushed, query>>
  BY DEF RangeDaily, SumDaily, SplitDaily, SumSummary, SplitSummary, GetUsageByGroup,
         GetTokenThroughput, Step
<1>3. result.step \in {"range", "sums", "split", "totals", "segments", "groups", "buckets"}
  BY DEF RangeDaily, SumDaily, SplitDaily, SumSummary, SplitSummary, GetUsageByGroup, GetTokenThroughput
<1>4. ~Asked("log") /\ ~Asked("log")' /\ query # <<>>
  BY <1>1, <1>2, <1>3 DEF LogSteps, Asked
<1>5. DOMAIN result' = Fields /\ result'.step \in {"sums", "split", "segments", "done"}
  <2>1. DOMAIN result = Fields /\ "step" \in Fields
    BY <1>1 DEF LogSteps, Fields
  <2>2. CASE RangeDaily
    BY <2>1, <2>2 DEF RangeDaily, Step
  <2>3. CASE SumDaily
    BY <2>1, <2>3 DEF SumDaily, Step
  <2>4. CASE SplitDaily
    BY <2>1, <2>4 DEF SplitDaily, Step
  <2>5. CASE SumSummary \/ SplitSummary
    BY <2>1, <2>5 DEF SumSummary, SplitSummary, Step
  <2>6. CASE GetUsageByGroup
    BY <2>1, <2>6 DEF GetUsageByGroup, Step
  <2>7. CASE GetTokenThroughput
    BY <2>1, <2>7 DEF GetTokenThroughput, Step
  <2> QED
    BY <2>2, <2>3, <2>4, <2>5, <2>6, <2>7
<1>6. RowsAreInsertedOnce' /\ LogSteps' /\ NothingIsPassedOver'
  BY <1>1, <1>2, <1>4, <1>5 DEF RowsAreInsertedOnce, LogSteps, NothingIsPassedOver
<1> QED
  BY <1>6 DEF ReportsIInv

LEMMA AskingKeeps ==
  ASSUME ReportsIInv, Ask \/ Answer
  PROVE  ReportsIInv'
<1>1. RowsAreInsertedOnce'
  BY DEF ReportsIInv, RowsAreInsertedOnce, Ask, Answer, Return
<1>2. CASE Answer
  BY <1>1, <1>2 DEF Answer, Return, ReportsIInv, LogSteps, NothingIsPassedOver, Asked, NoResult, Fields
<1>3. CASE Ask
  <2>1. query' # <<>> /\ result'.first = {} /\ result'.offset = 0 /\ DOMAIN result' = Fields
    BY <1>3 DEF Ask, NoResult, Fields
  <2>2. result'.step = CASE query'[1].report = "log" -> "count"
                         [] query'[1].report = "daily" -> "range"
                         [] query'[1].report = "summary" -> "totals"
                         [] query'[1].report \in {"models", "paths", "labels"} -> "groups"
                         [] OTHER -> "buckets"
    BY <1>3 DEF Ask, NoResult
  <2>3. result'.step \in {"count", "page"} <=> query'[1].report = "log"
    BY <2>2
  <2>4. query'[1].report = "log" => result'.step = "count"
    BY <2>2
  <2>5. LogSteps'
    BY <2>1, <2>3, <2>4 DEF LogSteps, Asked
  <2>6. NothingIsPassedOver'
    BY <2>1 DEF NothingIsPassedOver
  <2> QED
    BY <1>1, <2>5, <2>6 DEF ReportsIInv
<1> QED
  BY <1>2, <1>3

(* The log: the count, and the page that follows it.                         *)
LEMMA LogStepsKeep ==
  ASSUME ReportsIInv, CountLog \/ PageLog
  PROVE  ReportsIInv'
<1>1. RowsAreInsertedOnce /\ LogSteps /\ NothingIsPassedOver /\ DOMAIN result = Fields
  BY DEF ReportsIInv, LogSteps
<1>2. UNCHANGED <<tick, table, batch, flushed, query>> /\ Asked("log") /\ Asked("log")'
  BY <1>1 DEF CountLog, PageLog, Step, LogSteps, Asked
<1>3. RowsAreInsertedOnce'
  BY <1>1, <1>2 DEF RowsAreInsertedOnce
<1> DEFINE rows == Selected(query[1])
<1>4. /\ rows \in SUBSET Rows /\ rows' = rows /\ rows \subseteq flushed \ batch
      /\ \A r \in rows : sqliteUsageConditions(r, query[1])
  BY <1>1, <1>2 DEF Selected, RowsAreInsertedOnce
<1>5. result.offset \in Nat /\ Limit \in Nat /\ Limit >= 1
  BY <1>1, <1>2, ReportsAssumption DEF NothingIsPassedOver
<1>6. \A r \in rows : Rank(r, rows) \in Nat
  BY <1>4, RanksIncrease
<1>7. CASE CountLog
  <2>1. /\ result'.step = "page" /\ result'.offset = result.offset /\ result'.shown = result.shown
        /\ result'.first = IF result.offset = 0 THEN rows ELSE result.first
        /\ DOMAIN result' = Fields /\ result.step = "count"
    BY <1>1, <1>7 DEF CountLog, Step, Fields
  <2>2. LogSteps'
    BY <1>2, <2>1 DEF LogSteps, Asked
  <2>3. NothingIsPassedOver'
    BY <1>1, <1>2, <1>4, <1>5, <1>6, <2>1 DEF NothingIsPassedOver, Asked
  <2> QED
    BY <1>3, <2>2, <2>3 DEF ReportsIInv
<1>8. CASE PageLog
  <2> DEFINE page == Page(rows, result.offset)
  <2>1. /\ result'.step = IF Cardinality(page) < Limit THEN "done" ELSE "count"
        /\ result'.offset = result.offset + Limit /\ result'.shown = result.shown \cup page
        /\ result'.first = result.first
        /\ DOMAIN result' = Fields /\ result.step = "page"
    BY <1>1, <1>8 DEF PageLog, Step, Fields
  <2>2. LogSteps'
    BY <1>2, <2>1 DEF LogSteps, Asked
  <2>3. ASSUME NEW r \in result.first \cap table
        PROVE  \/ r \in result'.shown
               \/ result'.step # "done" /\ Rank(r, rows) >= result'.offset
    <3>1. r \in rows
      BY <1>1, <1>2 DEF NothingIsPassedOver, Selected
    <3>2. r \in result.shown \/ Rank(r, rows) >= result.offset
      BY <1>1, <1>2 DEF NothingIsPassedOver
    <3>3. CASE r \in result.shown
      BY <2>1, <3>3
    <3>4. CASE Rank(r, rows) \in result.offset .. result.offset + Limit - 1
      BY <2>1, <3>1, <3>4 DEF Page
    <3>5. CASE Rank(r, rows) >= result.offset + Limit
      BY <1>4, <1>5, <2>1, <3>1, <3>5, ShortPageIsLast
    <3> QED
      BY <1>5, <1>6, <3>1, <3>2, <3>3, <3>4, <3>5
  <2>4. NothingIsPassedOver'
    BY <1>1, <1>2, <1>4, <1>5, <2>1, <2>3 DEF NothingIsPassedOver, Asked
  <2> QED
    BY <1>3, <2>2, <2>4 DEF ReportsIInv
<1> QED
  BY <1>7, <1>8

-----------------------------------------------------------------------------
(* Periods: where the offset changes, the segments of a range and the        *)
(* buckets of the chart.                                                     *)

(* A set of numbers has a least one.                                         *)
LEMMA LeastIsThere ==
  ASSUME NEW S \in SUBSET Nat, S # {}
  PROVE  Min(S) \in S /\ \A n \in S : Min(S) <= n
<1> DEFINE less == {pair \in Nat \X Nat : pair[1] < pair[2]}
<1>1. IsWellFoundedOn(less, Nat)
  BY NatLessThanWellFounded DEF OpToRel
<1>2. \A i, j \in Nat : <<j, i>> \notin less => i <= j
  OBVIOUS
<1> HIDE DEF less
<1>3. \E i \in S : \A j \in S : <<j, i>> \notin less
  BY <1>1, WFMin
<1>4. \E i \in S : \A j \in S : i <= j
  BY <1>2, <1>3
<1> QED
  BY <1>4 DEF Min

LEMMA Division ==
  ASSUME NEW T \in Int, T > 0, NEW n \in Int
  PROVE  /\ n \div T \in Int
         /\ T * (n \div T) <= n
         /\ n < T * (n \div T) + T
<1>1. n \div T \in Int /\ n % T \in 0 .. T - 1
  OBVIOUS
<1>2. n % T = n - T * (n \div T)
  BY SMT
<1> DEFINE x == T * (n \div T)
           r == n % T
<1>3. x \in Int /\ r \in 0 .. T - 1 /\ r = n - x
  BY <1>1, <1>2
<1> HIDE DEF x, r
<1>4. x <= n /\ n < x + T
  BY <1>3
<1> QED
  BY <1>1, <1>4 DEF x

LEMMA Multiples ==
  ASSUME NEW T \in Int, T > 0, NEW a \in Int, NEW b \in Int
  PROVE  /\ T * a \in Int /\ a * T = T * a
         /\ T * (a + 1) = T * a + T
         /\ T * (a - 1) = T * a - T
         /\ a < b => T * a + T <= T * b
         /\ a <= b => T * a <= T * b
<1>1. T * a \in Int /\ T * b \in Int /\ T * (b - a) \in Int /\ a * T = T * a
      /\ T * (a + 1) = T * a + T /\ T * (a - 1) = T * a - T /\ T * (b - a) = T * b - T * a
  OBVIOUS
<1>2. \A k \in Nat : T * k >= 0
  OBVIOUS
<1>3. ASSUME a <= b PROVE T * a <= T * b
  <2>1. b - a \in Nat
    BY <1>3
  <2> QED
    BY <1>1, <1>2, <2>1
<1>4. ASSUME a < b PROVE T * a + T <= T * b
  <2>1. b - a - 1 \in Nat
    BY <1>4
  <2>2. T * (b - a - 1) >= 0
    BY <1>2, <2>1
  <2>3. T * (b - a - 1) = T * b - T * a - T
    OBVIOUS
  <2> QED
    BY <1>1, <2>2, <2>3
<1> QED
  BY <1>1, <1>3, <1>4

(* An offset that returns within an hour was never left.                     *)
SeldomChanges(zone, start, end) ==
  \A t, u \in start .. end - 1 :
    t <= u /\ u <= t + Hour /\ zone[t] = zone[u] => \A v \in t .. u : zone[v] = zone[t]

(* The next transition is where the offset is first another.                 *)
FirstChange(next, start, end, zone) ==
  \/ next = <<>> /\ \A u \in start .. end - 1 : zone[u] = zone[start]
  \/ \E at \in start + 1 .. end - 1 :
       next = <<at>> /\ \A u \in start .. at - 1 : zone[u] = zone[start]

LEMMA TransitionIsNext ==
  ASSUME NEW start \in Nat, NEW end \in Nat, start < end, NEW zone, SeldomChanges(zone, start, end)
  PROVE  FirstChange(sqliteNextOffsetTransition(start, end, zone), start, end, zone)
<1> DEFINE windows == {k \in 0 .. (end - start) \div Hour : start + k * Hour < end}
           first(k) == start + k * Hour
           last(k) == IF start + (k + 1) * Hour < end THEN start + (k + 1) * Hour - 1 ELSE end - 1
           changed == {k \in windows : zone[last(k)] # zone[start]}
           there == {t \in first(Min(changed)) .. last(Min(changed)) : zone[t] # zone[start]}
           next == sqliteNextOffsetTransition(start, end, zone)
<1>1. Hour \in Nat /\ Hour \in Int /\ Hour > 0
  BY ReportsAssumption
<1>2. next = IF changed = {} THEN <<>> ELSE <<Min(there)>>
  BY DEF sqliteNextOffsetTransition
<1>3. \A k \in Nat : first(k) \in Nat /\ first(k + 1) = first(k) + Hour /\ first(0) = start
  <2> TAKE k \in Nat
  <2>1. Hour * k \in Int /\ k * Hour = Hour * k /\ Hour * (k + 1) = Hour * k + Hour
        /\ (k + 1) * Hour = Hour * (k + 1) /\ k * Hour >= 0 /\ 0 * Hour = 0
    BY <1>1, Multiples
  <2> QED
    BY <1>1, <2>1
<1>4. \A k, j \in Nat : k < j => first(k) + Hour <= first(j)
  <2> TAKE k, j \in Nat
  <2>1. Hour * k \in Int /\ Hour * j \in Int /\ k * Hour = Hour * k /\ j * Hour = Hour * j
        /\ (k < j => Hour * k + Hour <= Hour * j)
    BY <1>1, Multiples
  <2> QED
    BY <1>1, <2>1
<1>5. \A k \in Nat : last(k) = IF first(k) + Hour < end THEN first(k) + Hour - 1 ELSE end - 1
  <2> TAKE k \in Nat
  <2> DEFINE here == first(k)
             later == start + (k + 1) * Hour
  <2>1. here \in Nat /\ later = here + Hour
    BY <1>3
  <2>2. ASSUME later < end PROVE last(k) = later - 1
    BY <1>1, <2>2
  <2>3. ASSUME ~ (later < end) PROVE last(k) = end - 1
    BY <1>1, <2>3
  <2> HIDE DEF here, later
  <2>4. last(k) = IF here + Hour < end THEN here + Hour - 1 ELSE end - 1
    <3>1. CASE later < end
      BY <1>1, <2>1, <2>2, <3>1
    <3>2. CASE ~ (later < end)
      BY <1>1, <2>1, <2>3, <3>2
    <3> QED
      BY <3>1, <3>2
  <2> QED
    BY <2>4 DEF here
<1>6. /\ \A k \in windows : k \in 0 .. (end - start) \div Hour /\ first(k) < end
      /\ \A k \in 0 .. (end - start) \div Hour : first(k) < end => k \in windows
  <2>1. windows = {k \in 0 .. (end - start) \div Hour : first(k) < end}
    OBVIOUS
  <2> HIDE DEF windows, first
  <2> QED
    BY <2>1
<1>7. windows \in SUBSET Nat
  OBVIOUS
<1>8. (end - start) \div Hour \in Int /\ end - start < Hour * ((end - start) \div Hour) + Hour
  BY <1>1, Division
<1>9. \A k \in Nat : first(k) < end => k \in windows
  <2> SUFFICES ASSUME NEW k \in Nat, first(k) < end PROVE k <= (end - start) \div Hour
    BY <1>6, <1>8
  <2> DEFINE q == (end - start) \div Hour
  <2>1. k * Hour = Hour * k /\ Hour * k \in Int /\ Hour * q \in Int /\ (q < k => Hour * q + Hour <= Hour * k)
    BY <1>1, <1>8, Multiples
  <2>2. q \in Int /\ end - start < Hour * q + Hour /\ start + k * Hour < end
    BY <1>8
  <2> HIDE DEF q
  <2>3. k <= q
    BY <1>1, <2>1, <2>2
  <2> QED
    BY <2>3 DEF q
<1>10. \A u \in start .. end - 1 : \E k \in windows : first(k) <= u /\ u < first(k) + Hour
  <2> TAKE u \in start .. end - 1
  <2> DEFINE k == (u - start) \div Hour
  <2>1. k \in Int /\ Hour * k <= u - start /\ u - start < Hour * k + Hour
    BY <1>1, Division
  <2> HIDE DEF k
  <2>2. k * Hour = Hour * k /\ Hour * k \in Int /\ (k < 0 => Hour * k + Hour <= Hour * 0) /\ Hour * 0 = 0
    BY <1>1, <2>1, Multiples
  <2>3. k \in Nat
    BY <1>1, <2>1, <2>2
  <2>4. first(k) <= u /\ u < first(k) + Hour
    BY <1>1, <2>1, <2>2
  <2>5. k \in windows
    BY <1>3, <1>9, <2>3, <2>4
  <2> QED
    BY <2>4, <2>5
<1> HIDE DEF first, last, windows
<1>11. \A k \in windows : /\ k \in Nat /\ first(k) \in Nat /\ start <= first(k) /\ first(k) < end
                          /\ last(k) \in first(k) .. end - 1
                          /\ last(k) < first(k) + Hour
                          /\ \A u \in first(k) .. end - 1 : u < first(k) + Hour => u <= last(k)
  <2> TAKE k \in windows
  <2>1. k \in Nat /\ first(k) < end
    BY <1>6, <1>7
  <2>2. first(k) \in Nat /\ first(k + 1) = first(k) + Hour /\ start <= first(k)
    <3>1. k = 0 \/ 0 < k
      BY <2>1
    <3>2. first(k) \in Nat /\ first(k + 1) = first(k) + Hour /\ first(0) = start /\ first(0) \in Nat
      BY <1>3, <2>1
    <3>3. 0 < k => first(0) + Hour <= first(k)
      BY <1>4, <2>1
    <3> QED
      BY <1>1, <3>1, <3>2, <3>3
  <2>3. last(k) = IF first(k) + Hour < end THEN first(k) + Hour - 1 ELSE end - 1
    BY <1>5, <2>1
  <2> QED
    BY <1>1, <2>1, <2>2, <2>3
<1>12. ASSUME NEW k \in windows, \A j \in windows : j <= k => zone[last(j)] = zone[start],
              NEW u \in first(k) .. last(k)
       PROVE  zone[u] = zone[start]
  <2>1. /\ k \in Nat /\ first(k) \in Nat /\ start <= first(k) /\ last(k) \in first(k) .. end - 1
        /\ last(k) < first(k) + Hour /\ zone[last(k)] = zone[start]
    BY <1>11, <1>12
  <2>2. CASE k = 0
    <3>1. start \in start .. end - 1 /\ last(k) \in start .. end - 1 /\ last(k) <= start + Hour
          /\ start <= last(k) /\ u \in start .. last(k)
      BY <1>1, <1>3, <2>1, <2>2
    <3> QED
      BY <2>1, <3>1 DEF SeldomChanges
  <2>3. CASE k # 0
    <3>1. k - 1 \in Nat /\ first(k) = first(k - 1) + Hour /\ first(k - 1) \in Nat
      <4>1. k - 1 \in Nat /\ (k - 1) + 1 = k
        BY <2>1, <2>3
      <4> QED
        BY <1>3, <4>1
    <3>2. k - 1 \in windows
      BY <1>1, <1>9, <1>11, <3>1
    <3>3. last(k - 1) = first(k) - 1
      <4>1. (k - 1) + 1 = k /\ first(k) < end
        BY <1>11, <2>1
      <4> QED
        BY <1>1, <1>5, <2>1, <3>1, <4>1
    <3>4. zone[last(k - 1)] = zone[start]
      BY <1>12, <2>1, <3>2
    <3> DEFINE t == first(k) - 1
    <3>5. zone[t] = zone[start] /\ zone[last(k)] = zone[start]
      BY <2>1, <3>3, <3>4
    <3>6. t \in start .. end - 1 /\ last(k) \in start .. end - 1 /\ t <= last(k) /\ last(k) <= t + Hour
          /\ u \in t .. last(k)
      <4>1. start <= first(k - 1)
        BY <1>11, <3>2
      <4> QED
        BY <1>1, <2>1, <3>1, <4>1
    <3> HIDE DEF t
    <3> QED
      BY <3>5, <3>6 DEF SeldomChanges
  <2> QED
    BY <2>2, <2>3
<1>13. \A u \in start .. end - 1 : \E k \in windows : u \in first(k) .. last(k)
  <2> TAKE u \in start .. end - 1
  <2>1. PICK k \in windows : first(k) <= u /\ u < first(k) + Hour
    BY <1>10
  <2>2. u \in first(k) .. last(k)
    BY <1>11, <2>1
  <2> QED
    BY <2>2
<1>14. CASE changed = {}
  <2>1. \A k \in windows : zone[last(k)] = zone[start]
    BY <1>14
  <2>2. \A u \in start .. end - 1 : zone[u] = zone[start]
    BY <1>12, <1>13, <2>1
  <2> QED
    BY <1>2, <1>14, <2>2 DEF FirstChange
<1>15. CASE changed # {}
  <2> DEFINE c == Min(changed)
             at == Min(there)
  <2>1. c \in changed /\ \A k \in changed : c <= k
    <3>1. changed \in SUBSET Nat
      BY <1>7
    <3> HIDE DEF changed
    <3> QED
      BY <1>15, <3>1, LeastIsThere
  <2>2. c \in windows /\ zone[last(c)] # zone[start]
    BY <2>1
  <2>3. \A j \in windows : j < c => zone[last(j)] = zone[start]
    <3> TAKE j \in windows
    <3> HAVE j < c
    <3>1. c \in Nat /\ j \in Nat
      BY <1>7, <2>2
    <3>2. j \notin changed
      BY <2>1, <3>1
    <3> QED
      BY <3>2
  <2>4. there = {t \in first(c) .. last(c) : zone[t] # zone[start]}
    OBVIOUS
  <2> HIDE DEF changed, c, there
  <2>5. c \in Nat /\ first(c) \in Nat /\ start <= first(c) /\ last(c) \in first(c) .. end - 1
    BY <1>11, <2>2
  <2>6. there \in SUBSET Nat /\ last(c) \in there
    BY <2>2, <2>4, <2>5
  <2>7. at \in there /\ \A t \in there : at <= t
    BY <2>6, LeastIsThere
  <2> HIDE DEF at
  <2>8. at \in Nat /\ first(c) <= at /\ at <= end - 1 /\ zone[at] # zone[start] /\ at # start
    BY <2>4, <2>5, <2>7
  <2>9. ASSUME NEW u \in start .. at - 1 PROVE zone[u] = zone[start]
    <3>1. u \in start .. end - 1 /\ u \in Nat /\ u < at
      BY <2>8
    <3>2. CASE first(c) <= u
      <4>1. u \in first(c) .. last(c)
        <5>1. at <= last(c)
          BY <2>4, <2>5, <2>7
        <5> QED
          BY <2>5, <2>8, <3>1, <3>2, <5>1
      <4>2. u \notin there
        BY <2>7, <2>8, <3>1
      <4> QED
        BY <2>4, <4>1, <4>2
    <3>3. CASE u < first(c)
      <4>1. PICK k \in windows : u \in first(k) .. last(k)
        BY <1>13, <3>1
      <4>2. k \in Nat /\ first(k) \in Nat /\ first(k) <= u
        BY <1>11, <4>1
      <4>3. k < c
        <5>1. c < k => first(c) + Hour <= first(k)
          BY <1>4, <2>5, <4>2
        <5>2. ~ (c < k) /\ c # k
          BY <1>1, <2>5, <3>1, <3>3, <4>2, <5>1
        <5> QED
          BY <2>5, <4>2, <5>2
      <4>4. \A j \in windows : j <= k => zone[last(j)] = zone[start]
        <5> TAKE j \in windows
        <5> HAVE j <= k
        <5>1. j \in Nat /\ j < c
          BY <1>7, <2>5, <4>2, <4>3
        <5> QED
          BY <2>3, <5>1
      <4> QED
        BY <1>12, <4>1, <4>4
    <3> QED
      BY <2>5, <3>1, <3>2, <3>3
  <2>10. at \in start + 1 .. end - 1 /\ next = <<at>>
    <3>1. next = <<at>>
      BY <1>2, <1>15 DEF at
    <3> QED
      BY <2>5, <2>8, <3>1
  <2> HIDE DEF next
  <2> QED
    BY <2>9, <2>10 DEF FirstChange, next
<1> QED
  BY <1>14, <1>15

(* What is left of a range from each instant on satisfies its equation.      *)
IsSegments(f, start, end, zone) ==
  f = [t \in start .. end |->
        LET next == sqliteNextOffsetTransition(t, end, zone) IN
        IF t >= end THEN <<>>
        ELSE IF next = <<>> THEN <<[until |-> <<>>, offset |-> zone[t]]>>
        ELSE <<[until |-> next, offset |-> zone[t]]>> \o f[next[1]]]

LEMMA SegmentsAreChosen ==
  ASSUME NEW start, NEW end, NEW zone
  PROVE  segmentsFrom(start, end, zone) = CHOOSE f : IsSegments(f, start, end, zone)
  BY DEF IsSegments, segmentsFrom

LEMMA SegmentsExist ==
  ASSUME NEW start \in Nat, NEW end \in Nat, start < end, NEW zone, SeldomChanges(zone, start, end)
  PROVE  IsSegments(segmentsFrom(start, end, zone), start, end, zone)
<1> DEFINE none == {n \in 0 .. end - start : ~ \E f : IsSegments(f, end - n, end, zone)}
           m == Min(none)
<1>1. \A t \in start .. end - 1 :
        \/ sqliteNextOffsetTransition(t, end, zone) = <<>>
        \/ \E at \in t + 1 .. end - 1 : sqliteNextOffsetTransition(t, end, zone) = <<at>>
  <2> TAKE t \in start .. end - 1
  <2>1. t \in Nat /\ t < end /\ SeldomChanges(zone, t, end)
    BY DEF SeldomChanges
  <2> QED
    BY <2>1, TransitionIsNext DEF FirstChange
<1>2. none = {}
  <2> SUFFICES ASSUME none # {} PROVE FALSE
    OBVIOUS
  <2>1. m \in none /\ \A n \in none : m <= n
    <3>1. none \in SUBSET Nat
      OBVIOUS
    <3> HIDE DEF none
    <3> QED
      BY <3>1, LeastIsThere
  <2> HIDE DEF m
  <2>2. m \in 0 .. end - start /\ ~ \E f : IsSegments(f, end - m, end, zone)
    BY <2>1
  <2>3. CASE m = 0
    <3> DEFINE g == [t \in end .. end |-> <<>>]
    <3>1. IsSegments(g, end, end, zone)
      BY DEF IsSegments
    <3>2. end - m = end
      BY <2>3
    <3> HIDE DEF g
    <3> QED
      BY <2>2, <3>1, <3>2
  <2>4. CASE m # 0
    <3> DEFINE n == m - 1
               here == end - m
    <3>1. n \in 0 .. end - start /\ n \in Nat /\ ~(m <= n) /\ end - n = here + 1
          /\ here \in start .. end - 1
      BY <2>2, <2>4
    <3>2. n \notin none
      BY <2>1, <3>1
    <3>3. PICK f : IsSegments(f, here + 1, end, zone)
      BY <3>1, <3>2
    <3> HIDE DEF n
    <3> DEFINE next == sqliteNextOffsetTransition(here, end, zone)
               first == IF next = <<>> THEN <<[until |-> <<>>, offset |-> zone[here]]>>
                        ELSE <<[until |-> next, offset |-> zone[here]]>> \o f[next[1]]
               g == [t \in here .. end |-> IF t = here THEN first ELSE f[t]]
    <3>4. \A t \in here + 1 .. end : g[t] = f[t]
      BY <3>1
    <3>5. next = <<>> \/ \E at \in here + 1 .. end - 1 : next = <<at>>
      BY <1>1, <3>1
    <3>6. g[here] = first
      BY <3>1
    <3>7. next # <<>> => g[next[1]] = f[next[1]]
      <4> HIDE DEF g, next, first
      <4>1. ASSUME NEW at \in here + 1 .. end - 1, next = <<at>> PROVE g[next[1]] = f[next[1]]
        <5>1. next[1] = at /\ at \in here + 1 .. end
          BY <3>1, <4>1
        <5> QED
          BY <3>4, <5>1
      <4> QED
        BY <3>5, <4>1
    <3> DEFINE body(t) ==
                 LET nxt == sqliteNextOffsetTransition(t, end, zone) IN
                 IF t >= end THEN <<>>
                 ELSE IF nxt = <<>> THEN <<[until |-> <<>>, offset |-> zone[t]]>>
                 ELSE <<[until |-> nxt, offset |-> zone[t]]>> \o g[nxt[1]]
    <3>8. g[here] = body(here)
      <4>1. ~ (here >= end)
        BY <3>1
      <4> HIDE DEF g
      <4> QED
        BY <3>6, <3>7, <4>1
    <3>9. \A t \in here + 1 .. end : f[t] = body(t)
      <4> TAKE t \in here + 1 .. end
      <4> DEFINE nxt == sqliteNextOffsetTransition(t, end, zone)
      <4>1. f[t] = IF t >= end THEN <<>>
                   ELSE IF nxt = <<>> THEN <<[until |-> <<>>, offset |-> zone[t]]>>
                   ELSE <<[until |-> nxt, offset |-> zone[t]]>> \o f[nxt[1]]
        BY <3>3 DEF IsSegments
      <4>2. ASSUME ~ (t >= end), nxt # <<>> PROVE g[nxt[1]] = f[nxt[1]]
        <5>1. t \in start .. end - 1
          BY <3>1, <4>2
        <5>2. PICK at \in t + 1 .. end - 1 : nxt = <<at>>
          BY <1>1, <4>2, <5>1
        <5> HIDE DEF nxt, g
        <5>3. nxt[1] = at /\ at \in here + 1 .. end
          BY <3>1, <5>1, <5>2
        <5> QED
          BY <3>4, <5>3
      <4> HIDE DEF g
      <4> QED
        BY <4>1, <4>2
    <3>10. g = [t \in here .. end |-> body(t)]
      <4>1. \A t \in here .. end : t = here \/ t \in here + 1 .. end
        BY <3>1
      <4>2. \A t \in here .. end : g[t] = body(t)
        <5> HIDE DEF g, body
        <5> QED
          BY <3>4, <3>8, <3>9, <4>1
      <4> HIDE DEF body, first
      <4> QED
        BY <4>2
    <3>11. IsSegments(g, here, end, zone)
      <4> HIDE DEF g
      <4> QED
        BY <3>10 DEF IsSegments
    <3> HIDE DEF g
    <3> QED
      BY <2>2, <3>11
  <2> QED
    BY <2>3, <2>4
<1>3. \E f : IsSegments(f, start, end, zone)
  <2>1. end - start \in 0 .. end - start /\ end - (end - start) = start
    OBVIOUS
  <2>2. end - start \notin none
    BY <1>2
  <2> QED
    BY <2>1, <2>2
<1> QED
  BY <1>3, SegmentsAreChosen

Segment == [until : Seq(Nat), offset : Int]

HoldsAt(segment, ts) == segment.until = <<>> \/ ts < segment.until[1]

(* The first segment that holds gives the day of a row.                      *)
LEMMA FirstSegmentDecides ==
  ASSUME NEW segments \in Seq(Segment), NEW ts \in Nat, NEW i \in DOMAIN segments,
         HoldsAt(segments[i], ts), \A j \in 1 .. i - 1 : ~ HoldsAt(segments[j], ts)
  PROVE  sqliteGroupExpr(segments, ts) = (ts + segments[i].offset) \div Day
<1> DEFINE holding == {j \in DOMAIN segments : HoldsAt(segments[j], ts)}
<1>1. DOMAIN segments = 1 .. Len(segments) /\ Len(segments) \in Nat /\ segments # <<>>
  OBVIOUS
<1>2. i \in holding /\ holding \in SUBSET Nat
  BY <1>1
<1>3. Min(holding) = i
  <2>1. Min(holding) \in holding /\ Min(holding) <= i
    <3> HIDE DEF holding
    <3> QED
      BY <1>2, LeastIsThere
  <2>2. Min(holding) \in 1 .. Len(segments) /\ i \in 1 .. Len(segments)
    BY <1>1, <2>1
  <2>3. HoldsAt(segments[Min(holding)], ts)
    BY <2>1
  <2> HIDE DEF holding
  <2> QED
    BY <1>1, <2>1, <2>2, <2>3
<1>4. sqliteGroupExpr(segments, ts) =
        IF segments = <<>> THEN ts \div Day ELSE (ts + segments[Min(holding)].offset) \div Day
  BY DEF sqliteGroupExpr, HoldsAt
<1> HIDE DEF holding
<1> QED
  BY <1>1, <1>3, <1>4

(* Each instant of the range has a first segment that holds at it, with the   *)
(* offset of that instant.                                                   *)
CutsRight(segments, start, end, zone) ==
  /\ segments \in Seq(Segment)
  /\ \A ts \in start .. end - 1 :
       \E i \in DOMAIN segments :
         /\ HoldsAt(segments[i], ts) /\ segments[i].offset = zone[ts]
         /\ \A j \in 1 .. i - 1 : ~ HoldsAt(segments[j], ts)

LEMMA SegmentsCutRight ==
  ASSUME NEW start \in Nat, NEW end \in Nat, start < end, NEW zone, SeldomChanges(zone, start, end),
         \A t \in start .. end - 1 : zone[t] \in Int
  PROVE  CutsRight(sqliteTimeZoneSegments(start, end, zone), start, end, zone)
<1> DEFINE f == segmentsFrom(start, end, zone)
           wrong == {n \in 0 .. end - start : ~ CutsRight(f[end - n], end - n, end, zone)}
           m == Min(wrong)
           here == end - m
<1>1. IsSegments(f, start, end, zone)
  BY SegmentsExist
<1> HIDE DEF f
<1>2. ASSUME wrong # {} PROVE FALSE
  <2>1. m \in wrong /\ \A n \in wrong : m <= n
    <3>1. wrong \in SUBSET Nat
      OBVIOUS
    <3> HIDE DEF wrong
    <3> QED
      BY <1>2, <3>1, LeastIsThere
  <2>2. m \in 0 .. end - start /\ ~ CutsRight(f[here], here, end, zone)
    BY <2>1
  <2>3. here \in start .. end /\ here \in Nat
    <3> HIDE DEF m
    <3> QED
      BY <2>2
  <2>4. \A at \in here + 1 .. end : CutsRight(f[at], at, end, zone)
    <3> TAKE at \in here + 1 .. end
    <3> DEFINE n == end - at
    <3>1. n \in 0 .. end - start /\ ~ (m <= n) /\ end - n = at
      <4> HIDE DEF m
      <4> QED
        BY <2>2, <2>3
    <3>2. n \notin wrong
      BY <2>1, <3>1
    <3> HIDE DEF m, n
    <3> QED
      BY <3>1, <3>2
  <2> HIDE DEF wrong, m, here
  <2> DEFINE next == sqliteNextOffsetTransition(here, end, zone)
  <2>5. f[here] = IF here >= end THEN <<>>
                  ELSE IF next = <<>> THEN <<[until |-> <<>>, offset |-> zone[here]]>>
                  ELSE <<[until |-> next, offset |-> zone[here]]>> \o f[next[1]]
    BY <1>1, <2>3 DEF IsSegments
  <2>6. CASE here >= end
    <3>1. f[here] = <<>> /\ here .. end - 1 = {}
      BY <2>3, <2>5, <2>6
    <3> QED
      BY <2>2, <3>1 DEF CutsRight
  <2>7. CASE here < end
    <3>1. SeldomChanges(zone, here, end) /\ zone[here] \in Int
      BY <2>3, <2>7 DEF SeldomChanges
    <3>2. FirstChange(next, here, end, zone)
      BY <2>3, <2>7, <3>1, TransitionIsNext
    <3> HIDE DEF next
    <3>3. CASE next = <<>> /\ \A u \in here .. end - 1 : zone[u] = zone[here]
      <4> DEFINE only == [until |-> <<>>, offset |-> zone[here]]
      <4>1. only \in Segment /\ only.until = <<>> /\ only.offset = zone[here]
        BY <3>1 DEF Segment
      <4>2. f[here] = <<only>>
        BY <2>3, <2>5, <2>7, <3>3
      <4>3. HoldsAt(only, 0) /\ \A ts : HoldsAt(only, ts)
        BY <4>1 DEF HoldsAt
      <4> HIDE DEF only
      <4>4. <<only>> \in Seq(Segment) /\ DOMAIN <<only>> = 1 .. 1 /\ <<only>>[1] = only
        BY <4>1
      <4>5. CutsRight(<<only>>, here, end, zone)
        BY <3>3, <4>1, <4>3, <4>4 DEF CutsRight
      <4> QED
        BY <2>2, <4>2, <4>5
    <3>4. ASSUME NEW at \in here + 1 .. end - 1, next = <<at>>,
                 \A u \in here .. at - 1 : zone[u] = zone[here]
          PROVE  FALSE
      <4> DEFINE one == [until |-> <<at>>, offset |-> zone[here]]
                 rest == f[at]
                 all == <<one>> \o rest
      <4>1. at \in Nat /\ at \in here + 1 .. end /\ next # <<>> /\ next[1] = at
        BY <2>3, <3>4
      <4>2. CutsRight(rest, at, end, zone) /\ rest \in Seq(Segment)
        BY <2>4, <4>1 DEF CutsRight
      <4>3. one \in Segment /\ one.until = <<at>> /\ one.offset = zone[here]
        BY <3>1, <4>1 DEF Segment
      <4>4. f[here] = all
        BY <2>3, <2>5, <2>7, <3>4, <4>1
      <4>5. \A ts \in Nat : HoldsAt(one, ts) <=> ts < at
        BY <4>1, <4>3 DEF HoldsAt
      <4> HIDE DEF one, rest
      <4>6. /\ all \in Seq(Segment) /\ Len(rest) \in Nat /\ DOMAIN rest = 1 .. Len(rest)
            /\ DOMAIN all = 1 .. Len(rest) + 1 /\ all[1] = one
            /\ \A j \in 1 .. Len(rest) : all[j + 1] = rest[j]
        BY <4>2, <4>3
      <4> HIDE DEF all
      <4>7. ASSUME NEW ts \in here .. end - 1
            PROVE  \E i \in DOMAIN all : /\ HoldsAt(all[i], ts) /\ all[i].offset = zone[ts]
                                         /\ \A j \in 1 .. i - 1 : ~ HoldsAt(all[j], ts)
        <5>1. ts \in Nat
          BY <2>3
        <5>2. CASE ts < at
          <6>1. zone[ts] = zone[here]
            BY <2>3, <3>4, <5>1, <5>2
          <6>2. 1 \in DOMAIN all /\ HoldsAt(all[1], ts) /\ all[1].offset = zone[ts] /\ 1 .. 1 - 1 = {}
            BY <4>3, <4>5, <4>6, <5>1, <5>2, <6>1
          <6> QED
            BY <6>2
        <5>3. CASE ~ (ts < at)
          <6>1. ts \in at .. end - 1
            BY <2>3, <4>1, <5>1, <5>3
          <6>2. PICK i \in DOMAIN rest : /\ HoldsAt(rest[i], ts) /\ rest[i].offset = zone[ts]
                                         /\ \A j \in 1 .. i - 1 : ~ HoldsAt(rest[j], ts)
            BY <4>2, <6>1 DEF CutsRight
          <6>3. i \in 1 .. Len(rest) /\ all[i + 1] = rest[i] /\ i + 1 \in DOMAIN all
            BY <4>6, <6>2
          <6>4. ASSUME NEW j \in 1 .. (i + 1) - 1 PROVE ~ HoldsAt(all[j], ts)
            <7>1. CASE j = 1
              BY <4>5, <4>6, <5>1, <5>3, <7>1
            <7>2. CASE j # 1
              <8>1. j - 1 \in 1 .. i - 1 /\ j - 1 \in 1 .. Len(rest) /\ (j - 1) + 1 = j
                BY <6>3, <7>2
              <8>2. all[j] = rest[j - 1]
                BY <4>6, <8>1
              <8> QED
                BY <6>2, <8>1, <8>2
            <7> QED
              BY <7>1, <7>2
          <6> QED
            BY <6>2, <6>3, <6>4
        <5> QED
          BY <5>2, <5>3
      <4>8. CutsRight(all, here, end, zone)
        BY <4>6, <4>7 DEF CutsRight
      <4> QED
        BY <2>2, <4>4, <4>8
    <3> QED
      BY <3>2, <3>3, <3>4 DEF FirstChange
  <2> QED
    BY <2>3, <2>6, <2>7
<1>3. CutsRight(f[start], start, end, zone)
  <2>1. end - start \in 0 .. end - start /\ end - (end - start) = start
    OBVIOUS
  <2>2. end - start \notin wrong
    BY <1>2
  <2> QED
    BY <2>1, <2>2
<1>4. sqliteTimeZoneSegments(start, end, zone) = f[start]
  BY DEF sqliteTimeZoneSegments, f
<1> QED
  BY <1>3, <1>4

(* The day of a row is the day of its instant in the zone.                   *)
LEMMA DayIsLocal ==
  ASSUME NEW start \in Nat, NEW end \in Nat, NEW zone, SeldomChanges(zone, start, end),
         \A t \in start .. end - 1 : zone[t] \in Int, NEW ts \in Nat, start <= ts, ts < end
  PROVE  sqliteGroupExpr(sqliteTimeZoneSegments(start, end, zone), ts) = (ts + zone[ts]) \div Day
<1> DEFINE segments == sqliteTimeZoneSegments(start, end, zone)
<1>1. CutsRight(segments, start, end, zone) /\ ts \in start .. end - 1
  BY SegmentsCutRight
<1> HIDE DEF segments
<1>2. PICK i \in DOMAIN segments : /\ HoldsAt(segments[i], ts) /\ segments[i].offset = zone[ts]
                                   /\ \A j \in 1 .. i - 1 : ~ HoldsAt(segments[j], ts)
  BY <1>1 DEF CutsRight
<1>3. sqliteGroupExpr(segments, ts) = (ts + segments[i].offset) \div Day
  BY <1>1, <1>2, FirstSegmentDecides DEF CutsRight
<1> QED
  BY <1>2, <1>3 DEF segments

(* The bucket of a row of the window holds its instant.                      *)
LEMMA BucketIsLocal ==
  ASSUME NEW ts \in Nat, NEW now \in Nat, NEW offset \in Int,
         throughputWindow(now, offset).first <= ts, ts < throughputWindow(now, offset).upper
  PROVE  LET bucket == throughputBucket(ts, now, offset) IN
         LET first == throughputWindow(now, offset).first IN
         bucket # <<>> /\ first + bucket[1] * Hour <= ts /\ ts < first + (bucket[1] + 1) * Hour
<1> DEFINE local == ts + offset
           current == now + offset
           q == local \div Hour
           c == current \div Hour
           x == Hour * q
           y == Hour * c
           i == q - c + 1
           first == throughputWindow(now, offset).first
           bucket == throughputBucket(ts, now, offset)
<1>1. Hour \in Nat /\ Hour \in Int /\ Hour > 0
  BY ReportsAssumption
<1>2. local \in Int /\ current \in Int
  OBVIOUS
<1>3. q \in Int /\ x <= local /\ local < x + Hour
  <2> HIDE DEF local
  <2> QED
    BY <1>1, <1>2, Division
<1>4. c \in Int /\ y <= current /\ current < y + Hour
  <2> HIDE DEF current
  <2> QED
    BY <1>1, <1>2, Division
<1>5. throughputBucketStart(ts, offset) = q * Hour - offset
  BY DEF throughputBucketStart
<1>6. first = (c * Hour - offset) - Hour /\ throughputWindow(now, offset).upper = (c * Hour - offset) + Hour
  <2>1. (WindowCount - 1) * Hour = Hour
    BY <1>1 DEF WindowCount
  <2> QED
    BY <1>1, <2>1 DEF throughputWindow, throughputBucketStart
<1> HIDE DEF q, c, first
<1>7. x \in Int /\ y \in Int /\ q * Hour = x /\ c * Hour = y
  BY <1>1, <1>3, <1>4, Multiples
<1>8. first = y - offset - Hour /\ throughputWindow(now, offset).upper = y - offset + Hour
      /\ throughputBucketStart(ts, offset) = x - offset
  BY <1>5, <1>6, <1>7
<1>9. ts >= y - offset - Hour /\ ts < y - offset + Hour
  BY <1>8 DEF first
<1>10. local >= y - Hour /\ local < y + Hour
  <2> HIDE DEF y
  <2> QED
    BY <1>1, <1>7, <1>9
<1>11. i \in 0 .. 1
  <2>1. Hour * (c - 1) = y - Hour /\ Hour * (c + 1) = y + Hour
    BY <1>1, <1>4, Multiples
  <2>2. q < c - 1 => x + Hour <= y - Hour
    <3>1. q < c - 1 => Hour * q + Hour <= Hour * (c - 1)
      <4>1. c - 1 \in Int
        BY <1>4
      <4> QED
        BY <1>1, <1>3, <4>1, Multiples
    <3> QED
      BY <2>1, <3>1
  <2>3. c + 1 <= q => y + Hour <= x
    <3>1. c + 1 <= q => Hour * (c + 1) <= Hour * q
      <4>1. c + 1 \in Int
        BY <1>4
      <4> QED
        BY <1>1, <1>3, <4>1, Multiples
    <3> QED
      BY <2>1, <3>1
  <2> HIDE DEF x, y, local
  <2> QED
    BY <1>1, <1>2, <1>3, <1>4, <1>7, <1>10, <2>2, <2>3
<1>12. Hour * i = x - y + Hour /\ i * Hour = Hour * i /\ (i + 1) * Hour = Hour * i + Hour
  <2>1. Hour * i = Hour * q - Hour * c + Hour
    BY <1>1, <1>3, <1>4, SMT
  <2>2. i \in Int
    BY <1>11
  <2> HIDE DEF i
  <2>3. Hour * i \in Int /\ i * Hour = Hour * i /\ Hour * (i + 1) = Hour * i + Hour
    BY <1>1, <2>2, Multiples
  <2>4. (i + 1) * Hour = Hour * (i + 1)
    <3>1. i + 1 \in Int
      BY <2>2
    <3> QED
      BY <1>1, <3>1, Multiples
  <2> QED
    BY <2>1, <2>3, <2>4
<1>13. (throughputBucketStart(ts, offset) - first) \div Hour = i
  <2> DEFINE away == throughputBucketStart(ts, offset) - first
             p == away \div Hour
  <2>1. away = Hour * i
    <3> HIDE DEF x, y, i
    <3> QED
      BY <1>1, <1>7, <1>8, <1>12
  <2>2. i \in Int /\ Hour * i \in Int
    <3> HIDE DEF i
    <3>1. i \in Int
      BY <1>11
    <3> QED
      BY <1>1, <3>1, Multiples
  <2> HIDE DEF away, i
  <2>3. p \in Int /\ Hour * p <= away /\ away < Hour * p + Hour
    BY <1>1, <2>1, <2>2, Division
  <2> HIDE DEF p
  <2>4. Hour * p \in Int /\ (p < i => Hour * p + Hour <= Hour * i) /\ (i < p => Hour * i + Hour <= Hour * p)
    BY <1>1, <2>2, <2>3, Multiples
  <2>5. ~ (p < i) /\ ~ (i < p)
    BY <1>1, <2>1, <2>2, <2>3, <2>4
  <2>6. p = i
    BY <2>2, <2>3, <2>5
  <2> QED
    BY <2>6 DEF p, away
<1>14. bucket = <<i>>
  <2>1. bucket = IF (throughputBucketStart(ts, offset) - first) \div Hour \in 0 .. WindowCount - 1
                 THEN <<(throughputBucketStart(ts, offset) - first) \div Hour>> ELSE <<>>
    BY DEF throughputBucket, first
  <2> HIDE DEF i, bucket
  <2> QED
    BY <1>11, <1>13, <2>1 DEF WindowCount
<1>15. first + i * Hour <= ts /\ ts < first + (i + 1) * Hour
  <2>1. x - offset <= ts /\ ts < x - offset + Hour
    <3> HIDE DEF x
    <3> QED
      BY <1>1, <1>3, <1>7 DEF local
  <2> HIDE DEF x, y, i
  <2> QED
    BY <1>1, <1>7, <1>8, <1>12, <2>1
<1> HIDE DEF i, bucket
<1>16. bucket # <<>> /\ bucket[1] = i
  BY <1>14
<1>17. bucket # <<>> /\ first + bucket[1] * Hour <= ts /\ ts < first + (bucket[1] + 1) * Hour
  BY <1>15, <1>16
<1> QED
  BY <1>17 DEF bucket, first

-----------------------------------------------------------------------------
(* The reports by period and the chart.                                      *)

MomentsAreKnown == tick <= MaxTick /\ \A r \in flushed : r.ts <= MaxTick

QueryIsAsked == query = <<>> \/ \E q \in Queries : query = <<q>>

(* The instants the periods are cut over have an offset; they are looked up   *)
(* before rows are put into periods.                                         *)
RangeIsCovered ==
  /\ result.step = "range" => result.periods = {} /\ result.split = {}
  /\ result.range # <<>> =>
       /\ query # <<>> /\ result.range[1] \in Nat /\ result.range[2] \in Nat
       /\ result.range[1] .. result.range[2] - 1 \subseteq DOMAIN query[1].zone

InItsDay(x) ==
  (result.range # <<>> /\ x[1].ts < result.range[2] /\ result.range[1] <= x[1].ts)
    => x[2] = (x[1].ts + query[1].zone[x[1].ts]) \div Day

InItsBucket(x) ==
  x[2] # <<>> /\ x[3] + x[2][1] * Hour <= x[1].ts /\ x[1].ts < x[3] + (x[2][1] + 1) * Hour

RowsArePlaced ==
  /\ query = <<>> => result.periods = {} /\ result.split = {}
  /\ \A x \in result.periods \cup result.split : InItsDay(x)
  /\ \A x \in result.buckets : InItsBucket(x)

PeriodsIInv == MomentsAreKnown /\ QueryIsAsked /\ RangeIsCovered /\ RowsArePlaced

LEMMA PeriodsBegin == ReportsInit => PeriodsIInv
  BY ReportsAssumption
  DEF ReportsInit, PeriodsIInv, MomentsAreKnown, QueryIsAsked, RangeIsCovered, RowsArePlaced, NoResult

(* The least and the greatest of moments that are known.                     *)
LEMMA ExtentIsKnown ==
  ASSUME NEW S \in SUBSET (0 .. MaxTick), S # {}
  PROVE  Min(S) \in 0 .. MaxTick /\ Max(S) \in 0 .. MaxTick
<1>1. MaxTick \in Nat /\ S \in SUBSET Nat
  BY ReportsAssumption
<1> DEFINE left == {MaxTick - n : n \in S}
           m == Min(left)
<1>2. m \in left /\ \A n \in left : m <= n
  <2>1. left \in SUBSET Nat /\ left # {}
    BY <1>1
  <2> HIDE DEF left
  <2> QED
    BY <2>1, LeastIsThere
<1>3. PICK g \in S : m = MaxTick - g
  BY <1>2
<1> HIDE DEF m
<1>4. \A n \in S : n <= g
  <2> TAKE n \in S
  <2>1. MaxTick - n \in left
    OBVIOUS
  <2>2. m <= MaxTick - n
    BY <1>2, <2>1
  <2> QED
    BY <1>1, <1>3, <2>2
<1>5. Max(S) \in S
  <2>1. g \in S /\ \A n \in S : g >= n
    BY <1>1, <1>4
  <2> QED
    BY <2>1 DEF Max
<1>6. Min(S) \in S
  BY <1>1, LeastIsThere
<1> QED
  BY <1>5, <1>6

(* The writer, the sweep and the reports that have no periods.               *)
LEMMA QuietStepsKeep ==
  ASSUME ReportsIInv, PeriodsIInv,
         Tick \/ WriteBatch \/ WriteChunk \/ cleanup \/ CountLog \/ PageLog
         \/ SumSummary \/ SplitSummary \/ GetUsageByGroup
  PROVE  PeriodsIInv'
<1>1. RowsAreInsertedOnce /\ DOMAIN result = Fields
  BY DEF ReportsIInv, LogSteps
<1>2. MomentsAreKnown'
  <2>1. MomentsAreKnown
    BY DEF PeriodsIInv
  <2>2. CASE Tick
    <3>1. tick \in Nat /\ MaxTick \in Nat /\ tick < MaxTick /\ tick' = tick + 1 /\ flushed' = flushed
      BY <1>1, <2>2, ReportsAssumption DEF Tick, RowsAreInsertedOnce
    <3> QED
      BY <2>1, <3>1 DEF MomentsAreKnown
  <2>3. CASE WriteBatch
    <3>1. PICK written \in SUBSET {r \in Rows \ flushed : r.ts <= tick} : flushed' = flushed \cup written
      BY <2>3 DEF WriteBatch
    <3>2. tick' = tick /\ tick \in Nat /\ MaxTick \in Nat /\ \A r \in written : r.ts \in Nat
      BY <1>1, <2>3, ReportsAssumption DEF WriteBatch, RowsAreInsertedOnce
    <3> QED
      BY <2>1, <3>1, <3>2 DEF MomentsAreKnown
  <2>4. CASE UNCHANGED <<tick, flushed>>
    BY <2>1, <2>4 DEF MomentsAreKnown
  <2> QED
    BY <2>2, <2>3, <2>4 DEF WriteChunk, cleanup, CountLog, PageLog, SumSummary, SplitSummary,
                            GetUsageByGroup, Step
<1>3. /\ query' = query /\ result'.range = result.range /\ result'.periods = result.periods
      /\ result'.split = result.split /\ result'.buckets = result.buckets
      /\ result'.step = "range" => result.step = "range"
  <2>1. CASE Tick \/ WriteBatch \/ WriteChunk \/ cleanup
    BY <2>1 DEF Tick, WriteBatch, WriteChunk, cleanup
  <2>2. CASE CountLog
    BY <1>1, <2>2 DEF CountLog, Step, Fields
  <2>3. CASE PageLog
    BY <1>1, <2>3 DEF PageLog, Step, Fields
  <2>4. CASE SumSummary
    BY <1>1, <2>4 DEF SumSummary, Step, Fields
  <2>5. CASE SplitSummary
    BY <1>1, <2>5 DEF SplitSummary, Step, Fields
  <2>6. CASE GetUsageByGroup
    BY <1>1, <2>6 DEF GetUsageByGroup, Step, Fields
  <2> QED
    BY <2>1, <2>2, <2>3, <2>4, <2>5, <2>6
<1>4. QueryIsAsked' /\ RangeIsCovered' /\ RowsArePlaced'
  BY <1>3 DEF PeriodsIInv, QueryIsAsked, RangeIsCovered, RowsArePlaced, InItsDay, InItsBucket
<1> QED
  BY <1>2, <1>4 DEF PeriodsIInv

(* The beginning and the end of a report.                                    *)
LEMMA AskingPlaces ==
  ASSUME PeriodsIInv, Ask \/ Answer
  PROVE  PeriodsIInv'
<1>1. MomentsAreKnown'
  BY DEF PeriodsIInv, MomentsAreKnown, Ask, Answer, Return
<1>2. result'.range = <<>> /\ result'.periods = {} /\ result'.split = {} /\ result'.buckets = {}
  BY DEF Ask, Answer, Return, NoResult
<1>3. QueryIsAsked'
  BY DEF Ask, Answer, Return, QueryIsAsked
<1> QED
  BY <1>1, <1>2, <1>3 DEF PeriodsIInv, RangeIsCovered, RowsArePlaced

(* The range: the dates of the query, or the extent of the table.            *)
LEMMA RangeKeeps ==
  ASSUME ReportsIInv, PeriodsIInv, RangeDaily
  PROVE  PeriodsIInv'
<1>1. RowsAreInsertedOnce /\ DOMAIN result = Fields /\ query # <<>>
  BY DEF ReportsIInv, LogSteps, RangeDaily
<1>2. UNCHANGED <<tick, table, batch, flushed, query>> /\ result.step = "range"
  BY DEF RangeDaily, Step
<1> DEFINE range == sqliteGroupingRange(query[1])
<1>3. /\ result'.range = range /\ result'.step = "sums" /\ result'.periods = result.periods
      /\ result'.split = result.split /\ result'.buckets = result.buckets
  BY <1>1 DEF RangeDaily, Step, Fields
<1>4. PICK q \in Queries : query = <<q>>
  BY <1>1 DEF PeriodsIInv, QueryIsAsked
<1>5. ASSUME range # <<>>
      PROVE  range[1] \in Nat /\ range[2] \in Nat /\ range[1] .. range[2] - 1 \subseteq DOMAIN q.zone
  <2> DEFINE ts == {r.ts : r \in {x \in table : userPathCondition(x, q.path)}}
  <2>1. range = IF q.range # <<>> THEN q.range ELSE IF ts = {} THEN <<>> ELSE <<Min(ts), Max(ts) + 1>>
    BY <1>4 DEF sqliteGroupingRange
  <2>2. CASE q.range # <<>>
    <3>1. range = q.range
      BY <2>1, <2>2
    <3> HIDE DEF range
    <3> QED
      BY <2>2, <3>1, ZonesAssumption
  <2>3. CASE q.range = <<>>
    <3>1. ts \in SUBSET (0 .. MaxTick)
      <4>1. \A r \in table : r.ts \in Nat /\ r.ts <= MaxTick
        BY <1>1, ReportsAssumption DEF PeriodsIInv, MomentsAreKnown, RowsAreInsertedOnce
      <4> QED
        BY <4>1, ReportsAssumption
    <3> HIDE DEF ts
    <3>2. ts # {} /\ range = <<Min(ts), Max(ts) + 1>>
      BY <1>5, <2>1, <2>3
    <3>3. Min(ts) \in 0 .. MaxTick /\ Max(ts) \in 0 .. MaxTick
      BY <3>1, <3>2, ExtentIsKnown
    <3>4. range[1] = Min(ts) /\ range[2] = Max(ts) + 1
      BY <3>2
    <3> HIDE DEF range
    <3>5. range[1] \in Nat /\ range[2] \in Nat /\ range[1] .. range[2] - 1 \subseteq 0 .. MaxTick
      BY <3>3, <3>4, ReportsAssumption
    <3>6. 0 .. MaxTick \subseteq DOMAIN q.zone
      BY ZonesAssumption
    <3> QED
      BY <3>5, <3>6
  <2> QED
    BY <2>2, <2>3
<1> HIDE DEF range
<1>6. RangeIsCovered'
  BY <1>2, <1>3, <1>4, <1>5 DEF RangeIsCovered
<1>7. RowsArePlaced'
  BY <1>2, <1>3 DEF PeriodsIInv, RangeIsCovered, RowsArePlaced, InItsBucket
<1> QED
  BY <1>2, <1>6, <1>7 DEF PeriodsIInv, MomentsAreKnown, QueryIsAsked

(* The day of a row is the day of its instant in the zone of the query.      *)
LEMMA PeriodIsRight ==
  ASSUME ReportsIInv, PeriodsIInv, query # <<>>, NEW row \in table
  PROVE  (result.range # <<>> /\ row.ts < result.range[2] /\ result.range[1] <= row.ts)
           => PeriodOf(row) = (row.ts + query[1].zone[row.ts]) \div Day
<1> SUFFICES ASSUME result.range # <<>>, row.ts < result.range[2], result.range[1] <= row.ts
             PROVE  PeriodOf(row) = (row.ts + query[1].zone[row.ts]) \div Day
  OBVIOUS
<1> DEFINE start == result.range[1]
           end == result.range[2]
<1>1. PICK q \in Queries : query = <<q>>
  BY DEF PeriodsIInv, QueryIsAsked
<1>2. start \in Nat /\ end \in Nat /\ start .. end - 1 \subseteq DOMAIN q.zone
  BY <1>1 DEF PeriodsIInv, RangeIsCovered
<1>3. row.ts \in Nat /\ start <= row.ts /\ row.ts < end
  BY ReportsAssumption DEF ReportsIInv, RowsAreInsertedOnce
<1>4. PeriodOf(row) = sqliteGroupExpr(sqliteTimeZoneSegments(start, end, q.zone), row.ts)
  BY <1>1 DEF PeriodOf
<1> HIDE DEF start, end
<1>5. SeldomChanges(q.zone, start, end) /\ \A t \in start .. end - 1 : q.zone[t] \in Int
  <2>1. \A t, u \in DOMAIN q.zone :
          t <= u /\ u <= t + Hour /\ q.zone[t] = q.zone[u]
            => \A v \in DOMAIN q.zone : t <= v /\ v <= u => q.zone[v] = q.zone[t]
    BY ZonesAssumption
  <2>2. \A t \in DOMAIN q.zone : q.zone[t] \in Int
    BY ZonesAssumption
  <2>3. \A t, u \in start .. end - 1 : \A v \in t .. u : v \in start .. end - 1 /\ t <= v /\ v <= u
    BY <1>2
  <2> QED
    BY <1>2, <2>1, <2>2, <2>3 DEF SeldomChanges
<1>6. sqliteGroupExpr(sqliteTimeZoneSegments(start, end, q.zone), row.ts) = (row.ts + q.zone[row.ts]) \div Day
  BY <1>2, <1>3, <1>5, DayIsLocal
<1> QED
  BY <1>1, <1>4, <1>6

(* The sums by period and their split.                                       *)
LEMMA DailySumsKeep ==
  ASSUME ReportsIInv, PeriodsIInv, SumDaily \/ SplitDaily
  PROVE  PeriodsIInv'
<1>1. DOMAIN result = Fields /\ query # <<>>
  BY DEF ReportsIInv, LogSteps, SumDaily, SplitDaily
<1>2. UNCHANGED <<tick, table, batch, flushed, query>>
  BY DEF SumDaily, SplitDaily, Step
<1> DEFINE placed == {<<r, PeriodOf(r)>> : r \in Selected(query[1])}
<1>3. /\ result'.range = result.range /\ result'.buckets = result.buckets /\ result'.step # "range"
      /\ result'.periods \subseteq result.periods \cup placed
      /\ result'.split \subseteq result.split \cup placed
  <2>1. CASE SumDaily
    BY <1>1, <2>1 DEF SumDaily, Step, Fields
  <2>2. CASE SplitDaily
    <3> DEFINE own == {x \in Selected(query[1]) : x.cacheType = ""}
               ownPlaced == {<<r, PeriodOf(r)>> : r \in own}
    <3>1. /\ result'.range = result.range /\ result'.buckets = result.buckets /\ result'.step = "done"
          /\ result'.periods = result.periods /\ result'.split = ownPlaced
      BY <1>1, <2>2 DEF SplitDaily, Step, Fields
    <3>2. ownPlaced \subseteq placed
      OBVIOUS
    <3> HIDE DEF ownPlaced, placed
    <3> QED
      BY <3>1, <3>2
  <2> QED
    BY <2>1, <2>2
<1>4. ASSUME NEW x \in placed PROVE InItsDay(x)
  <2>1. PICK r \in table : x = <<r, PeriodOf(r)>>
    BY <1>4 DEF Selected
  <2>2. x[1] = r /\ x[2] = PeriodOf(r)
    BY <2>1
  <2> QED
    BY <1>1, <2>2, PeriodIsRight DEF InItsDay
<1> HIDE DEF placed
<1>5. \A x \in result'.periods \cup result'.split : InItsDay(x)
  BY <1>3, <1>4 DEF PeriodsIInv, RowsArePlaced
<1>6. RowsArePlaced'
  BY <1>1, <1>2, <1>3, <1>5 DEF PeriodsIInv, RowsArePlaced, InItsDay, InItsBucket
<1> QED
  BY <1>2, <1>3, <1>6 DEF PeriodsIInv, MomentsAreKnown, QueryIsAsked, RangeIsCovered

(* The chart.                                                                *)
LEMMA ChartKeeps ==
  ASSUME ReportsIInv, PeriodsIInv, GetTokenThroughput
  PROVE  PeriodsIInv'
<1>1. DOMAIN result = Fields /\ query # <<>> /\ tick \in Nat /\ tick <= MaxTick /\ RowsAreInsertedOnce
  BY DEF ReportsIInv, LogSteps, GetTokenThroughput, RowsAreInsertedOnce, PeriodsIInv, MomentsAreKnown
<1>2. UNCHANGED <<tick, table, batch, flushed, query>>
  BY DEF GetTokenThroughput, Step
<1>3. PICK q \in Queries : query = <<q>>
  BY <1>1 DEF PeriodsIInv, QueryIsAsked
<1> DEFINE offset == q.zone[tick]
           w == throughputWindow(tick, offset)
<1>4. offset \in Int
  <2>1. tick \in 0 .. MaxTick
    BY <1>1, ReportsAssumption
  <2> QED
    BY <2>1, ZonesAssumption
<1>5. /\ result'.range = result.range /\ result'.periods = result.periods
      /\ result'.split = result.split /\ result'.step = "done"
      /\ result'.buckets = {<<r, throughputBucket(r.ts, tick, offset), w.first>> :
                              r \in {x \in table : w.first <= x.ts /\ x.ts < w.upper}}
  BY <1>1, <1>3 DEF GetTokenThroughput, Step, Fields
<1> HIDE DEF offset
<1>6. ASSUME NEW x \in result'.buckets PROVE InItsBucket(x)
  <2>1. PICK r \in table : w.first <= r.ts /\ r.ts < w.upper
                           /\ x = <<r, throughputBucket(r.ts, tick, offset), w.first>>
    BY <1>5, <1>6
  <2>2. x[1] = r /\ x[2] = throughputBucket(r.ts, tick, offset) /\ x[3] = w.first
    BY <2>1
  <2>3. r.ts \in Nat
    BY <1>1, ReportsAssumption DEF RowsAreInsertedOnce
  <2> DEFINE ts == r.ts
             bucket == throughputBucket(ts, tick, offset)
  <2>4. bucket # <<>> /\ w.first + bucket[1] * Hour <= ts /\ ts < w.first + (bucket[1] + 1) * Hour
    <3>1. ts \in Nat /\ w.first <= ts /\ ts < w.upper
      BY <2>1, <2>3
    <3> HIDE DEF ts
    <3> QED
      BY <1>1, <1>4, <3>1, BucketIsLocal
  <2> HIDE DEF bucket, w
  <2>5. x[2] = bucket
    BY <2>2 DEF bucket
  <2> QED
    BY <2>2, <2>4, <2>5 DEF InItsBucket
<1>7. RowsArePlaced'
  BY <1>1, <1>2, <1>5, <1>6 DEF PeriodsIInv, RowsArePlaced, InItsDay, InItsBucket
<1> QED
  BY <1>2, <1>5, <1>7 DEF PeriodsIInv, MomentsAreKnown, QueryIsAsked, RangeIsCovered

-----------------------------------------------------------------------------
(* Theorems.                                                                 *)

(* The invariant of the table and of a walk through the log.                 *)
THEOREM ReportsInvariance == ReportsSpec => []ReportsIInv
<1>1. ReportsIInv /\ [ReportsNext]_reportVars => ReportsIInv'
  <2> SUFFICES ASSUME ReportsIInv, [ReportsNext]_reportVars PROVE ReportsIInv'
    OBVIOUS
  <2>1. CASE UNCHANGED reportVars
    BY <2>1 DEF reportVars, ReportsIInv, RowsAreInsertedOnce, LogSteps, NothingIsPassedOver, Asked, Selected
  <2> QED
    BY <2>1, TableStepsKeep, AskingKeeps, LogStepsKeep, OtherReportsKeep DEF ReportsNext
<1> QED
  BY <1>1, ReportsBegin, PTL DEF ReportsSpec

(* A client that asks for page after page until one is short misses no row    *)
(* that was there all the time, however the table changes between the pages   *)
(* (GetUsageLog, WriteBatch, cleanup).                                        *)
THEOREM PagesMissNothing == ReportsSpec => []PagingMissesNothing
<1>1. ReportsIInv => PagingMissesNothing
  BY DEF ReportsIInv, LogSteps, NothingIsPassedOver, PagingMissesNothing, Asked
<1> QED
  BY <1>1, ReportsInvariance, PTL

(* The invariant of the reports by period and of the chart.                  *)
THEOREM PeriodsInvariance == ReportsSpec => []PeriodsIInv
<1>1. ReportsIInv /\ PeriodsIInv /\ [ReportsNext]_reportVars => PeriodsIInv'
  <2> SUFFICES ASSUME ReportsIInv, PeriodsIInv, [ReportsNext]_reportVars PROVE PeriodsIInv'
    OBVIOUS
  <2>1. CASE UNCHANGED reportVars
    BY <2>1 DEF reportVars, PeriodsIInv, MomentsAreKnown, QueryIsAsked, RangeIsCovered, RowsArePlaced,
                InItsDay, InItsBucket
  <2> QED
    BY <2>1, QuietStepsKeep, AskingPlaces, RangeKeeps, DailySumsKeep, ChartKeeps DEF ReportsNext
<1> QED
  BY <1>1, PeriodsBegin, ReportsInvariance, PTL DEF ReportsSpec

(* A row of a report lies in the period of its instant in the zone of the     *)
(* query, and in its bucket of the chart, over any number of changes of the   *)
(* offset (sqliteTimeZoneSegments, sqliteGroupExpr, throughputAccumulator).   *)
THEOREM RowsLieInTheirPeriod == ReportsSpec => []RowsFallInTheirPeriod
<1>1. PeriodsIInv => RowsFallInTheirPeriod
  BY DEF PeriodsIInv, RowsArePlaced, InItsDay, InItsBucket, RowsFallInTheirPeriod
<1> QED
  BY <1>1, PeriodsInvariance, PTL
=============================================================================
