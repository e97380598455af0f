------------------------- MODULE ModelRegistry_proofs ------------------------
(* Machine-checked proofs about ModelRegistry: for any providers, models,    *)
(* configurations and bounds.                                                *)
EXTENDS ModelRegistry, WellFoundedInduction, TLAPS

(* An actor holds the refresh semaphore from its acquisition to its release; *)
(* the goroutine that fetches the first model list never does.               *)
Holds(x, a) ==
  \/ a.pc \in {"check", "fetch", "enrich", "apply", "mark"}
  \/ x = "loop" /\ a.pc = "list"

(* Which jobs an actor does, and what it has asked for.                      *)
Placed(x, a) ==
  /\ a.pc = "acquire" => a.job \in {"sweep", "providers"} \/ x = "loop"
  /\ a.pc = "list" => x \in {"loop", "lister"}
  /\ x = "lister" => a.pc \in {"list", "enrichall", "copy", "write", "done"}
  /\ a.pc = "fetch" => a.job = "sweep"
  /\ a.pc \in {"check", "mark"} => a.job = "providers"
  /\ a.pc \in {"acquire", "fetch"} /\ a.job = "sweep" => a.ask = Providers
  /\ a.pc \in {"enrich", "apply"} =>
       /\ DOMAIN a.got = a.ask
       /\ a.job \in {"sweep", "providers"}
       /\ a.job = "sweep" => a.ask = Providers

(* A fetch that brought no models recorded why, one without an answer        *)
(* brought none.                                                             *)
Tells(a) ==
  \A p \in DOMAIN a.got : /\ a.got[p].models = {} => a.got[p].error # NoError
                          /\ ~a.got[p].answer => a.got[p].models = {}

ActorsBehave ==
  \A x \in Actors : /\ Placed(x, actor[x])
                    /\ Tells(actor[x])
                    /\ Holds(x, actor[x]) <=> refreshCh = x

(* What was fetched under the semaphore is no older than the inventory that  *)
(* it will replace, and no newer than the provider.                          *)
FetchedInOrder(a) ==
  a.pc \in {"enrich", "apply"} =>
    \A p \in DOMAIN a.got : inventory[p].ver <= a.got[p].ver /\ a.got[p].ver <= health[p].ver

VersionsInOrder ==
  /\ \A p \in Providers : inventory[p].ver <= health[p].ver
  /\ \A x \in Actors : FetchedInOrder(actor[x])

(* A stale provider has failed a probe, or the refresh under way will fetch  *)
(* it; a refresh that marks providers has recorded their failure.            *)
Watches(a, p) ==
  a.pc \in {"check", "enrich", "apply"} /\ a.job = "providers" /\ p \in a.ask

FailuresRecorded(a) ==
  a.pc = "mark" =>
    \A p \in DOMAIN a.got : ~a.got[p].answer => runtime[p].fetchError # NoError

StaleIsWatched ==
  /\ \A p \in Providers : runtime[p].stale =>
       Failing(runtime, p) \/ \E x \in Actors : Watches(actor[x], p)
  /\ \A x \in Actors : FailuresRecorded(actor[x])

(* The global map is the one that the inventories and the stale marks give.  *)
MapIsRebuilt == models = rebuildGlobalModelMap(inventory, freshFirstProviderOrder(runtime))

RegistryIInv ==
  /\ RegistryTypeOK
  /\ ActorsBehave
  /\ VersionsInOrder
  /\ StaleIsWatched
  /\ MapIsRebuilt
  /\ LazyCachesAreCurrent
  /\ SomebodyStaysRoutable

-----------------------------------------------------------------------------
(* The operators.                                                            *)

(* The first of some providers is one of them.                               *)
LEMMA FirstIsOne ==
  ASSUME NEW names \in SUBSET Providers, names # {}
  PROVE  First(names) \in names
<1> DEFINE places == {i \in DOMAIN Order : Order[i] \in names}
<1>1. places \in SUBSET Nat /\ places # {}
  BY RegistryAssumption DEF Providers
<1>2. \E i \in places : \A j \in places : i <= j
  <2> DEFINE less == {pair \in Nat \X Nat : pair[1] < pair[2]}
  <2>1. IsWellFoundedOn(less, Nat)
    BY NatLessThanWellFounded DEF OpToRel
  <2>2. \E i \in places : \A j \in places : <<j, i>> \notin less
    <3> HIDE DEF less, places
    <3> QED
      BY <1>1, <2>1, WFMin
  <2>3. \A i, j \in Nat : <<j, i>> \notin less => i <= j
    OBVIOUS
  <2> HIDE DEF less, places
  <2> QED
    BY <1>1, <2>2, <2>3
<1>3. \E i \in DOMAIN Order :
        Order[i] \in names /\ \A j \in DOMAIN Order : Order[j] \in names => i <= j
  BY <1>2
<1> QED
  BY <1>3, Zenon DEF First

(* What the rebuilt map says of one bare id.                                 *)
LEMMA RebuiltMap ==
  ASSUME NEW inv, NEW back, NEW m \in Models
  PROVE  LET owners == {p \in Providers : m \in inv[p].models}
             owner == rebuildGlobalModelMap(inv, back)[m]
         IN /\ owners = {} => owner = Nobody
            /\ owners # {} => owner \in owners
            /\ owners \ back # {} => owner \in owners \ back
<1> DEFINE owners == {p \in Providers : m \in inv[p].models}
           owner == rebuildGlobalModelMap(inv, back)[m]
<1>1. owner = IF owners = {} THEN Nobody
              ELSE First(IF owners \subseteq back THEN owners ELSE owners \ back)
  BY DEF rebuildGlobalModelMap
<1>2. CASE owners = {}
  BY <1>1, <1>2
<1>3. CASE owners # {} /\ owners \subseteq back
  BY <1>1, <1>3, FirstIsOne
<1>4. CASE owners # {} /\ ~ (owners \subseteq back)
  <2>1. owner = First(owners \ back)
    BY <1>1, <1>4
  <2>2. owner \in owners \ back
    BY <1>4, <2>1, FirstIsOne
  <2> QED
    BY <1>4, <2>2
<1> QED
  BY <1>2, <1>3, <1>4

(* It maps bare ids to providers, or to nobody.                              *)
LEMMA RebuiltMapType ==
  ASSUME NEW inv, NEW back
  PROVE  rebuildGlobalModelMap(inv, back) \in [Models -> Providers \cup {Nobody}]
<1>1. \A m \in Models : rebuildGlobalModelMap(inv, back)[m] \in Providers \cup {Nobody}
  BY RebuiltMap
<1>2. rebuildGlobalModelMap(inv, back) = [m \in Models |-> rebuildGlobalModelMap(inv, back)[m]]
  BY DEF rebuildGlobalModelMap
<1> QED
  BY <1>1, <1>2

(* It reads nothing but the models of an inventory.                          *)
LEMMA RebuiltFromModels ==
  ASSUME NEW inv, NEW new, NEW back, \A p \in Providers : new[p].models = inv[p].models
  PROVE  rebuildGlobalModelMap(new, back) = rebuildGlobalModelMap(inv, back)
<1>1. \A m \in Models : {p \in Providers : m \in new[p].models} = {p \in Providers : m \in inv[p].models}
  OBVIOUS
<1> QED
  BY <1>1 DEF rebuildGlobalModelMap

(* A map rebuilt from the inventories and the stale marks is fresh.          *)
LEMMA RebuiltMapIsFresh ==
  ASSUME RegistryTypeOK, MapIsRebuilt
  PROVE  BareIdsResolveFresh
<1> SUFFICES ASSUME NEW m \in Models
             PROVE  LET owners == {p \in Providers : m \in inventory[p].models}
                        fresh == {p \in owners : ~runtime[p].stale}
                    IN /\ owners = {} => models[m] = Nobody
                       /\ owners # {} => models[m] \in owners
                       /\ fresh # {} => models[m] \in fresh
  BY DEF BareIdsResolveFresh
<1> DEFINE owners == {p \in Providers : m \in inventory[p].models}
           back == freshFirstProviderOrder(runtime)
<1>1. /\ owners = {} => models[m] = Nobody
      /\ owners # {} => models[m] \in owners
      /\ owners \ back # {} => models[m] \in owners \ back
  BY RebuiltMap DEF MapIsRebuilt
<1>2. owners \ back = {p \in owners : ~runtime[p].stale}
  BY DEF freshFirstProviderOrder
<1> QED
  BY <1>1, <1>2

(* What the configured models make of an upstream answer.                    *)
LEMMA ConfiguredOutcome ==
  ASSUME RegistryTypeOK, NEW p \in Providers,
         NEW upstream \in SUBSET Models, NEW err \in BOOLEAN
  PROVE  LET got == applyConfiguredProviderModels(p, upstream, err)
         IN /\ got \in Outcomes /\ got.ver = health[p].ver
            /\ got.models = {} => got.error # NoError
            /\ ~got.answer => got.models = {}
<1>1. Listed(p) \in SUBSET Models
  BY RegistryAssumption DEF RegistryTypeOK, Listed
<1>2. health[p].ver \in Nat
  BY DEF RegistryTypeOK
<1> DEFINE got == applyConfiguredProviderModels(p, upstream, err)
           base == [answer |-> TRUE, models |-> Listed(p), error |-> NoError,
                    probed |-> FALSE, ver |-> health[p].ver]
<1>3. CASE Listed(p) # {} /\ scenario.mode = "allowlist"
  BY <1>1, <1>2, <1>3 DEF applyConfiguredProviderModels, Outcomes
<1>4. CASE ~ (Listed(p) # {} /\ scenario.mode = "allowlist") /\ Listed(p) # {} /\ (err \/ upstream = {})
  <2>1. got = [base EXCEPT !.error = IF err THEN "failed" ELSE NoError]
    BY <1>4 DEF applyConfiguredProviderModels
  <2> QED
    BY <1>1, <1>2, <1>4, <2>1 DEF Outcomes
<1>5. CASE /\ ~ (Listed(p) # {} /\ scenario.mode = "allowlist")
           /\ ~ (Listed(p) # {} /\ (err \/ upstream = {})) /\ err
  <2>1. got = [base EXCEPT !.answer = FALSE, !.models = {}, !.error = "failed"]
    BY <1>5 DEF applyConfiguredProviderModels
  <2> QED
    BY <1>1, <1>2, <2>1 DEF Outcomes, NoError
<1>6. CASE /\ ~ (Listed(p) # {} /\ scenario.mode = "allowlist")
           /\ ~ (Listed(p) # {} /\ (err \/ upstream = {})) /\ ~ err /\ upstream = {}
  <2>1. got = [base EXCEPT !.models = {}, !.error = "empty"]
    BY <1>6 DEF applyConfiguredProviderModels
  <2> QED
    BY <1>1, <1>2, <2>1 DEF Outcomes, NoError
<1>7. CASE /\ ~ (Listed(p) # {} /\ scenario.mode = "allowlist")
           /\ ~ (Listed(p) # {} /\ (err \/ upstream = {})) /\ ~ err /\ upstream # {}
  <2>1. got = [base EXCEPT !.models = upstream, !.probed = TRUE]
    BY <1>7 DEF applyConfiguredProviderModels
  <2> QED
    BY <1>1, <1>2, <1>7, <2>1 DEF Outcomes
<1> QED
  BY <1>3, <1>4, <1>5, <1>6, <1>7

(* What the fetch of one provider brings: an answer of the provider as it is *)
(* now, and an error whenever it brings no models.                           *)
LEMMA FetchedOutcome ==
  ASSUME RegistryTypeOK, NEW p \in Providers
  PROVE  LET got == fetchProviderInventory(p)
         IN /\ got \in Outcomes /\ got.ver = health[p].ver
            /\ got.models = {} => got.error # NoError
            /\ ~got.answer => got.models = {}
<1>1. (IF health[p].state = "up" THEN Serves[p] ELSE {}) \in SUBSET Models
  BY RegistryAssumption
<1>2. (health[p].state \in {"down", "unlisted"}) \in BOOLEAN
  OBVIOUS
<1> QED
  BY <1>1, <1>2, ConfiguredOutcome DEF fetchProviderInventory

-----------------------------------------------------------------------------
(* What the actors do to themselves.                                         *)

(* An actor at rest has fetched nothing.                                     *)
Rested ==
  [pc : {"acquire", "list", "next", "idle", "done"}, job : {"none", "sweep", "providers", "list"},
   todo : SUBSET Providers, ask : SUBSET Providers, got : {NoGot}, meta : {0},
   queue : SUBSET Providers, copy : {NoCopy}]

(* Such a state is well-formed, and says nothing of any provider.            *)
LEMMA RestedIsAState ==
  ASSUME NEW a \in Rested
  PROVE  ActorState(a) /\ Tells(a) /\ FetchedInOrder(a) /\ FailuresRecorded(a)
<1>1. DOMAIN NoGot = {} /\ NoGot \in [DOMAIN NoGot -> Outcomes]
  BY DEF NoGot
<1>2. NoCopy \in Files
  BY DEF NoCopy, Files
<1> QED
  BY <1>1, <1>2 DEF Rested, ActorState, Tells, FetchedInOrder, FailuresRecorded

(* Where an actor goes when its job is over: to a rest without the semaphore *)
LEMMA AfterJobRests ==
  ASSUME RegistryTypeOK, NEW x \in Actors
  PROVE  AfterJob(x) \in Rested /\ Placed(x, AfterJob(x)) /\ ~Holds(x, AfterJob(x))
<1> DEFINE a == AfterJob(x)
<1>1. CASE x \in {"boot", "lister"}
  <2>1. a = AtRest("done")
    BY <1>1 DEF AfterJob
  <2> QED
    BY <2>1 DEF AtRest, Rested, Placed, Holds
<1>2. CASE x = "request"
  <2>1. a = AtRest("idle")
    BY <1>2 DEF AfterJob
  <2> QED
    BY <1>2, <2>1 DEF AtRest, Rested, Placed, Holds
<1>3. CASE x = "loop" /\ actor[x].job = "sweep"
  <2>1. a = [AtRest("acquire") EXCEPT !.job = "list"]
    BY <1>3 DEF AfterJob
  <2> QED
    BY <1>3, <2>1 DEF AtRest, Rested, Placed, Holds
<1>4. CASE x = "loop" /\ actor[x].job = "providers"
  <2>1. a = [AtRest("next") EXCEPT !.queue = actor[x].queue]
    BY <1>4 DEF AfterJob
  <2>2. actor[x].queue \in SUBSET Providers
    BY DEF RegistryTypeOK, ActorState
  <2> QED
    BY <1>4, <2>1, <2>2 DEF AtRest, Rested, Placed, Holds
<1>5. CASE x = "loop" /\ actor[x].job \notin {"sweep", "providers"}
  <2>1. a = AtRest("idle")
    BY <1>5 DEF AfterJob
  <2> QED
    BY <1>5, <2>1 DEF AtRest, Rested, Placed, Holds
<1> QED
  BY <1>1, <1>2, <1>3, <1>4, <1>5 DEF Actors

(* Actor x moves: it stays consistent, the others do not move, and it holds  *)
(* the semaphore exactly when it took it and has not released it.            *)
Moves(x) ==
  /\ DOMAIN actor' = Actors /\ \A y \in Actors \ {x} : actor'[y] = actor[y]
  /\ ActorState(actor'[x]) /\ Placed(x, actor'[x]) /\ Tells(actor'[x])
  /\ \/ Holds(x, actor'[x]) /\ refreshCh' = x /\ refreshCh \in {x, Nobody}
     \/ ~Holds(x, actor'[x]) /\ refreshCh' = IF refreshCh = x THEN Nobody ELSE refreshCh

(* A move of one actor leaves them all consistent with the semaphore.        *)
LEMMA OneActorMoves ==
  ASSUME RegistryTypeOK, ActorsBehave, NEW x \in Actors, Moves(x)
  PROVE  /\ DOMAIN actor' = Actors /\ \A y \in Actors : ActorState(actor'[y])
         /\ refreshCh' \in Actors \cup {Nobody}
         /\ ActorsBehave'
<1>1. Nobody \notin Actors
  BY DEF Nobody, Actors
<1>2. \A y \in Actors : /\ Placed(y, actor'[y]) /\ Tells(actor'[y])
                        /\ Holds(y, actor'[y]) <=> refreshCh' = y
  BY <1>1 DEF Moves, ActorsBehave
<1> QED
  BY <1>2 DEF Moves, ActorsBehave, RegistryTypeOK

(* A step in which an actor moves and the registry stays as it is.           *)
LEMMA QuietStep ==
  ASSUME RegistryIInv, NEW x \in Actors, Moves(x),
         UNCHANGED <<inventory, models, runtime, modelList, lazy, health, scenario, restarts>>,
         file' \in Files,
         FetchedInOrder(actor'[x]), FailuresRecorded(actor'[x]),
         \A p \in Providers : runtime[p].stale /\ Watches(actor[x], p)
                              => Failing(runtime, p) \/ Watches(actor'[x], p)
  PROVE  RegistryIInv'
<1>1. RegistryTypeOK' /\ ActorsBehave'
  BY OneActorMoves DEF RegistryIInv, RegistryTypeOK
<1>2. VersionsInOrder'
  BY DEF RegistryIInv, VersionsInOrder, Moves, FetchedInOrder
<1>3. StaleIsWatched'
  <2>1. \A y \in Actors : FailuresRecorded(actor[y])'
    BY DEF RegistryIInv, StaleIsWatched, Moves, FailuresRecorded
  <2>2. ASSUME NEW p \in Providers, runtime[p].stale
        PROVE  Failing(runtime, p) \/ \E y \in Actors : Watches(actor'[y], p)
    BY <2>2 DEF RegistryIInv, StaleIsWatched, Moves
  <2> QED
    BY <2>1, <2>2 DEF StaleIsWatched, Failing
<1>4. (MapIsRebuilt /\ LazyCachesAreCurrent /\ SomebodyStaysRoutable)'
  <2>1. /\ inventory' = inventory /\ models' = models /\ runtime' = runtime
        /\ sorted' = sorted /\ catalog' = catalog
    BY DEF lazy
  <2>2. MapIsRebuilt'
    BY <2>1 DEF RegistryIInv, MapIsRebuilt
  <2>3. LazyCachesAreCurrent'
    BY <2>1 DEF RegistryIInv, LazyCachesAreCurrent
  <2>4. SomebodyStaysRoutable'
    BY <2>1 DEF RegistryIInv, SomebodyStaysRoutable
  <2> QED
    BY <2>2, <2>3, <2>4
<1> QED
  BY <1>1, <1>2, <1>3, <1>4 DEF RegistryIInv

(* A step in which an actor comes to rest or leaves it for another one.      *)
LEMMA RestStep ==
  ASSUME RegistryIInv, NEW x \in Actors, NEW a \in Rested, Placed(x, a), ~Holds(x, a),
         actor' = [actor EXCEPT ![x] = a],
         refreshCh' = IF refreshCh = x THEN Nobody ELSE refreshCh,
         UNCHANGED <<inventory, models, runtime, modelList, lazy, health, scenario, restarts>>,
         file' \in Files,
         actor[x].pc \in {"check", "enrich", "apply"} => actor[x].ask = {}
  PROVE  RegistryIInv'
<1>1. DOMAIN actor = Actors
  BY DEF RegistryIInv, RegistryTypeOK
<1>2. /\ DOMAIN actor' = Actors /\ actor'[x] = a
      /\ \A y \in Actors \ {x} : actor'[y] = actor[y]
  BY <1>1
<1>3. ActorState(a) /\ Tells(a) /\ FetchedInOrder(a) /\ FailuresRecorded(a)
  BY RestedIsAState
<1>4. Moves(x)
  BY <1>2, <1>3 DEF Moves
<1>5. \A p \in Providers : ~Watches(actor[x], p)
  BY DEF Watches
<1> QED
  BY <1>2, <1>3, <1>4, <1>5, QuietStep

-----------------------------------------------------------------------------
(* The steps that leave the registry as it is.                               *)

(* The tickers of the loop, and a request that refreshes its provider.       *)
LEMMA StartsKeep ==
  ASSUME RegistryIInv,
         \/ StartSweep \/ StartRecheck \/ NextRecheck
         \/ \E s \in Providers \cup {TypeOf[p] : p \in Providers} : StartRequest(s)
  PROVE  RegistryIInv'
<1> USE DEF RegistryIInv
<1>1. \A x \in Actors : actor[x].pc \in {"idle", "next"} => refreshCh # x
  BY DEF ActorsBehave, Holds
<1>2. file \in Files
  BY DEF RegistryTypeOK
<1>3. CASE StartSweep
  <2> DEFINE a == [AtRest("acquire") EXCEPT !.job = "sweep", !.ask = Providers]
  <2>1. a \in Rested /\ Placed("loop", a) /\ ~Holds("loop", a)
    BY DEF AtRest, Rested, Placed, Holds
  <2>2. /\ actor' = [actor EXCEPT !["loop"] = a]
        /\ actor["loop"].pc = "idle" /\ "loop" \in Actors
        /\ UNCHANGED <<inventory, models, runtime, modelList, lazy, health, scenario, restarts, refreshCh, file>>
    BY <1>3 DEF StartSweep, At, registry, Actors
  <2> HIDE DEF a, RegistryIInv
  <2> QED
    BY <1>1, <1>2, <2>1, <2>2, RestStep
<1>4. CASE StartRecheck
  <2> DEFINE a == [AtRest("next") EXCEPT !.queue = FailedProviderNames]
  <2>1. a \in Rested /\ Placed("loop", a) /\ ~Holds("loop", a)
    BY DEF AtRest, Rested, Placed, Holds, FailedProviderNames
  <2>2. /\ actor' = [actor EXCEPT !["loop"] = a]
        /\ actor["loop"].pc = "idle" /\ "loop" \in Actors
        /\ UNCHANGED <<inventory, models, runtime, modelList, lazy, health, scenario, restarts, refreshCh, file>>
    BY <1>4 DEF StartRecheck, At, registry, Actors
  <2> HIDE DEF a, RegistryIInv
  <2> QED
    BY <1>1, <1>2, <2>1, <2>2, RestStep
<1>5. CASE NextRecheck
  <2> DEFINE queue == actor["loop"].queue
             a == IF queue = {} THEN AtRest("idle")
                  ELSE [AtRest("acquire") EXCEPT !.job = "providers", !.todo = {First(queue)},
                                                 !.queue = queue \ {First(queue)}]
  <2>1. /\ actor' = [actor EXCEPT !["loop"] = a]
        /\ actor["loop"].pc = "next" /\ "loop" \in Actors
        /\ UNCHANGED <<inventory, models, runtime, modelList, lazy, health, scenario, restarts, refreshCh, file>>
    BY <1>5 DEF NextRecheck, At, registry, Actors
  <2>2. queue \in SUBSET Providers
    BY <2>1 DEF RegistryTypeOK, ActorState
  <2>3. queue # {} => First(queue) \in Providers
    BY <2>2, FirstIsOne
  <2>4. a \in Rested /\ Placed("loop", a) /\ ~Holds("loop", a)
    <3> HIDE DEF queue
    <3> QED
      BY <2>2, <2>3 DEF AtRest, Rested, Placed, Holds
  <2> HIDE DEF a, RegistryIInv
  <2> QED
    BY <1>1, <1>2, <2>1, <2>4, RestStep
<1>6. ASSUME NEW s, StartRequest(s)
      PROVE  RegistryIInv'
  <2> DEFINE a == [AtRest("acquire") EXCEPT !.job = "providers", !.todo = Targets(s)]
  <2>1. Targets(s) \in SUBSET Providers
    BY DEF Targets
  <2>2. a \in Rested /\ Placed("request", a) /\ ~Holds("request", a)
    BY <2>1 DEF AtRest, Rested, Placed, Holds
  <2>3. /\ actor' = [actor EXCEPT !["request"] = a]
        /\ actor["request"].pc = "idle" /\ "request" \in Actors
        /\ UNCHANGED <<inventory, models, runtime, modelList, lazy, health, scenario, restarts, refreshCh, file>>
    BY <1>6 DEF StartRequest, At, registry, Actors
  <2> HIDE DEF a, RegistryIInv
  <2> QED
    BY <1>1, <1>2, <2>2, <2>3, RestStep
<1> QED
  BY <1>3, <1>4, <1>5, <1>6

(* The steps at which a job ends and the registry has not changed.           *)
LEMMA FinishKeeps ==
  ASSUME RegistryIInv, NEW x \in Actors,
         AcquireTimesOut(x) \/ NoTargets(x) \/ ListFails(x) \/ SaveToCacheWrites(x)
  PROVE  RegistryIInv'
<1>1. actor' = [actor EXCEPT ![x] = AfterJob(x)]
  BY DEF AcquireTimesOut, NoTargets, ListFails, SaveToCacheWrites, Finish
<1>2. UNCHANGED <<inventory, models, runtime, modelList, lazy, health, scenario, restarts>>
  BY DEF AcquireTimesOut, NoTargets, ListFails, SaveToCacheWrites, registry
<1>3. file' \in Files
  BY DEF AcquireTimesOut, NoTargets, ListFails, SaveToCacheWrites, RegistryIInv, RegistryTypeOK,
         ActorState
<1>4. actor[x].pc \in {"check", "enrich", "apply"} => actor[x].ask = {}
  BY DEF AcquireTimesOut, NoTargets, ListFails, SaveToCacheWrites, At
<1>5. refreshCh' = IF refreshCh = x THEN Nobody ELSE refreshCh
  BY DEF AcquireTimesOut, NoTargets, ListFails, SaveToCacheWrites, At, Release, RegistryIInv,
         ActorsBehave, Holds, Placed
<1> QED
  BY <1>1, <1>2, <1>3, <1>4, <1>5, AfterJobRests, RestStep DEF RegistryIInv

(* Taking the semaphore.                                                     *)
LEMMA AcquireKeeps ==
  ASSUME RegistryIInv, NEW x \in Actors, acquireRefresh(x)
  PROVE  RegistryIInv'
<1> DEFINE pc == CASE actor[x].job = "sweep" -> "fetch"
                   [] actor[x].job = "providers" -> "check"
                   [] OTHER -> "list"
<1>1. /\ actor[x].pc = "acquire" /\ actor' = [actor EXCEPT ![x].pc = pc]
      /\ refreshCh = Nobody /\ refreshCh' = x
      /\ UNCHANGED <<inventory, models, runtime, modelList, lazy, health, scenario, restarts, file>>
  BY DEF acquireRefresh, At, Goto, SemaphoreFree, registry
<1>2. ActorState(actor[x]) /\ Placed(x, actor[x]) /\ Tells(actor[x]) /\ file \in Files
      /\ DOMAIN actor = Actors
  BY DEF RegistryIInv, RegistryTypeOK, ActorsBehave
<1>3. \/ pc = "fetch" /\ actor[x].job = "sweep"
      \/ pc = "check" /\ actor[x].job = "providers"
      \/ pc = "list" /\ actor[x].job \notin {"sweep", "providers"}
  OBVIOUS
<1> HIDE DEF pc
<1>4. /\ DOMAIN actor' = Actors /\ \A y \in Actors \ {x} : actor'[y] = actor[y]
      /\ actor'[x] = [actor[x] EXCEPT !.pc = pc]
  BY <1>1, <1>2
<1>5. ActorState(actor'[x])
  BY <1>2, <1>3, <1>4 DEF ActorState
<1>6. /\ actor'[x].pc = pc /\ actor'[x].got = actor[x].got /\ actor'[x].job = actor[x].job
      /\ actor'[x].ask = actor[x].ask
  BY <1>2, <1>4 DEF ActorState
<1>7. Moves(x)
  BY <1>1, <1>2, <1>3, <1>4, <1>5, <1>6 DEF Moves, Placed, Tells, Holds
<1>8. \A p \in Providers : ~Watches(actor[x], p)
  BY <1>1 DEF Watches
<1> QED
  BY <1>1, <1>2, <1>3, <1>6, <1>7, <1>8, QuietStep DEF FetchedInOrder, FailuresRecorded

(* Fetching: what is brought is as new as the provider, and the provider is  *)
(* at least as new as the inventory.                                         *)
LEMMA FetchKeeps ==
  ASSUME RegistryIInv, NEW x \in Actors, fetchAllProviderModels(x)
  PROVE  RegistryIInv'
<1> DEFINE got == [p \in actor[x].ask |-> fetchProviderInventory(p)]
<1>1. /\ \/ actor[x].pc = "fetch"
         \/ actor[x].pc = "check"
      /\ actor' = [actor EXCEPT ![x].pc = "enrich", ![x].got = got]
      /\ UNCHANGED <<inventory, models, runtime, modelList, lazy, health, scenario, restarts, file, refreshCh>>
  BY DEF fetchAllProviderModels, At, registry
<1>2. ActorState(actor[x]) /\ Placed(x, actor[x]) /\ file \in Files /\ DOMAIN actor = Actors
  BY DEF RegistryIInv, RegistryTypeOK, ActorsBehave
<1>3. actor[x].ask \subseteq Providers
  BY <1>2 DEF ActorState
<1>4. /\ DOMAIN got = actor[x].ask
      /\ \A p \in DOMAIN got : /\ got[p] \in Outcomes /\ got[p].ver = health[p].ver
                               /\ got[p].models = {} => got[p].error # NoError
                               /\ ~got[p].answer => got[p].models = {}
  BY <1>3, FetchedOutcome DEF RegistryIInv
<1>5. got \in [actor[x].ask -> Outcomes]
  BY <1>4
<1> HIDE DEF got
<1>6. /\ DOMAIN actor' = Actors /\ \A y \in Actors \ {x} : actor'[y] = actor[y]
      /\ actor'[x] = [actor[x] EXCEPT !.pc = "enrich", !.got = got]
  BY <1>1, <1>2
<1>7. /\ actor'[x].pc = "enrich" /\ actor'[x].got = got /\ actor'[x].job = actor[x].job
      /\ actor'[x].ask = actor[x].ask
  BY <1>2, <1>6 DEF ActorState
<1>8. ActorState(actor'[x])
  <2>1. /\ DOMAIN actor'[x].got \subseteq Providers
        /\ actor'[x].got \in [DOMAIN actor'[x].got -> Outcomes]
    BY <1>3, <1>4, <1>5, <1>7
  <2> QED
    BY <1>2, <1>6, <1>7, <2>1 DEF ActorState
<1>9. Placed(x, actor'[x])
  BY <1>1, <1>2, <1>4, <1>7 DEF Placed
<1>10. Tells(actor'[x])
  BY <1>4, <1>7 DEF Tells
<1>11. refreshCh = x
  BY <1>1 DEF RegistryIInv, ActorsBehave, Holds
<1>12. Moves(x)
  BY <1>1, <1>6, <1>7, <1>8, <1>9, <1>10, <1>11 DEF Moves, Holds
<1>13. FetchedInOrder(actor'[x]) /\ FailuresRecorded(actor'[x])
  <2>1. \A p \in DOMAIN got : inventory[p].ver <= health[p].ver /\ health[p].ver <= health[p].ver
    BY <1>3, <1>4 DEF RegistryIInv, VersionsInOrder, RegistryTypeOK
  <2> QED
    BY <1>4, <1>7, <2>1 DEF FetchedInOrder, FailuresRecorded
<1>14. \A p \in Providers : Watches(actor[x], p) => Watches(actor'[x], p)
  BY <1>7 DEF Watches
<1> QED
  BY <1>1, <1>2, <1>12, <1>13, <1>14, QuietStep

(* Reading the model list for what was fetched; copying the registry for the *)
(* cache file.                                                               *)
LEMMA ReadsKeep ==
  ASSUME RegistryIInv, NEW x \in Actors,
         enrichFetchedProviderModelMaps(x) \/ SaveToCacheCopies(x)
  PROVE  RegistryIInv'
<1>1. ActorState(actor[x]) /\ Placed(x, actor[x]) /\ Tells(actor[x]) /\ file \in Files
      /\ DOMAIN actor = Actors /\ modelList \in {0, 1} /\ FetchedInOrder(actor[x])
      /\ (Holds(x, actor[x]) <=> refreshCh = x)
  BY DEF RegistryIInv, RegistryTypeOK, ActorsBehave, VersionsInOrder
<1>2. UNCHANGED <<inventory, models, runtime, modelList, lazy, health, scenario, restarts, file, refreshCh>>
  BY DEF enrichFetchedProviderModelMaps, SaveToCacheCopies, registry
<1>3. CASE enrichFetchedProviderModelMaps(x)
  <2>1. actor[x].pc = "enrich" /\ actor' = [actor EXCEPT ![x].pc = "apply", ![x].meta = modelList]
    BY <1>3 DEF enrichFetchedProviderModelMaps, At
  <2>2. /\ DOMAIN actor' = Actors /\ \A y \in Actors \ {x} : actor'[y] = actor[y]
        /\ actor'[x] = [actor[x] EXCEPT !.pc = "apply", !.meta = modelList]
    BY <1>1, <2>1
  <2>3. /\ actor'[x].pc = "apply" /\ actor'[x].got = actor[x].got
        /\ actor'[x].job = actor[x].job /\ actor'[x].ask = actor[x].ask
    BY <1>1, <2>2 DEF ActorState
  <2>4. ActorState(actor'[x])
    BY <1>1, <2>2, <2>3 DEF ActorState
  <2>5. Moves(x)
    BY <1>1, <1>2, <2>1, <2>2, <2>3, <2>4 DEF Moves, Placed, Tells, Holds
  <2>6. FetchedInOrder(actor'[x]) /\ FailuresRecorded(actor'[x])
    BY <1>1, <2>1, <2>3 DEF FetchedInOrder, FailuresRecorded
  <2>7. \A p \in Providers : Watches(actor[x], p) => Watches(actor'[x], p)
    BY <2>3 DEF Watches
  <2> QED
    BY <1>1, <1>2, <2>5, <2>6, <2>7, QuietStep
<1>4. CASE SaveToCacheCopies(x)
  <2> DEFINE copy == <<[inventory |-> [p \in Providers |-> inventory[p].models],
                        modelList |-> modelList]>>
  <2>1. actor[x].pc = "copy" /\ actor' = [actor EXCEPT ![x].pc = "write", ![x].copy = copy]
    BY <1>4 DEF SaveToCacheCopies, At
  <2>2. copy \in Files
    <3>1. [p \in Providers |-> inventory[p].models] \in [Providers -> SUBSET Models]
      BY DEF RegistryIInv, RegistryTypeOK
    <3> QED
      BY <1>1, <3>1 DEF Files
  <2> HIDE DEF copy
  <2>3. /\ DOMAIN actor' = Actors /\ \A y \in Actors \ {x} : actor'[y] = actor[y]
        /\ actor'[x] = [actor[x] EXCEPT !.pc = "write", !.copy = copy]
    BY <1>1, <2>1
  <2>4. actor'[x].pc = "write" /\ actor'[x].got = actor[x].got
    BY <1>1, <2>3 DEF ActorState
  <2>5. ActorState(actor'[x])
    BY <1>1, <2>2, <2>3, <2>4 DEF ActorState
  <2>6. Moves(x)
    BY <1>1, <1>2, <2>1, <2>3, <2>4, <2>5 DEF Moves, Placed, Tells, Holds
  <2>7. FetchedInOrder(actor'[x]) /\ FailuresRecorded(actor'[x])
    BY <2>4 DEF FetchedInOrder, FailuresRecorded
  <2>8. \A p \in Providers : ~Watches(actor[x], p)
    BY <2>1 DEF Watches
  <2> QED
    BY <1>1, <1>2, <2>6, <2>7, <2>8, QuietStep
<1> QED
  BY <1>3, <1>4

-----------------------------------------------------------------------------
(* The steps that change the registry.                                       *)

Runtimes == [Providers -> [fetchError : {NoError, "failed", "empty"},
                           availError : {NoError, "failed"}, stale : BOOLEAN]]

(* The order of the rebuilt map depends on the stale marks alone.            *)
LEMMA OrderFromMarks ==
  ASSUME NEW rt, NEW old, \A p \in Providers : rt[p].stale = old[p].stale
  PROVE  freshFirstProviderOrder(rt) = freshFirstProviderOrder(old)
BY DEF freshFirstProviderOrder

(* Retiring a provider changes its mark only, and needs a healthy one.       *)
LEMMA MarkedRuntime ==
  ASSUME NEW rt \in Runtimes, NEW inv, NEW p \in Providers
  PROVE  LET marked == MarkedStale(rt, inv, p)
         IN /\ marked \in Runtimes
            /\ \A q \in Providers : /\ marked[q].fetchError = rt[q].fetchError
                                    /\ marked[q].availError = rt[q].availError
                                    /\ q # p => marked[q].stale = rt[q].stale
            /\ \/ marked = rt
               \/ /\ marked[p].stale /\ ~rt[p].stale
                  /\ \E q \in Providers : inv[q].models # {} /\ ~marked[q].stale
<1> DEFINE marked == MarkedStale(rt, inv, p)
<1>1. CASE ~MayBeMarkedStale(rt, inv, p)
  BY <1>1 DEF MarkedStale
<1>2. CASE MayBeMarkedStale(rt, inv, p)
  <2>1. marked = [rt EXCEPT ![p].stale = TRUE]
    BY <1>2 DEF MarkedStale
  <2>2. \E q \in Providers \ {p} : inv[q].models # {} /\ ~rt[q].stale
    BY <1>2 DEF MayBeMarkedStale, HealthyAlternative
  <2>3. ~rt[p].stale
    BY <1>2 DEF MayBeMarkedStale
  <2>4. marked \in Runtimes
    BY <2>1 DEF Runtimes
  <2>5. \A q \in Providers : /\ marked[q].fetchError = rt[q].fetchError
                             /\ marked[q].availError = rt[q].availError
                             /\ q # p => marked[q].stale = rt[q].stale
    <3>1. ASSUME NEW q \in Providers \ {p}
          PROVE  marked[q] = rt[q]
      BY <2>1 DEF Runtimes
    <3>2. marked[p].fetchError = rt[p].fetchError /\ marked[p].availError = rt[p].availError
      BY <2>1 DEF Runtimes
    <3> QED
      BY <3>1, <3>2
  <2>6. marked[p].stale
    BY <2>1 DEF Runtimes
  <2> QED
    BY <2>2, <2>3, <2>4, <2>5, <2>6
<1> QED
  BY <1>1, <1>2

(* Nobody but the holder of the semaphore watches a provider, has fetched    *)
(* inventory to apply, or has providers to mark.                             *)
LEMMA OnlyTheHolder ==
  ASSUME ActorsBehave, NEW x \in Actors, refreshCh = x, NEW y \in Actors \ {x}
  PROVE  /\ actor[y].pc \notin {"check", "fetch", "enrich", "apply", "mark"}
         /\ \A p : ~Watches(actor[y], p)
BY DEF ActorsBehave, Holds, Watches

(* The tables after a step that rebuilt the map and dropped the lists.       *)
LEMMA RebuiltTables ==
  ASSUME models' = rebuildGlobalModelMap(inventory', freshFirstProviderOrder(runtime')),
         invalidateSortedCaches
  PROVE  MapIsRebuilt' /\ LazyCachesAreCurrent'
BY DEF MapIsRebuilt, LazyCachesAreCurrent, invalidateSortedCaches

(* The tables after a step that touched neither models nor marks.            *)
LEMMA UntouchedTables ==
  ASSUME RegistryIInv, UNCHANGED <<inventory, models, lazy>>,
         \A p \in Providers : runtime'[p].stale = runtime[p].stale
  PROVE  MapIsRebuilt' /\ LazyCachesAreCurrent'
<1>1. inventory' = inventory /\ models' = models /\ sorted' = sorted /\ catalog' = catalog
  BY DEF lazy
<1>2. freshFirstProviderOrder(runtime') = freshFirstProviderOrder(runtime)
  BY OrderFromMarks
<1> QED
  BY <1>1, <1>2 DEF RegistryIInv, MapIsRebuilt, LazyCachesAreCurrent

(* One availability check, and the retirement that a failed one asks for.    *)
LEMMA CheckKeeps ==
  ASSUME RegistryIInv, NEW x \in Actors, CheckAvailability(x)
  PROVE  RegistryIInv'
<1> DEFINE p == First(actor[x].todo)
           fails == p \in Checkers /\ health[p].state = "down"
           recorded == IF p \notin Checkers THEN runtime
                       ELSE [runtime EXCEPT ![p].availError = IF fails THEN "failed" ELSE NoError]
           marked == IF fails THEN MarkedStale(recorded, inventory, p) ELSE recorded
           ask == IF fails THEN actor[x].ask ELSE actor[x].ask \cup {p}
<1>1. /\ actor[x].pc = "check" /\ actor[x].todo # {}
      /\ runtime' = marked
      /\ actor' = [actor EXCEPT ![x].todo = actor[x].todo \ {p}, ![x].ask = ask]
      /\ IF marked[p].stale # recorded[p].stale
         THEN /\ models' = rebuildGlobalModelMap(inventory, freshFirstProviderOrder(marked))
              /\ invalidateSortedCaches
         ELSE UNCHANGED <<models, lazy>>
      /\ UNCHANGED <<inventory, modelList, initialized, refreshCh, file, health, scenario, faults, restarts>>
  BY DEF CheckAvailability, At
<1>2. ActorState(actor[x]) /\ Placed(x, actor[x]) /\ Tells(actor[x]) /\ DOMAIN actor = Actors
      /\ actor[x].todo \in SUBSET Providers
  BY DEF RegistryIInv, RegistryTypeOK, ActorsBehave, ActorState
<1>3. p \in Providers
  BY <1>1, <1>2, FirstIsOne
<1>4. runtime \in Runtimes
  BY DEF RegistryIInv, RegistryTypeOK, Runtimes
<1> HIDE DEF p
<1>5. /\ recorded \in Runtimes
      /\ \A q \in Providers : /\ recorded[q].stale = runtime[q].stale
                              /\ recorded[q].fetchError = runtime[q].fetchError
                              /\ q # p => recorded[q].availError = runtime[q].availError
      /\ fails => recorded[p].availError # NoError
  <2>1. CASE p \notin Checkers
    BY <1>4, <2>1
  <2>2. CASE p \in Checkers /\ fails
    BY <1>3, <1>4, <2>2 DEF Runtimes, NoError
  <2>3. CASE p \in Checkers /\ ~fails
    BY <1>3, <1>4, <2>3 DEF Runtimes, NoError
  <2> QED
    BY <2>1, <2>2, <2>3
<1> HIDE DEF recorded, fails
<1>6. /\ marked \in Runtimes
      /\ \A q \in Providers : /\ marked[q].fetchError = recorded[q].fetchError
                              /\ marked[q].availError = recorded[q].availError
                              /\ q # p => marked[q].stale = recorded[q].stale
      /\ \/ marked = recorded
         \/ /\ fails /\ marked[p].stale /\ ~recorded[p].stale
            /\ \E q \in Providers : inventory[q].models # {} /\ ~marked[q].stale
  <2>1. CASE fails
    <3>1. marked = MarkedStale(recorded, inventory, p)
      BY <2>1
    <3> HIDE DEF marked
    <3> QED
      BY <1>3, <1>5, <2>1, <3>1, MarkedRuntime
  <2>2. CASE ~fails
    BY <1>5, <2>2
  <2> QED
    BY <2>1, <2>2
<1> HIDE DEF marked
<1>7. /\ DOMAIN actor' = Actors /\ \A y \in Actors \ {x} : actor'[y] = actor[y]
      /\ actor'[x] = [actor[x] EXCEPT !.todo = actor[x].todo \ {p}, !.ask = ask]
  BY <1>1, <1>2
<1>8. ask \in SUBSET Providers /\ (~fails => p \in ask) /\ actor[x].ask \subseteq ask
  BY <1>2, <1>3 DEF ActorState
<1> HIDE DEF ask
<1>9. /\ actor'[x].pc = "check" /\ actor'[x].got = actor[x].got /\ actor'[x].ask = ask
      /\ actor'[x].job = actor[x].job
  BY <1>1, <1>2, <1>7 DEF ActorState
<1>10. ActorState(actor'[x])
  BY <1>2, <1>7, <1>8, <1>9 DEF ActorState
<1>11. refreshCh = x /\ actor[x].job = "providers"
  BY <1>1, <1>2 DEF RegistryIInv, ActorsBehave, Holds, Placed
<1>12. Moves(x)
  BY <1>1, <1>2, <1>7, <1>9, <1>10, <1>11 DEF Moves, Placed, Tells, Holds
<1>13. RegistryTypeOK' /\ ActorsBehave'
  <2>1. models' \in [Models -> Providers \cup {Nobody}]
    BY <1>1, RebuiltMapType DEF RegistryIInv, RegistryTypeOK
  <2>2. /\ DOMAIN actor' = Actors /\ \A y \in Actors : ActorState(actor'[y])
        /\ refreshCh' \in Actors \cup {Nobody}
        /\ ActorsBehave'
    BY <1>12, OneActorMoves DEF RegistryIInv
  <2> QED
    BY <1>1, <1>6, <2>1, <2>2 DEF RegistryIInv, RegistryTypeOK, Runtimes
<1>14. VersionsInOrder'
  BY <1>1, <1>7, <1>9 DEF RegistryIInv, VersionsInOrder, FetchedInOrder
<1>15. StaleIsWatched'
  <2>1. \A y \in Actors : FailuresRecorded(actor[y])'
    BY <1>7, <1>9, <1>11, OnlyTheHolder DEF FailuresRecorded, RegistryIInv
  <2>2. ASSUME NEW q \in Providers, runtime'[q].stale
        PROVE  Failing(runtime', q) \/ Watches(actor'[x], q)
    <3>1. CASE q = p
      BY <1>1, <1>3, <1>5, <1>6, <1>8, <1>9, <1>11, <3>1 DEF Failing, Watches
    <3>2. CASE q # p
      <4>1. runtime[q].stale
        BY <1>1, <1>5, <1>6, <2>2, <3>2
      <4>2. CASE Failing(runtime, q)
        BY <1>1, <1>5, <1>6, <3>2, <4>2 DEF Failing
      <4>3. CASE Watches(actor[x], q)
        BY <1>8, <1>9, <4>3 DEF Watches
      <4> QED
        BY <1>11, <4>1, <4>2, <4>3, OnlyTheHolder DEF RegistryIInv, StaleIsWatched
    <3> QED
      BY <3>1, <3>2
  <2> QED
    BY <2>1, <2>2 DEF StaleIsWatched, Failing
<1>16. MapIsRebuilt' /\ LazyCachesAreCurrent'
  <2>1. CASE marked[p].stale # recorded[p].stale
    BY <1>1, <2>1, RebuiltTables
  <2>2. CASE marked[p].stale = recorded[p].stale
    <3>1. UNCHANGED <<inventory, models, lazy>>
      BY <1>1, <2>2
    <3>2. \A q \in Providers : runtime'[q].stale = runtime[q].stale
      BY <1>1, <1>5, <1>6, <2>2
    <3> QED
      BY <3>1, <3>2, UntouchedTables
  <2> QED
    BY <2>1, <2>2
<1>17. SomebodyStaysRoutable'
  <2>1. CASE marked = recorded
    BY <1>1, <1>5, <2>1 DEF RegistryIInv, SomebodyStaysRoutable
  <2>2. CASE \E q \in Providers : inventory[q].models # {} /\ ~marked[q].stale
    BY <1>1, <2>2 DEF SomebodyStaysRoutable
  <2> QED
    BY <1>6, <2>1, <2>2
<1> QED
  BY <1>13, <1>14, <1>15, <1>16, <1>17 DEF RegistryIInv

(* Recording the outcomes of a fetch.                                        *)
LEMMA UpdatedRuntime ==
  ASSUME RegistryTypeOK, NEW got, got \in [DOMAIN got -> Outcomes]
  PROVE  LET rt == WithRuntimeUpdates(runtime, got)
         IN /\ rt \in Runtimes
            /\ \A p \in Providers : /\ rt[p].stale = runtime[p].stale
                                    /\ p \in DOMAIN got => rt[p].fetchError = got[p].error
                                    /\ p \notin DOMAIN got => rt[p] = runtime[p]
<1> DEFINE rt == WithRuntimeUpdates(runtime, got)
<1>1. ASSUME NEW p \in Providers, p \notin DOMAIN got
      PROVE  rt[p] = runtime[p]
  BY <1>1 DEF WithRuntimeUpdates
<1>2. ASSUME NEW p \in Providers, p \in DOMAIN got
      PROVE  /\ rt[p] \in [fetchError : {NoError, "failed", "empty"},
                           availError : {NoError, "failed"}, stale : BOOLEAN]
             /\ rt[p].stale = runtime[p].stale /\ rt[p].fetchError = got[p].error
  <2>1. rt[p] = [runtime[p] EXCEPT !.fetchError = got[p].error,
                                   !.availError = IF got[p].probed THEN NoError
                                                  ELSE runtime[p].availError]
    BY <1>2 DEF WithRuntimeUpdates
  <2>2. /\ runtime[p] \in [fetchError : {NoError, "failed", "empty"},
                           availError : {NoError, "failed"}, stale : BOOLEAN]
        /\ got[p].error \in {NoError, "failed", "empty"}
    BY <1>2 DEF RegistryTypeOK, Outcomes
  <2> HIDE DEF rt
  <2> QED
    BY <2>1, <2>2
<1>3. \A p \in Providers : rt[p] \in [fetchError : {NoError, "failed", "empty"},
                                      availError : {NoError, "failed"}, stale : BOOLEAN]
  BY <1>1, <1>2 DEF RegistryTypeOK
<1>4. rt \in Runtimes
  BY <1>3 DEF WithRuntimeUpdates, Runtimes
<1> QED
  BY <1>1, <1>2, <1>4

(* Swapping in what was fetched.                                             *)
LEMMA FetchedInventory ==
  ASSUME RegistryTypeOK, NEW got, got \in [DOMAIN got -> Outcomes], NEW meta \in {0, 1}
  PROVE  LET inv == Fetched(inventory, got, meta)
         IN /\ inv \in [Providers -> [models : SUBSET Models, meta : {0, 1}, ver : Nat]]
            /\ \A p \in Providers :
                 /\ p \in DOMAIN got /\ got[p].answer => /\ inv[p].models = got[p].models
                                                         /\ inv[p].ver = got[p].ver
                 /\ ~(p \in DOMAIN got /\ got[p].answer) => inv[p] = inventory[p]
<1> DEFINE inv == Fetched(inventory, got, meta)
<1>1. ASSUME NEW p \in Providers, ~(p \in DOMAIN got /\ got[p].answer)
      PROVE  inv[p] = inventory[p]
  BY <1>1 DEF Fetched
<1>2. ASSUME NEW p \in Providers, p \in DOMAIN got, got[p].answer
      PROVE  /\ inv[p] \in [models : SUBSET Models, meta : {0, 1}, ver : Nat]
             /\ inv[p].models = got[p].models /\ inv[p].ver = got[p].ver
  <2>1. inv[p] = [models |-> got[p].models, ver |-> got[p].ver,
                  meta |-> IF got[p].models = {} THEN 0 ELSE meta]
    BY <1>2 DEF Fetched
  <2>2. got[p].models \in SUBSET Models /\ got[p].ver \in Nat
    BY <1>2 DEF Outcomes
  <2> HIDE DEF inv
  <2> QED
    BY <2>1, <2>2
<1>3. \A p \in Providers : inv[p] \in [models : SUBSET Models, meta : {0, 1}, ver : Nat]
  BY <1>1, <1>2 DEF RegistryTypeOK
<1>4. inv \in [Providers -> [models : SUBSET Models, meta : {0, 1}, ver : Nat]]
  BY <1>3 DEF Fetched
<1> QED
  BY <1>1, <1>2, <1>4

(* A move of the holder to a place from which it neither applies a fetch nor *)
(* watches a provider leaves the versions and the marks in order, if the new *)
(* inventories and runtime states are.                                       *)
LEMMA HolderMoves ==
  ASSUME RegistryIInv, NEW x \in Actors, refreshCh = x, Moves(x),
         actor'[x].pc \notin {"check", "fetch", "enrich", "apply"},
         health' = health,
         \A p \in Providers : inventory'[p].ver <= health[p].ver,
         \A p \in Providers : runtime'[p].stale => Failing(runtime', p),
         actor'[x].pc = "mark" =>
           \A p \in DOMAIN actor'[x].got : ~actor'[x].got[p].answer => runtime'[p].fetchError # NoError
  PROVE  VersionsInOrder' /\ StaleIsWatched'
<1>1. \A y \in Actors \ {x} : /\ actor'[y] = actor[y]
                              /\ actor[y].pc \notin {"check", "fetch", "enrich", "apply", "mark"}
  BY OnlyTheHolder DEF Moves, RegistryIInv
<1>2. VersionsInOrder'
  BY <1>1 DEF VersionsInOrder, FetchedInOrder
<1>3. \A y \in Actors : FailuresRecorded(actor[y])'
  BY <1>1 DEF FailuresRecorded
<1>4. \A p \in Providers : runtime'[p].stale => Failing(runtime, p)'
  BY DEF Failing
<1> QED
  BY <1>2, <1>3, <1>4 DEF StaleIsWatched

(* A stale provider that the refresh under way did not fetch has failed.     *)
LEMMA UnfetchedStaleFailed ==
  ASSUME RegistryIInv, NEW x \in Actors, refreshCh = x, actor[x].pc = "apply",
         NEW p \in Providers, p \notin DOMAIN actor[x].got, runtime[p].stale
  PROVE  Failing(runtime, p)
<1>1. \A y \in Actors : ~Watches(actor[y], p)
  BY OnlyTheHolder DEF RegistryIInv, ActorsBehave, Placed, Watches
<1> QED
  BY <1>1 DEF RegistryIInv, StaleIsWatched

(* A sweep that brought nothing: every provider has failed, nothing moves.   *)
LEMMA SweepFailsKeeps ==
  ASSUME RegistryIInv, NEW x \in Actors, SweepFails(x)
  PROVE  RegistryIInv'
<1> DEFINE got == actor[x].got
           a == AfterJob(x)
<1>1. /\ actor[x].pc = "apply" /\ actor[x].job = "sweep"
      /\ TotalModels(got) = {}
      /\ runtime' = WithRuntimeUpdates(runtime, got)
      /\ refreshCh' = Nobody
      /\ actor' = [actor EXCEPT ![x] = a]
      /\ UNCHANGED <<inventory, models, modelList, initialized, lazy, file, health, scenario, faults, restarts>>
  BY DEF SweepFails, At, Release, Finish
<1>2. /\ ActorState(actor[x]) /\ DOMAIN actor = Actors /\ DOMAIN got = Providers
      /\ Tells(actor[x]) /\ refreshCh = x
  BY <1>1 DEF RegistryIInv, RegistryTypeOK, ActorsBehave, Holds, Placed
<1>3. got \in [DOMAIN got -> Outcomes]
  BY <1>2 DEF ActorState
<1>4. \A p \in Providers : got[p].error # NoError
  BY <1>1, <1>2 DEF TotalModels, Tells
<1>5. /\ runtime' \in Runtimes
      /\ \A p \in Providers : /\ runtime'[p].stale = runtime[p].stale
                              /\ runtime'[p].fetchError # NoError
  BY <1>1, <1>2, <1>3, <1>4, UpdatedRuntime DEF RegistryIInv
<1>6. a \in Rested /\ Placed(x, a) /\ ~Holds(x, a)
  BY AfterJobRests DEF RegistryIInv
<1>7. /\ DOMAIN actor' = Actors /\ actor'[x] = a
      /\ \A y \in Actors \ {x} : actor'[y] = actor[y]
  BY <1>1, <1>2
<1>8. Moves(x)
  BY <1>1, <1>2, <1>6, <1>7, RestedIsAState DEF Moves
<1>9. RegistryTypeOK' /\ ActorsBehave'
  BY <1>1, <1>5, <1>8, OneActorMoves DEF RegistryIInv, RegistryTypeOK, Runtimes
<1>10. VersionsInOrder' /\ StaleIsWatched'
  <2>1. a.pc \notin {"check", "fetch", "enrich", "apply", "mark"}
    BY <1>6 DEF Holds
  <2>2. \A p \in Providers : Failing(runtime', p)
    BY <1>5 DEF Failing
  <2>3. \A p \in Providers : inventory'[p].ver <= health[p].ver
    BY <1>1 DEF RegistryIInv, VersionsInOrder
  <2> HIDE DEF a, got
  <2> QED
    BY <1>1, <1>2, <1>7, <1>8, <2>1, <2>2, <2>3, HolderMoves
<1>11. MapIsRebuilt' /\ LazyCachesAreCurrent'
  BY <1>1, <1>5, UntouchedTables
<1>12. SomebodyStaysRoutable'
  BY <1>1, <1>5 DEF RegistryIInv, SomebodyStaysRoutable
<1> QED
  BY <1>9, <1>10, <1>11, <1>12 DEF RegistryIInv

(* A sweep that brought something: its providers with models are fresh.      *)
LEMMA SweepKeeps ==
  ASSUME RegistryIInv, NEW x \in Actors, applyFetchedInventory(x)
  PROVE  RegistryIInv'
<1> DEFINE got == actor[x].got
<1>1. /\ actor[x].pc = "apply" /\ actor[x].job = "sweep"
      /\ TotalModels(got) # {}
      /\ inventory' = Fetched(inventory, got, actor[x].meta)
      /\ runtime' = SweepRuntime(got)
      /\ models' = rebuildGlobalModelMap(inventory', freshFirstProviderOrder(runtime'))
      /\ invalidateSortedCaches
      /\ refreshCh' = Nobody
      /\ actor' = [actor EXCEPT ![x].pc = "copy"]
      /\ UNCHANGED <<modelList, file, health, scenario, faults, restarts>>
  BY DEF applyFetchedInventory, At, Release, Goto, Swap, IndexOrder
<1>2. /\ ActorState(actor[x]) /\ DOMAIN actor = Actors /\ DOMAIN got = Providers
      /\ Placed(x, actor[x]) /\ Tells(actor[x]) /\ refreshCh = x
  BY <1>1 DEF RegistryIInv, RegistryTypeOK, ActorsBehave, Holds, Placed
<1>3. got \in [DOMAIN got -> Outcomes] /\ actor[x].meta \in {0, 1}
  BY <1>2 DEF ActorState
<1>4. /\ inventory' \in [Providers -> [models : SUBSET Models, meta : {0, 1}, ver : Nat]]
      /\ \A p \in Providers : /\ got[p].answer => /\ inventory'[p].models = got[p].models
                                                  /\ inventory'[p].ver = got[p].ver
                              /\ ~got[p].answer => inventory'[p] = inventory[p]
  BY <1>1, <1>2, <1>3, FetchedInventory DEF RegistryIInv
<1> DEFINE rt == WithRuntimeUpdates(runtime, got)
<1>5. rt \in Runtimes /\ \A p \in Providers : rt[p].fetchError = got[p].error
  BY <1>2, <1>3, UpdatedRuntime DEF RegistryIInv
<1>6. runtime' = [p \in Providers |-> [rt[p] EXCEPT !.stale = ~got[p].answer /\ inventory[p].models # {}]]
  BY <1>1 DEF SweepRuntime
<1> HIDE DEF rt
<1>7. /\ runtime' \in Runtimes
      /\ \A p \in Providers : /\ runtime'[p].fetchError = got[p].error
                              /\ runtime'[p].stale => ~got[p].answer
  BY <1>5, <1>6 DEF Runtimes
<1>8. /\ DOMAIN actor' = Actors /\ actor'[x] = [actor[x] EXCEPT !.pc = "copy"]
      /\ \A y \in Actors \ {x} : actor'[y] = actor[y]
  BY <1>1, <1>2
<1>9. actor'[x].pc = "copy" /\ actor'[x].got = got
  BY <1>2, <1>8 DEF ActorState
<1>10. ActorState(actor'[x])
  BY <1>2, <1>8, <1>9 DEF ActorState
<1>11. Moves(x)
  BY <1>1, <1>2, <1>8, <1>9, <1>10 DEF Moves, Placed, Tells, Holds
<1>12. RegistryTypeOK' /\ ActorsBehave'
  BY <1>1, <1>4, <1>7, <1>11, OneActorMoves, RebuiltMapType
  DEF RegistryIInv, RegistryTypeOK, Runtimes
<1>13. VersionsInOrder' /\ StaleIsWatched'
  <2>1. \A p \in Providers : runtime'[p].stale => Failing(runtime', p)
    BY <1>2, <1>7 DEF Failing, Tells
  <2>2. \A p \in Providers : inventory'[p].ver <= health[p].ver
    BY <1>1, <1>2, <1>4 DEF RegistryIInv, VersionsInOrder, FetchedInOrder
  <2> HIDE DEF got
  <2> QED
    BY <1>1, <1>2, <1>9, <1>11, <2>1, <2>2, HolderMoves
<1>14. MapIsRebuilt' /\ LazyCachesAreCurrent'
  BY <1>1, RebuiltTables
<1>15. SomebodyStaysRoutable'
  <2>1. PICK p \in Providers : got[p].models # {}
    BY <1>1, <1>2 DEF TotalModels
  <2>2. got[p].answer
    BY <1>2, <2>1 DEF Tells
  <2>3. inventory'[p].models # {} /\ ~runtime'[p].stale
    BY <1>4, <1>7, <2>1, <2>2
  <2> QED
    BY <2>3 DEF SomebodyStaysRoutable
<1> QED
  BY <1>12, <1>13, <1>14, <1>15 DEF RegistryIInv

(* A refresh that no provider answered: all it asked have failed.            *)
LEMMA RefreshFailsKeeps ==
  ASSUME RegistryIInv, NEW x \in Actors, RefreshFails(x)
  PROVE  RegistryIInv'
<1> DEFINE got == actor[x].got
<1>1. /\ actor[x].pc = "apply" /\ actor[x].job = "providers"
      /\ \A p \in DOMAIN got : ~got[p].answer
      /\ runtime' = WithRuntimeUpdates(runtime, got)
      /\ actor' = [actor EXCEPT ![x].pc = "mark"]
      /\ UNCHANGED <<inventory, models, modelList, initialized, lazy, refreshCh, file, health, scenario, faults, restarts>>
  BY DEF RefreshFails, At, Goto, AllFailed
<1>2. /\ ActorState(actor[x]) /\ DOMAIN actor = Actors
      /\ Tells(actor[x]) /\ refreshCh = x
  BY <1>1 DEF RegistryIInv, RegistryTypeOK, ActorsBehave, Holds
<1>3. got \in [DOMAIN got -> Outcomes] /\ DOMAIN got \subseteq Providers
  BY <1>2 DEF ActorState
<1>4. /\ runtime' \in Runtimes
      /\ \A p \in Providers : /\ runtime'[p].stale = runtime[p].stale
                              /\ p \in DOMAIN got => runtime'[p].fetchError # NoError
                              /\ p \notin DOMAIN got => runtime'[p] = runtime[p]
  BY <1>1, <1>2, <1>3, UpdatedRuntime DEF RegistryIInv, Tells
<1>5. /\ DOMAIN actor' = Actors /\ actor'[x] = [actor[x] EXCEPT !.pc = "mark"]
      /\ \A y \in Actors \ {x} : actor'[y] = actor[y]
  BY <1>1, <1>2
<1>6. actor'[x].pc = "mark" /\ actor'[x].got = got /\ actor'[x].job = "providers"
  BY <1>1, <1>2, <1>5 DEF ActorState
<1>7. ActorState(actor'[x])
  BY <1>2, <1>5, <1>6 DEF ActorState
<1>8. x # "lister"
  BY <1>1 DEF RegistryIInv, ActorsBehave, Placed
<1>9. Moves(x)
  BY <1>1, <1>2, <1>5, <1>6, <1>7, <1>8 DEF Moves, Placed, Tells, Holds
<1>10. RegistryTypeOK' /\ ActorsBehave'
  BY <1>1, <1>4, <1>9, OneActorMoves DEF RegistryIInv, RegistryTypeOK, Runtimes
<1>11. VersionsInOrder' /\ StaleIsWatched'
  <2>1. ASSUME NEW p \in Providers, runtime'[p].stale
        PROVE  Failing(runtime', p)
    <3>1. CASE p \in DOMAIN got
      BY <1>4, <3>1 DEF Failing
    <3>2. CASE p \notin DOMAIN got
      BY <1>1, <1>2, <1>4, <2>1, <3>2, UnfetchedStaleFailed DEF Failing
    <3> QED
      BY <3>1, <3>2
  <2>2. \A p \in Providers : inventory'[p].ver <= health[p].ver
    BY <1>1 DEF RegistryIInv, VersionsInOrder
  <2> HIDE DEF got
  <2> QED
    BY <1>1, <1>2, <1>3, <1>4, <1>6, <1>9, <2>1, <2>2, HolderMoves
<1>12. MapIsRebuilt' /\ LazyCachesAreCurrent'
  BY <1>1, <1>4, UntouchedTables
<1>13. SomebodyStaysRoutable'
  <2>1. \A p \in Providers : runtime[p].fetchError # NoError => runtime'[p].fetchError # NoError
    BY <1>4
  <2> QED
    BY <1>1, <1>4, <2>1 DEF RegistryIInv, SomebodyStaysRoutable
<1> QED
  BY <1>10, <1>11, <1>12, <1>13 DEF RegistryIInv

(* A refresh that some provider answered: it is fresh, or known to be empty. *)
LEMMA RefreshKeeps ==
  ASSUME RegistryIInv, NEW x \in Actors, applyFetchedProviderInventory(x)
  PROVE  RegistryIInv'
<1> DEFINE got == actor[x].got
           rt == WithRuntimeUpdates(runtime, got)
<1>1. /\ actor[x].pc = "apply" /\ actor[x].job = "providers"
      /\ \E p \in DOMAIN got : got[p].answer
      /\ inventory' = Fetched(inventory, got, actor[x].meta)
      /\ runtime' = PartialRuntime(got)
      /\ models' = rebuildGlobalModelMap(inventory', freshFirstProviderOrder(runtime'))
      /\ invalidateSortedCaches
      /\ actor' = [actor EXCEPT ![x].pc = "mark"]
      /\ UNCHANGED <<modelList, refreshCh, file, health, scenario, faults, restarts>>
  BY DEF applyFetchedProviderInventory, At, Goto, AllFailed, Swap, IndexOrder
<1>2. /\ ActorState(actor[x]) /\ DOMAIN actor = Actors
      /\ Tells(actor[x]) /\ refreshCh = x
  BY <1>1 DEF RegistryIInv, RegistryTypeOK, ActorsBehave, Holds
<1>3. /\ got \in [DOMAIN got -> Outcomes] /\ actor[x].meta \in {0, 1}
      /\ DOMAIN got \subseteq Providers
  BY <1>2 DEF ActorState
<1>4. /\ inventory' \in [Providers -> [models : SUBSET Models, meta : {0, 1}, ver : Nat]]
      /\ \A p \in Providers :
           /\ p \in DOMAIN got /\ got[p].answer => /\ inventory'[p].models = got[p].models
                                                   /\ inventory'[p].ver = got[p].ver
           /\ ~(p \in DOMAIN got /\ got[p].answer) => inventory'[p] = inventory[p]
  BY <1>1, <1>3, FetchedInventory DEF RegistryIInv
<1>5. /\ rt \in Runtimes
      /\ \A p \in Providers : /\ rt[p].stale = runtime[p].stale
                              /\ p \in DOMAIN got => rt[p].fetchError = got[p].error
                              /\ p \notin DOMAIN got => rt[p] = runtime[p]
  BY <1>3, UpdatedRuntime DEF RegistryIInv
<1>6. runtime' = [p \in Providers |->
        [rt[p] EXCEPT !.stale = rt[p].stale /\ ~(p \in DOMAIN got /\ got[p].answer)]]
  BY <1>1 DEF PartialRuntime
<1> HIDE DEF rt
<1>7. /\ runtime' \in Runtimes
      /\ \A p \in Providers :
           /\ runtime'[p].stale => runtime[p].stale /\ ~(p \in DOMAIN got /\ got[p].answer)
           /\ runtime'[p].fetchError = rt[p].fetchError
           /\ runtime'[p].availError = rt[p].availError
  <2>1. \A p \in Providers : (rt[p].stale /\ ~(p \in DOMAIN got /\ got[p].answer)) \in BOOLEAN
    OBVIOUS
  <2> QED
    BY <1>5, <1>6, <2>1 DEF Runtimes
<1>8. /\ DOMAIN actor' = Actors /\ actor'[x] = [actor[x] EXCEPT !.pc = "mark"]
      /\ \A y \in Actors \ {x} : actor'[y] = actor[y]
  BY <1>1, <1>2
<1>9. actor'[x].pc = "mark" /\ actor'[x].got = got /\ actor'[x].job = "providers"
  BY <1>1, <1>2, <1>8 DEF ActorState
<1>10. ActorState(actor'[x])
  BY <1>2, <1>8, <1>9 DEF ActorState
<1>11. x # "lister"
  BY <1>1 DEF RegistryIInv, ActorsBehave, Placed
<1>12. Moves(x)
  BY <1>1, <1>2, <1>8, <1>9, <1>10, <1>11 DEF Moves, Placed, Tells, Holds
<1>13. RegistryTypeOK' /\ ActorsBehave'
  BY <1>1, <1>4, <1>7, <1>12, OneActorMoves, RebuiltMapType
  DEF RegistryIInv, RegistryTypeOK, Runtimes
<1>14. \A p \in DOMAIN got : ~got[p].answer => runtime'[p].fetchError # NoError
  BY <1>2, <1>3, <1>5, <1>7 DEF Tells
<1>15. VersionsInOrder' /\ StaleIsWatched'
  <2>1. ASSUME NEW p \in Providers, runtime'[p].stale
        PROVE  Failing(runtime', p)
    <3>1. CASE p \in DOMAIN got
      BY <1>7, <1>14, <2>1, <3>1 DEF Failing
    <3>2. CASE p \notin DOMAIN got
      <4>1. Failing(runtime, p)
        BY <1>1, <1>2, <1>7, <2>1, <3>2, UnfetchedStaleFailed
      <4> QED
        BY <1>5, <1>7, <3>2, <4>1 DEF Failing
    <3> QED
      BY <3>1, <3>2
  <2>2. \A p \in Providers : inventory'[p].ver <= health[p].ver
    BY <1>1, <1>4 DEF RegistryIInv, VersionsInOrder, FetchedInOrder
  <2> HIDE DEF got
  <2> QED
    BY <1>1, <1>2, <1>9, <1>12, <1>14, <2>1, <2>2, HolderMoves
<1>16. MapIsRebuilt' /\ LazyCachesAreCurrent'
  BY <1>1, RebuiltTables
<1>17. SomebodyStaysRoutable'
  <2>1. PICK p \in Providers : p \in DOMAIN got /\ got[p].answer
    BY <1>1, <1>3
  <2>2. ~runtime'[p].stale /\ inventory'[p].models = got[p].models
    BY <1>4, <1>7, <2>1
  <2>3. got[p].models = {} => runtime'[p].fetchError # NoError
    BY <1>2, <1>5, <1>7, <2>1 DEF Tells
  <2> QED
    BY <2>2, <2>3 DEF SomebodyStaysRoutable
<1> QED
  BY <1>13, <1>15, <1>16, <1>17 DEF RegistryIInv

(* Retiring the providers whose refresh failed, one by one.                  *)
LEMMA MarkKeeps ==
  ASSUME RegistryIInv, NEW x \in Actors, markFailedRefreshProvidersStale(x)
  PROVE  RegistryIInv'
<1>1. /\ actor[x].pc = "mark"
      /\ UNCHANGED <<inventory, modelList, initialized, file, health, scenario, faults, restarts>>
  BY DEF markFailedRefreshProvidersStale, At
<1>2. /\ ActorState(actor[x]) /\ DOMAIN actor = Actors /\ Placed(x, actor[x])
      /\ Tells(actor[x]) /\ refreshCh = x /\ FailuresRecorded(actor[x])
  BY <1>1 DEF RegistryIInv, RegistryTypeOK, ActorsBehave, Holds, StaleIsWatched
<1>3. DOMAIN actor[x].got \subseteq Providers /\ actor[x].got \in [DOMAIN actor[x].got -> Outcomes]
  BY <1>2 DEF ActorState
<1>4. \A p \in Providers : runtime[p].stale => Failing(runtime, p)
  <2>1. \A p \in Providers, y \in Actors : ~Watches(actor[y], p)
    BY <1>1, <1>2, OnlyTheHolder DEF RegistryIInv, Watches
  <2> QED
    BY <2>1 DEF RegistryIInv, StaleIsWatched
<1>5. ASSUME NEW p \in FailedNow(x),
             runtime' = MarkedStale(runtime, inventory, p),
             IF runtime' # runtime
             THEN /\ models' = rebuildGlobalModelMap(inventory, freshFirstProviderOrder(runtime'))
                  /\ invalidateSortedCaches
             ELSE UNCHANGED <<models, lazy>>,
             actor' = [actor EXCEPT ![x].got = [q \in DOMAIN actor[x].got \ {p} |-> actor[x].got[q]]],
             UNCHANGED refreshCh
      PROVE  RegistryIInv'
  <2> DEFINE got == [q \in DOMAIN actor[x].got \ {p} |-> actor[x].got[q]]
  <2>1. p \in Providers /\ runtime[p].fetchError # NoError /\ runtime \in Runtimes
    BY <1>1, <1>2, <1>3 DEF FailedNow, FailuresRecorded, RegistryIInv, RegistryTypeOK, Runtimes
  <2>2. /\ runtime' \in Runtimes
        /\ \A q \in Providers : /\ runtime'[q].fetchError = runtime[q].fetchError
                                /\ runtime'[q].availError = runtime[q].availError
                                /\ q # p => runtime'[q].stale = runtime[q].stale
        /\ \/ runtime' = runtime
           \/ \E q \in Providers : inventory[q].models # {} /\ ~runtime'[q].stale
    BY <1>5, <2>1, MarkedRuntime
  <2>3. /\ DOMAIN got \subseteq DOMAIN actor[x].got
        /\ \A q \in DOMAIN got : got[q] = actor[x].got[q]
        /\ got \in [DOMAIN got -> Outcomes]
    BY <1>3
  <2>4. actor' = [actor EXCEPT ![x].got = got]
    BY <1>5
  <2> HIDE DEF got
  <2>5. /\ DOMAIN actor' = Actors /\ actor'[x] = [actor[x] EXCEPT !.got = got]
        /\ \A y \in Actors \ {x} : actor'[y] = actor[y]
    BY <1>2, <2>4
  <2>6. actor'[x].got = got /\ actor'[x].pc = "mark" /\ actor'[x].job = actor[x].job
    BY <1>1, <1>2, <2>5 DEF ActorState
  <2>7. ActorState(actor'[x])
    BY <1>2, <1>3, <2>3, <2>5, <2>6 DEF ActorState
  <2>8. Tells(actor'[x])
    BY <1>2, <2>3, <2>6 DEF Tells
  <2>9. Moves(x)
    BY <1>1, <1>2, <1>5, <2>5, <2>6, <2>7, <2>8 DEF Moves, Placed, Holds
  <2>10. RegistryTypeOK' /\ ActorsBehave'
    <3>1. models' \in [Models -> Providers \cup {Nobody}]
      BY <1>5, RebuiltMapType DEF RegistryIInv, RegistryTypeOK
    <3> QED
      BY <1>1, <2>2, <2>9, <3>1, OneActorMoves DEF RegistryIInv, RegistryTypeOK, Runtimes
  <2>11. VersionsInOrder' /\ StaleIsWatched'
    <3>1. ASSUME NEW q \in Providers, runtime'[q].stale
          PROVE  Failing(runtime', q)
      BY <1>4, <2>1, <2>2, <3>1 DEF Failing
    <3>2. \A q \in Providers : inventory'[q].ver <= health[q].ver
      BY <1>1 DEF RegistryIInv, VersionsInOrder
    <3>3. \A q \in DOMAIN got : ~got[q].answer => runtime'[q].fetchError # NoError
      BY <1>1, <1>2, <1>3, <2>2, <2>3 DEF FailuresRecorded
    <3> QED
      BY <1>1, <1>2, <2>6, <2>9, <3>1, <3>2, <3>3, HolderMoves
  <2>12. MapIsRebuilt' /\ LazyCachesAreCurrent'
    <3>1. CASE runtime' # runtime
      BY <1>1, <1>5, <3>1, RebuiltTables
    <3>2. CASE runtime' = runtime
      BY <1>1, <1>5, <3>2, UntouchedTables
    <3> QED
      BY <3>1, <3>2
  <2>13. SomebodyStaysRoutable'
    BY <1>1, <2>2 DEF RegistryIInv, SomebodyStaysRoutable
  <2> QED
    BY <2>10, <2>11, <2>12, <2>13 DEF RegistryIInv
<1>6. CASE Release /\ Finish(x) /\ UNCHANGED <<runtime, models, lazy>>
  <2>1. refreshCh' = IF refreshCh = x THEN Nobody ELSE refreshCh
    BY <1>2, <1>6 DEF Release
  <2>2. actor' = [actor EXCEPT ![x] = AfterJob(x)]
    BY <1>6 DEF Finish
  <2>3. file' \in Files
    BY <1>1 DEF RegistryIInv, RegistryTypeOK
  <2> QED
    BY <1>1, <1>6, <2>1, <2>2, <2>3, AfterJobRests, RestStep DEF RegistryIInv
<1> QED
  BY <1>5, <1>6 DEF markFailedRefreshProvidersStale

(* The metadata of the model list changes neither models nor versions; when  *)
(* no bare id is mapped there is nothing to change.                          *)
LEMMA EnrichedInventory ==
  ASSUME RegistryIInv, NEW version \in {0, 1}
  PROVE  LET inv == Enriched(inventory, version)
         IN /\ inv \in [Providers -> [models : SUBSET Models, meta : {0, 1}, ver : Nat]]
            /\ \A p \in Providers : inv[p].models = inventory[p].models /\ inv[p].ver = inventory[p].ver
            /\ (\A m \in Models : models[m] = Nobody) => inv = inventory
<1> DEFINE inv == Enriched(inventory, version)
<1>1. inventory \in [Providers -> [models : SUBSET Models, meta : {0, 1}, ver : Nat]]
  BY DEF RegistryIInv, RegistryTypeOK
<1>2. ASSUME NEW p \in Providers
      PROVE  /\ inv[p] \in [models : SUBSET Models, meta : {0, 1}, ver : Nat]
             /\ inv[p].models = inventory[p].models /\ inv[p].ver = inventory[p].ver
  <2>1. inv[p] = IF inventory[p].models = {} \/ version = 0 THEN inventory[p]
                 ELSE [inventory[p] EXCEPT !.meta = version]
    BY DEF Enriched
  <2>2. inventory[p] \in [models : SUBSET Models, meta : {0, 1}, ver : Nat]
    BY <1>1
  <2> HIDE DEF inv
  <2> QED
    BY <2>1, <2>2
<1>3. inv \in [Providers -> [models : SUBSET Models, meta : {0, 1}, ver : Nat]]
  BY <1>2 DEF Enriched
<1>4. ASSUME \A m \in Models : models[m] = Nobody
      PROVE  inv = inventory
  <2>1. \A p \in Providers : inventory[p].models = {}
    <3>1. ASSUME NEW p \in Providers, NEW m \in Models, m \in inventory[p].models
          PROVE  FALSE
      <4>1. models[m] \in Providers
        BY <3>1, RebuiltMap DEF RegistryIInv, MapIsRebuilt
      <4> QED
        BY <1>4, <4>1, RegistryAssumption
    <3> QED
      BY <1>1, <3>1
  <2> QED
    BY <1>1, <2>1 DEF Enriched
<1> QED
  BY <1>2, <1>3, <1>4

(* A step that loads the model list or enriches the inventories with it.     *)
LEMMA EnrichStep ==
  ASSUME RegistryIInv, NEW x \in Actors, Moves(x),
         actor'[x].pc \in {"copy", "enrichall"}, actor[x].pc \in {"list", "enrichall"},
         modelList' \in {0, 1},
         inventory' \in [Providers -> [models : SUBSET Models, meta : {0, 1}, ver : Nat]],
         \A p \in Providers : /\ inventory'[p].models = inventory[p].models
                              /\ inventory'[p].ver = inventory[p].ver,
         invalidateSortedCaches \/ (inventory' = inventory /\ UNCHANGED lazy),
         UNCHANGED <<models, runtime, file, health, scenario, restarts>>
  PROVE  RegistryIInv'
<1>1. RegistryTypeOK' /\ ActorsBehave'
  BY OneActorMoves DEF RegistryIInv, RegistryTypeOK
<1>2. VersionsInOrder'
  <2>1. \A y \in Actors : actor'[y].pc \in {"enrich", "apply"} =>
          actor'[y] = actor[y] /\ DOMAIN actor[y].got \subseteq Providers
    BY DEF Moves, RegistryIInv, RegistryTypeOK, ActorState
  <2>2. \A y \in Actors : FetchedInOrder(actor[y])'
    BY <2>1 DEF RegistryIInv, VersionsInOrder, FetchedInOrder
  <2> QED
    BY <2>2 DEF RegistryIInv, VersionsInOrder
<1>3. StaleIsWatched'
  <2>1. \A y \in Actors : FailuresRecorded(actor[y])'
    BY DEF RegistryIInv, StaleIsWatched, FailuresRecorded, Moves
  <2>2. \A y \in Actors, p \in Providers : Watches(actor[y], p) => Watches(actor'[y], p)
    BY DEF Watches, Moves
  <2> QED
    BY <2>1, <2>2 DEF RegistryIInv, StaleIsWatched, Failing
<1>4. MapIsRebuilt'
  <2>1. runtime' = runtime /\ models' = models
    OBVIOUS
  <2>2. rebuildGlobalModelMap(inventory', freshFirstProviderOrder(runtime))
          = rebuildGlobalModelMap(inventory, freshFirstProviderOrder(runtime))
    BY RebuiltFromModels
  <2> QED
    BY <2>1, <2>2 DEF RegistryIInv, MapIsRebuilt
<1>5. LazyCachesAreCurrent'
  <2>1. CASE invalidateSortedCaches
    BY <2>1 DEF invalidateSortedCaches, LazyCachesAreCurrent
  <2>2. CASE inventory' = inventory /\ UNCHANGED lazy
    <3>1. inventory' = inventory /\ models' = models /\ sorted' = sorted /\ catalog' = catalog
      BY <2>2 DEF lazy
    <3> QED
      BY <3>1 DEF RegistryIInv, LazyCachesAreCurrent
  <2> QED
    BY <2>1, <2>2
<1>6. SomebodyStaysRoutable'
  BY DEF RegistryIInv, SomebodyStaysRoutable
<1> QED
  BY <1>1, <1>2, <1>3, <1>4, <1>5, <1>6 DEF RegistryIInv

(* The three places where a fetched model list reaches the registry.         *)
LEMMA EnrichKeeps ==
  ASSUME RegistryIInv, setModelListAndEnrich \/ SetModelList \/ enrichModels
  PROVE  RegistryIInv'
<1>1. modelList' \in {0, 1}
  BY DEF setModelListAndEnrich, SetModelList, enrichModels, RegistryIInv, RegistryTypeOK
<1>2. UNCHANGED <<models, runtime, file, health, scenario, restarts>>
  BY DEF setModelListAndEnrich, SetModelList, enrichModels
<1>3. /\ inventory' \in [Providers -> [models : SUBSET Models, meta : {0, 1}, ver : Nat]]
      /\ \A p \in Providers : /\ inventory'[p].models = inventory[p].models
                              /\ inventory'[p].ver = inventory[p].ver
      /\ invalidateSortedCaches \/ (inventory' = inventory /\ UNCHANGED lazy)
  <2>1. CASE EnrichModels
    <3>1. (\A m \in Models : models[m] = Nobody) \/ invalidateSortedCaches
      BY <2>1 DEF EnrichModels
    <3>2. inventory' = Enriched(inventory, modelList')
      BY <2>1 DEF EnrichModels
    <3>3. invalidateSortedCaches \/ UNCHANGED lazy
      BY <2>1 DEF EnrichModels
    <3> QED
      BY <1>1, <3>1, <3>2, <3>3, EnrichedInventory
  <2>2. CASE UNCHANGED <<inventory, lazy>>
    BY <2>2 DEF RegistryIInv, RegistryTypeOK
  <2> QED
    BY <2>1, <2>2 DEF setModelListAndEnrich, SetModelList, enrichModels
<1>4. ASSUME NEW x \in Actors, NEW pc \in {"copy", "enrichall"},
             actor[x].pc \in {"list", "enrichall"}, Goto(x, pc),
             refreshCh' = IF refreshCh = x THEN Nobody ELSE refreshCh
      PROVE  RegistryIInv'
  <2>1. /\ ActorState(actor[x]) /\ DOMAIN actor = Actors /\ Placed(x, actor[x]) /\ Tells(actor[x])
    BY DEF RegistryIInv, RegistryTypeOK, ActorsBehave
  <2>2. /\ DOMAIN actor' = Actors /\ actor'[x] = [actor[x] EXCEPT !.pc = pc]
        /\ \A y \in Actors \ {x} : actor'[y] = actor[y]
    BY <1>4, <2>1 DEF Goto
  <2>3. actor'[x].pc = pc /\ actor'[x].got = actor[x].got
    BY <2>1, <2>2 DEF ActorState
  <2>4. ActorState(actor'[x])
    BY <2>1, <2>2, <2>3 DEF ActorState
  <2>5. Moves(x)
    BY <1>4, <2>1, <2>2, <2>3, <2>4 DEF Moves, Placed, Tells, Holds
  <2> QED
    BY <1>1, <1>2, <1>3, <1>4, <2>3, <2>5, EnrichStep
<1>5. "loop" \in Actors /\ "lister" \in Actors
  BY DEF Actors
<1>6. CASE setModelListAndEnrich
  <2>1. actor["loop"].pc = "list" /\ Goto("loop", "copy") /\ refreshCh' = Nobody
    BY <1>6 DEF setModelListAndEnrich, At, Release
  <2>2. refreshCh = "loop"
    BY <1>5, <2>1 DEF RegistryIInv, ActorsBehave, Holds
  <2> QED
    BY <1>4, <1>5, <2>1, <2>2
<1>7. CASE SetModelList
  <2>1. actor["lister"].pc = "list" /\ Goto("lister", "enrichall") /\ refreshCh' = refreshCh
    BY <1>7 DEF SetModelList, At
  <2>2. refreshCh # "lister"
    BY <1>5, <2>1 DEF RegistryIInv, ActorsBehave, Holds
  <2> QED
    BY <1>4, <1>5, <2>1, <2>2
<1>8. CASE enrichModels
  <2>1. actor["lister"].pc = "enrichall" /\ Goto("lister", "copy") /\ refreshCh' = refreshCh
    BY <1>8 DEF enrichModels, At
  <2>2. refreshCh # "lister"
    BY <1>5, <2>1 DEF RegistryIInv, ActorsBehave, Holds
  <2> QED
    BY <1>4, <1>5, <2>1, <2>2
<1> QED
  BY <1>6, <1>7, <1>8

-----------------------------------------------------------------------------
(* The process starts, the providers change, the lists are read.             *)

(* What a process that starts from the cache file holds.                     *)
LEMMA Booted ==
  ASSUME file \in Files, scenario \in Scenarios
  PROVE  /\ Loaded(file) \in [Providers -> [models : SUBSET Models, meta : {0, 1}, ver : Nat]]
         /\ \A p \in Providers : Loaded(file)[p].ver = 0
         /\ BootRuntime \in Runtimes /\ \A p \in Providers : ~BootRuntime[p].stale
         /\ LoadedList(file) \in {0, 1}
         /\ DOMAIN BootActors = Actors
         /\ \A x \in Actors : BootActors[x] \in Rested /\ Placed(x, BootActors[x]) /\ ~Holds(x, BootActors[x])
<1>1. LoadedList(file) \in {0, 1}
  BY DEF Files, LoadedList
<1>2. ASSUME NEW p \in Providers
      PROVE  /\ Loaded(file)[p] \in [models : SUBSET Models, meta : {0, 1}, ver : Nat]
             /\ Loaded(file)[p].ver = 0
  <2> DEFINE cached == IF file = <<>> THEN {} ELSE file[1].inventory[p]
             held == IF file = <<>> \/ Listed(p) = {} THEN cached
                     ELSE IF scenario.mode = "allowlist" \/ cached = {} THEN Listed(p)
                     ELSE cached
  <2>1. Loaded(file)[p] = [models |-> held, ver |-> 0,
                           meta |-> IF held = {} THEN 0 ELSE LoadedList(file)]
    BY DEF Loaded, LoadedList
  <2>2. cached \in SUBSET Models
    BY DEF Files
  <2>3. Listed(p) \in SUBSET Models
    BY RegistryAssumption DEF Listed
  <2> HIDE DEF cached
  <2>4. held \in SUBSET Models
    BY <2>2, <2>3
  <2> HIDE DEF held
  <2> QED
    BY <1>1, <2>1, <2>4
<1>3. Loaded(file) \in [Providers -> [models : SUBSET Models, meta : {0, 1}, ver : Nat]]
  BY <1>2 DEF Loaded
<1>4. BootRuntime \in Runtimes /\ \A p \in Providers : ~BootRuntime[p].stale
  BY DEF BootRuntime, Runtimes, NoError
<1>5. DOMAIN BootActors = Actors
  BY DEF BootActors
<1>6. BootActors["boot"] \in Rested /\ Placed("boot", BootActors["boot"]) /\ ~Holds("boot", BootActors["boot"])
  <2>1. BootActors["boot"] = [AtRest("acquire") EXCEPT !.job = "sweep", !.ask = Providers]
    BY DEF BootActors, Actors
  <2> QED
    BY <2>1 DEF AtRest, Rested, Placed, Holds
<1>7. BootActors["lister"] \in Rested /\ Placed("lister", BootActors["lister"])
      /\ ~Holds("lister", BootActors["lister"])
  <2>1. BootActors["lister"] = [AtRest("list") EXCEPT !.job = "list"]
    BY DEF BootActors, Actors
  <2> QED
    BY <2>1 DEF AtRest, Rested, Placed, Holds
<1>8. ASSUME NEW x \in {"loop", "request"}
      PROVE  BootActors[x] \in Rested /\ Placed(x, BootActors[x]) /\ ~Holds(x, BootActors[x])
  <2>1. BootActors[x] = AtRest("idle")
    BY DEF BootActors, Actors
  <2> QED
    BY <2>1 DEF AtRest, Rested, Placed, Holds
<1> QED
  BY <1>1, <1>2, <1>3, <1>4, <1>5, <1>6, <1>7, <1>8 DEF Actors

(* A registry that was just loaded is consistent.                            *)
LEMMA BootedRegistry ==
  ASSUME file \in Files, scenario \in Scenarios, health \in [Providers -> [state : Health, ver : Nat]],
         inventory = Loaded(file), models = rebuildGlobalModelMap(Loaded(file), {}),
         runtime = BootRuntime, modelList = LoadedList(file), sorted = <<>>, catalog = <<>>,
         refreshCh = Nobody, actor = BootActors, restarts \in Nat
  PROVE  RegistryIInv
<1>1. Nobody \notin Actors
  BY DEF Nobody, Actors
<1>2. \A x \in Actors : /\ ActorState(actor[x]) /\ Tells(actor[x]) /\ FetchedInOrder(actor[x])
                        /\ FailuresRecorded(actor[x])
  BY Booted, RestedIsAState
<1>3. RegistryTypeOK
  BY <1>2, Booted, RebuiltMapType DEF RegistryTypeOK, Runtimes
<1>4. ActorsBehave
  BY <1>1, <1>2, Booted DEF ActorsBehave
<1>5. VersionsInOrder
  <2>1. \A p \in Providers : inventory[p].ver = 0 /\ health[p].ver \in Nat
    BY Booted
  <2> QED
    BY <1>2, <2>1 DEF VersionsInOrder
<1>6. StaleIsWatched
  BY <1>2, Booted DEF StaleIsWatched
<1>7. MapIsRebuilt
  <2>1. freshFirstProviderOrder(runtime) = {}
    BY Booted DEF freshFirstProviderOrder
  <2> QED
    BY <2>1 DEF MapIsRebuilt
<1>8. LazyCachesAreCurrent
  BY DEF LazyCachesAreCurrent
<1>9. SomebodyStaysRoutable
  BY Booted DEF SomebodyStaysRoutable
<1> QED
  BY <1>3, <1>4, <1>5, <1>6, <1>7, <1>8, <1>9 DEF RegistryIInv

(* The first start, without a cache file.                                    *)
LEMMA InitiallyConsistent == Init => RegistryIInv
<1> SUFFICES ASSUME Init PROVE RegistryIInv
  OBVIOUS
<1>1. file \in Files
  BY DEF Init, Files
<1>2. health \in [Providers -> [state : Health, ver : Nat]]
  BY DEF Init, Health
<1> QED
  BY <1>1, <1>2, BootedRegistry DEF Init

(* A later start, from the file as it is.                                    *)
LEMMA RestartKeeps ==
  ASSUME RegistryIInv, Restart
  PROVE  RegistryIInv'
<1>1. file' = file /\ health' = health /\ scenario' = scenario
  BY DEF Restart
<1>2. (file \in Files /\ scenario \in Scenarios /\ health \in [Providers -> [state : Health, ver : Nat]])'
  BY <1>1 DEF RegistryIInv, RegistryTypeOK
<1>3. (restarts \in Nat)'
  BY DEF Restart, RegistryIInv, RegistryTypeOK
<1>4. (inventory = Loaded(file) /\ models = rebuildGlobalModelMap(Loaded(file), {}))'
  BY <1>1 DEF Restart, Loaded, Listed
<1>5. (runtime = BootRuntime /\ modelList = LoadedList(file))'
  BY <1>1 DEF Restart, BootRuntime, LoadedList
<1>6. (sorted = <<>> /\ catalog = <<>> /\ refreshCh = Nobody /\ actor = BootActors)'
  BY DEF Restart, invalidateSortedCaches, Release, BootActors
<1> QED
  BY <1>2, <1>3, <1>4, <1>5, <1>6, BootedRegistry, PTL

(* A provider fails, recovers or changes what it lists.                      *)
LEMMA HealthKeeps ==
  ASSUME RegistryIInv, NEW p \in Providers, HealthChanges(p)
  PROVE  RegistryIInv'
<1>1. UNCHANGED <<inventory, models, runtime, modelList, initialized, sorted, catalog, refreshCh,
                  actor, file, scenario, restarts>>
  BY DEF HealthChanges, registry, lazy
<1>2. PICK s \in Health : health' = [health EXCEPT ![p] = [state |-> s, ver |-> health[p].ver + 1]]
  BY DEF HealthChanges
<1>3. /\ health' \in [Providers -> [state : Health, ver : Nat]]
      /\ \A q \in Providers : health[q].ver \in Nat /\ health'[q].ver \in Nat /\ health'[q].ver >= health[q].ver
  BY <1>2 DEF RegistryIInv, RegistryTypeOK
<1>4. RegistryTypeOK'
  BY <1>1, <1>3 DEF RegistryIInv, RegistryTypeOK
<1>5. VersionsInOrder'
  <2>1. \A q \in Providers : inventory[q].ver \in Nat
    BY DEF RegistryIInv, RegistryTypeOK
  <2>2. \A q \in Providers : inventory[q].ver <= health'[q].ver
    BY <1>3, <2>1 DEF RegistryIInv, VersionsInOrder
  <2>3. ASSUME NEW x \in Actors, actor[x].pc \in {"enrich", "apply"}, NEW q \in DOMAIN actor[x].got
        PROVE  inventory[q].ver <= actor[x].got[q].ver /\ actor[x].got[q].ver <= health'[q].ver
    <3>1. q \in Providers /\ actor[x].got[q].ver \in Nat
      BY DEF RegistryIInv, RegistryTypeOK, ActorState, Outcomes
    <3> QED
      BY <1>3, <2>1, <2>3, <3>1 DEF RegistryIInv, VersionsInOrder, FetchedInOrder
  <2> QED
    BY <1>1, <2>2, <2>3 DEF VersionsInOrder, FetchedInOrder
<1>6. (ActorsBehave /\ StaleIsWatched)'
  BY <1>1 DEF RegistryIInv, ActorsBehave, StaleIsWatched, Failing, FailuresRecorded
<1>7. (MapIsRebuilt /\ LazyCachesAreCurrent /\ SomebodyStaysRoutable)'
  BY <1>1 DEF RegistryIInv, MapIsRebuilt, LazyCachesAreCurrent, SomebodyStaysRoutable
<1> QED
  BY <1>4, <1>5, <1>6, <1>7 DEF RegistryIInv

(* A list built from the registry as it is; a stutter.                       *)
LEMMA ReadersKeep ==
  ASSUME RegistryIInv, ListModels \/ ListModelsWithProvider \/ UNCHANGED rvars
  PROVE  RegistryIInv'
<1>1. UNCHANGED <<inventory, models, runtime, modelList, refreshCh, actor, file, health, scenario, restarts>>
  BY DEF ListModels, ListModelsWithProvider, rvars, registry
<1>2. RegistryTypeOK'
  BY <1>1 DEF RegistryIInv, RegistryTypeOK
<1>3. (ActorsBehave /\ VersionsInOrder /\ StaleIsWatched)'
  BY <1>1 DEF RegistryIInv, ActorsBehave, VersionsInOrder, FetchedInOrder, StaleIsWatched, Failing,
              FailuresRecorded
<1>4. (MapIsRebuilt /\ SomebodyStaysRoutable)'
  BY <1>1 DEF RegistryIInv, MapIsRebuilt, SomebodyStaysRoutable
<1>5. LazyCachesAreCurrent'
  <2>1. /\ sorted' = sorted \/ sorted' = <<SortedModels(inventory, models)>>
        /\ catalog' = catalog \/ catalog' = <<Catalog(inventory)>>
    BY DEF ListModels, ListModelsWithProvider, rvars, lazy
  <2> QED
    BY <1>1, <2>1 DEF RegistryIInv, LazyCachesAreCurrent
<1> QED
  BY <1>2, <1>3, <1>4, <1>5 DEF RegistryIInv

-----------------------------------------------------------------------------
(* The theorems.                                                             *)

(* Every step of the registry keeps the invariant.                           *)
LEMMA NextKeeps == RegistryIInv /\ [Next]_rvars => RegistryIInv'
<1> SUFFICES ASSUME RegistryIInv, [Next]_rvars
             PROVE  RegistryIInv'
  OBVIOUS
<1>1. CASE \/ StartSweep \/ StartRecheck \/ NextRecheck
           \/ \E s \in Providers \cup {TypeOf[p] : p \in Providers} : StartRequest(s)
  BY <1>1, StartsKeep
<1>2. ASSUME NEW x \in Actors, ActorStep(x) \/ AcquireTimesOut(x)
      PROVE  RegistryIInv'
  BY <1>2, AcquireKeeps, FinishKeeps, CheckKeeps, FetchKeeps, ReadsKeep, SweepFailsKeeps,
     SweepKeeps, RefreshFailsKeeps, RefreshKeeps, MarkKeeps DEF ActorStep
<1>3. CASE setModelListAndEnrich \/ SetModelList \/ enrichModels
  BY <1>3, EnrichKeeps
<1>4. CASE ListModels \/ ListModelsWithProvider \/ UNCHANGED rvars
  BY <1>4, ReadersKeep
<1>5. CASE \E p \in Providers : HealthChanges(p)
  BY <1>5, HealthKeeps
<1>6. CASE Restart
  BY <1>6, RestartKeeps
<1> QED
  BY <1>1, <1>2, <1>3, <1>4, <1>5, <1>6 DEF Next

(* The types, the semaphore, the order of versions, the reasons of the stale *)
(* marks and the tables that follow from them, whatever actors overlap.      *)
THEOREM RegistryInvariance == Spec => []RegistryIInv
BY InitiallyConsistent, NextKeeps, PTL DEF Spec

(* The registry's variables keep their types.                                *)
THEOREM RegistryTypeCorrect == Spec => []RegistryTypeOK
<1>1. RegistryIInv => RegistryTypeOK
  BY DEF RegistryIInv
<1> QED
  BY <1>1, RegistryInvariance, PTL

(* A bare model id resolves to a fresh provider whenever one lists it, and   *)
(* the cached lists are those of the inventories (rebuildGlobalModelMap,     *)
(* invalidateSortedCaches), whatever actors overlap.                         *)
THEOREM TablesStayCurrent == Spec => []TablesAreCurrent
<1>1. RegistryIInv => TablesAreCurrent
  BY RebuiltMapIsFresh DEF RegistryIInv, TablesAreCurrent
<1> QED
  BY <1>1, RegistryInvariance, PTL

(* Retiring a failed provider leaves one to route to, and the recheck loop   *)
(* will probe the retired one (markProviderInventoryStale,                   *)
(* recheckFailedProviders).                                                  *)
THEOREM RetirementIsSafe == Spec => []RetiringIsSafe
<1>1. RegistryIInv => StaleIsRechecked
  <2> SUFFICES ASSUME RegistryIInv, refreshCh = Nobody, NEW p \in Providers, runtime[p].stale
               PROVE  p \in FailedProviderNames
    BY DEF StaleIsRechecked
  <2>1. \A x \in Actors : ~Watches(actor[x], p)
    <3>1. Nobody \notin Actors
      BY DEF Nobody, Actors
    <3> QED
      BY <3>1 DEF RegistryIInv, ActorsBehave, Holds, Watches
  <2> QED
    BY <2>1 DEF RegistryIInv, StaleIsWatched, FailedProviderNames
<1>2. RegistryIInv => RetiringIsSafe
  BY <1>1 DEF RegistryIInv, RetiringIsSafe
<1> QED
  BY <1>2, RegistryInvariance, PTL

(* An inventory is only replaced by one that was fetched later, however the  *)
(* sweeps and refreshes overlap: the holder of the semaphore fetched what it *)
(* applies after the inventory that it replaces (acquireRefresh).            *)
LEMMA NextMovesForward ==
  ASSUME RegistryIInv, [Next]_rvars, restarts' = restarts
  PROVE  \A p \in Providers :
           /\ inventory'[p].ver >= inventory[p].ver
           /\ inventory'[p].models # inventory[p].models
                => \E x \in Actors : p \in DOMAIN actor[x].got /\ actor[x].got[p].answer
<1>1. \A p \in Providers : inventory[p].ver \in Nat
  BY DEF RegistryIInv, RegistryTypeOK
<1>2. CASE inventory' = inventory
  BY <1>1, <1>2
<1>3. ASSUME NEW x \in Actors, applyFetchedInventory(x) \/ applyFetchedProviderInventory(x)
      PROVE  \A p \in Providers :
               /\ inventory'[p].ver >= inventory[p].ver
               /\ inventory'[p].models # inventory[p].models
                    => p \in DOMAIN actor[x].got /\ actor[x].got[p].answer
  <2>1. /\ actor[x].pc = "apply"
        /\ inventory' = Fetched(inventory, actor[x].got, actor[x].meta)
    BY <1>3 DEF applyFetchedInventory, applyFetchedProviderInventory, At, Swap
  <2>2. /\ actor[x].got \in [DOMAIN actor[x].got -> Outcomes] /\ actor[x].meta \in {0, 1}
        /\ \A p \in DOMAIN actor[x].got : inventory[p].ver <= actor[x].got[p].ver
    BY <2>1 DEF RegistryIInv, RegistryTypeOK, ActorState, VersionsInOrder, FetchedInOrder
  <2>3. \A p \in Providers :
          /\ p \in DOMAIN actor[x].got /\ actor[x].got[p].answer
               => inventory'[p].ver = actor[x].got[p].ver
          /\ ~(p \in DOMAIN actor[x].got /\ actor[x].got[p].answer) => inventory'[p] = inventory[p]
    BY <2>1, <2>2, FetchedInventory DEF RegistryIInv
  <2>4. \A p \in DOMAIN actor[x].got : actor[x].got[p].ver \in Nat
    BY <2>2 DEF Outcomes
  <2> QED
    BY <1>1, <2>2, <2>3, <2>4
<1>4. CASE EnrichModels /\ modelList' \in {0, 1}
  <2>1. inventory' = Enriched(inventory, modelList')
    BY <1>4 DEF EnrichModels
  <2>2. \A p \in Providers : inventory'[p].models = inventory[p].models /\ inventory'[p].ver = inventory[p].ver
    BY <1>4, <2>1, EnrichedInventory
  <2> QED
    BY <1>1, <2>2
<1>5. CASE Restart
  BY <1>5 DEF Restart, RegistryIInv, RegistryTypeOK
<1>6. CASE \/ StartSweep \/ StartRecheck \/ NextRecheck
           \/ \E s \in Providers \cup {TypeOf[p] : p \in Providers} : StartRequest(s)
           \/ ListModels \/ ListModelsWithProvider \/ SetModelList \/ UNCHANGED rvars
           \/ \E p \in Providers : HealthChanges(p)
  BY <1>2, <1>6 DEF StartSweep, StartRecheck, NextRecheck, StartRequest, ListModels,
     ListModelsWithProvider, SetModelList, HealthChanges, rvars, registry
<1>7. ASSUME NEW x \in Actors, ActorStep(x) \/ AcquireTimesOut(x),
             ~applyFetchedInventory(x), ~applyFetchedProviderInventory(x)
      PROVE  inventory' = inventory
  BY <1>7 DEF ActorStep, AcquireTimesOut, acquireRefresh, CheckAvailability, NoTargets,
     fetchAllProviderModels, enrichFetchedProviderModelMaps, SweepFails, RefreshFails,
     markFailedRefreshProvidersStale, ListFails, SaveToCacheCopies, SaveToCacheWrites, registry
<1>8. CASE setModelListAndEnrich \/ enrichModels
  BY <1>4, <1>8 DEF setModelListAndEnrich, enrichModels, RegistryIInv, RegistryTypeOK
<1> QED
  BY <1>2, <1>3, <1>5, <1>6, <1>7, <1>8 DEF Next

(* No sweep or refresh puts an older inventory back: only a restart may.     *)
THEOREM InventoriesMoveForward == Spec => InventoryMovesForward
<1>1. RegistryIInv /\ [Next]_rvars =>
        [restarts' # restarts
         \/ \A p \in Providers :
              /\ inventory'[p].ver >= inventory[p].ver
              /\ inventory'[p].models # inventory[p].models
                 => \E x \in Actors : /\ p \in DOMAIN actor[x].got
                                      /\ actor[x].got[p].answer]_rvars
  BY NextMovesForward
<1> QED
  BY <1>1, RegistryInvariance, PTL DEF Spec, InventoryMovesForward
=============================================================================
