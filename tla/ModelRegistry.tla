---------------------------- MODULE ModelRegistry ----------------------------
(***************************************************************************)
(* The model registry (internal/providers/registry*.go): which provider    *)
(* serves which model, kept up to date by four actors that run side by     *)
(* side:                                                                   *)
(*   boot     the goroutine of InitializeAsync: one full sweep, one save;  *)
(*   lister   the goroutine of Init that fetches the model list: it takes  *)
(*            no refresh semaphore and nobody waits for it;                *)
(*   loop     StartBackgroundRefresh: sweeps, re-probes of the providers   *)
(*            that failed, refreshes of the model list;                    *)
(*   request  RefreshProviderModels called while a request is routed.      *)
(* Network calls happen outside the registry's lock, so what an actor      *)
(* fetched, and the model list it read, may be old when it applies them.   *)
(***************************************************************************)
EXTENDS Integers, Sequences, FiniteSets

CONSTANTS
  Order,         \* the providers, in registration order (sorted by name)
  Models,        \* bare model ids
  Serves,        \* Serves[p]: the models p lists when it is well
  TypeOf,        \* TypeOf[p]: the provider type of p
  Checkers,      \* the providers that implement AvailabilityChecker
  Scenarios      \* each one: [mode, models]: the configured provider models;
                 \* cast: the actors that overlap, see Scheduled;
                 \* faults: bound on changes of health and timeouts;
                 \* restarts: bound on restarts of the process

Providers == {Order[i] : i \in DOMAIN Order}

Nobody == "nobody"

ASSUME RegistryAssumption ==
  /\ Order \in Seq(Providers) /\ Nobody \notin Providers
  /\ \A i, j \in DOMAIN Order : Order[i] = Order[j] => i = j
  /\ Serves \in [Providers -> SUBSET Models]
  /\ DOMAIN TypeOf = Providers
  /\ Checkers \subseteq Providers
  /\ \A s \in Scenarios : /\ s.mode \in {"fallback", "allowlist"}
                          /\ s.models \in [Providers -> SUBSET Models]
                          /\ s.cast \subseteq {"boot", "lister", "loop", "request", "reader"}
                          /\ s.faults \in Nat /\ s.restarts \in Nat

Actors == {"boot", "lister", "loop", "request"}

\* What a provider does when asked: "up" lists Serves[p]; "down" fails every
\* call; "unlisted" is available but cannot list (a control-plane outage);
\* "empty" lists nothing.
Health == {"up", "down", "unlisted", "empty"}

VARIABLES
  inventory,   \* modelsByProvider: [models, meta, ver] of each provider
  models,      \* the global map: bare id -> provider, or Nobody
  runtime,     \* providerRuntime: [fetchError, availError, stale]
  modelList,   \* 0 = no model list loaded, 1 = loaded
  initialized, \* a network fetch has completed
  sorted,      \* cached lists over `models': <<>> or <<content>>
  catalog,     \* cached lists and selector index over `inventory', likewise
  refreshCh,   \* the holder of the refresh semaphore, or Nobody
  actor,       \* what each actor is doing
  file,        \* the cache file: <<>> or <<[inventory, modelList]>>
  health,      \* each provider: [state, ver], ver counts the changes
  scenario,    \* the configuration in force and the bounds of the behaviour
  faults, restarts

registry == <<inventory, models, runtime, modelList, initialized>>
lazy == <<sorted, catalog>>
rvars == <<registry, lazy, refreshCh, actor, file, health, scenario, faults, restarts>>

----------------------------------------------------------------------------
(* What the registry derives from the inventories *)

\* the first in registration order of some providers
First(names) ==
  Order[CHOOSE i \in DOMAIN Order : /\ Order[i] \in names
                                    /\ \A j \in DOMAIN Order : Order[j] \in names => i <= j]

\* registration order with the stale providers, which it names, at the back
freshFirstProviderOrder(rt) == {p \in Providers : rt[p].stale}

\* the first provider in that order that lists m owns the bare id
rebuildGlobalModelMap(inv, back) ==
  [m \in Models |->
     LET owners == {p \in Providers : m \in inv[p].models}
     IN IF owners = {} THEN Nobody
        ELSE First(IF owners \subseteq back THEN owners ELSE owners \ back)]

\* ListModels: the bare ids with their owner's metadata
SortedModels(inv, ms) == {<<m, ms[m], inv[ms[m]].meta>> : m \in {n \in Models : ms[n] # Nobody}}

\* ListModelsWithProvider and -ByCategory, the qualified selector index and
\* the category counts are all functions of the inventories and their metadata.
Catalog(inv) == [p \in Providers |-> <<inv[p].models, inv[p].meta>>]

\* Mutant of invalidateSortedCaches: the lists over the bare ids are kept.
InvalidateCatalogOnly == sorted' = sorted /\ catalog' = <<>>

invalidateSortedCaches == sorted' = <<>> /\ catalog' = <<>>

\* Nothing but the metadata of inventories that hold models changes.
Enriched(inv, version) ==
  [p \in Providers |-> IF inv[p].models = {} \/ version = 0 THEN inv[p]
                       ELSE [inv[p] EXCEPT !.meta = version]]

NoError == "none"
Failing(rt, p) == rt[p].fetchError # NoError \/ rt[p].availError # NoError

FailedProviderNames == {p \in Providers : Failing(runtime, p)}

HealthyAlternative(rt, inv, p) ==
  \E q \in Providers \ {p} : ~rt[q].stale /\ ~Failing(rt, q) /\ inv[q].models # {}

\* Mutant of MayBeMarkedStale: no alternative is asked for.
MayBeMarkedStaleAlone(rt, inv, p) == inv[p].models # {} /\ ~rt[p].stale

MayBeMarkedStale(rt, inv, p) ==
  inv[p].models # {} /\ ~rt[p].stale /\ HealthyAlternative(rt, inv, p)

\* markProviderInventoryStale on the runtime states alone
MarkedStale(rt, inv, p) ==
  IF MayBeMarkedStale(rt, inv, p) THEN [rt EXCEPT ![p].stale = TRUE] ELSE rt

----------------------------------------------------------------------------
(* Fetching *)

Listed(p) == scenario.models[p]

\* configuredProviderModels over an upstream answer: `answer' says that the
\* sweep has authoritative inventory for p, `probed' that the upstream said so.
applyConfiguredProviderModels(p, upstream, err) ==
  LET base == [answer |-> TRUE, models |-> Listed(p), error |-> NoError,
               probed |-> FALSE, ver |-> health[p].ver]
  IN IF Listed(p) # {} /\ scenario.mode = "allowlist" THEN base
     ELSE IF Listed(p) # {} /\ (err \/ upstream = {})
          THEN [base EXCEPT !.error = IF err THEN "failed" ELSE NoError]
     ELSE IF err
          THEN [base EXCEPT !.answer = FALSE, !.models = {}, !.error = "failed"]
     ELSE IF upstream = {}
          THEN [base EXCEPT !.models = {}, !.error = "empty"]
     ELSE [base EXCEPT !.models = upstream, !.probed = TRUE]

fetchProviderInventory(p) ==
  applyConfiguredProviderModels(p, IF health[p].state = "up" THEN Serves[p] ELSE {},
                                health[p].state \in {"down", "unlisted"})

\* applyProviderRuntimeUpdatesLocked: the outcome of a fetch is recorded, an
\* upstream that answered is also available, staleness is not touched here.
WithRuntimeUpdates(rt, got) ==
  [p \in Providers |->
     IF p \notin DOMAIN got THEN rt[p]
     ELSE [rt[p] EXCEPT !.fetchError = got[p].error,
                        !.availError = IF got[p].probed THEN NoError ELSE @]]

\* the inventories of the sweep that were answered
Fetched(inv, got, meta) ==
  [p \in Providers |-> IF p \in DOMAIN got /\ got[p].answer
                       THEN [models |-> got[p].models, ver |-> got[p].ver,
                             meta |-> IF got[p].models = {} THEN 0 ELSE meta]
                       ELSE inv[p]]

TotalModels(got) == UNION {got[p].models : p \in DOMAIN got}

\* A full sweep replaces every staleness flag: a provider that failed keeps
\* its inventory, if it has one, and is stale.
SweepRuntime(got) ==
  [p \in Providers |-> [WithRuntimeUpdates(runtime, got)[p] EXCEPT
     !.stale = ~got[p].answer /\ inventory[p].models # {}]]

\* A refresh of some providers clears the flag of those that answered.
PartialRuntime(got) ==
  [p \in Providers |-> [WithRuntimeUpdates(runtime, got)[p] EXCEPT
     !.stale = @ /\ ~(p \in DOMAIN got /\ got[p].answer)]]

----------------------------------------------------------------------------
(* Actors *)

NoGot == [p \in {} |-> 0]
NoCopy == <<>>
AtRest(pc) == [pc |-> pc, job |-> "none", todo |-> {}, ask |-> {}, got |-> NoGot,
               meta |-> 0, queue |-> {}, copy |-> NoCopy]

\* `boot' always runs; the others run when they are in the cast, and wait for
\* the end of `boot' when it is not: a cast of two explores every overlap of
\* those two. The readers of the lists are in the cast or not.
Scheduled(x) == x = "boot" \/ (x \in scenario.cast /\ ("boot" \in scenario.cast \/ actor["boot"].pc = "done"))

At(x, pc) == actor[x].pc = pc /\ Scheduled(x)
Goto(x, pc) == actor' = [actor EXCEPT ![x].pc = pc]

\* where an actor goes when the job it holds is over
AfterJob(x) ==
  CASE x \in {"boot", "lister"} -> AtRest("done")
    [] x = "request" -> AtRest("idle")
    [] x = "loop" /\ actor[x].job = "sweep" -> [AtRest("acquire") EXCEPT !.job = "list"]
    [] x = "loop" /\ actor[x].job = "providers" ->
         [AtRest("next") EXCEPT !.queue = actor[x].queue]
    [] OTHER -> AtRest("idle")

Finish(x) == actor' = [actor EXCEPT ![x] = AfterJob(x)]
Release == refreshCh' = Nobody

\* LoadFromCache: what the cache file says of the configured providers, with
\* configured models applied as to an upstream answer; nothing is stale.
Loaded(f) ==
  [p \in Providers |->
     LET cached == IF f = <<>> THEN {} ELSE f[1].inventory[p]
         held == IF f = <<>> \/ Listed(p) = {} THEN cached
                 ELSE IF scenario.mode = "allowlist" \/ cached = {} THEN Listed(p)
                 ELSE cached
         list == IF f = <<>> THEN 0 ELSE f[1].modelList
     IN [models |-> held, ver |-> 0, meta |-> IF held = {} THEN 0 ELSE list]]

\* Init of the package probes availability once, InitializeAsync loads the
\* cache and starts `boot'; `lister' and `loop' are started as well.
BootRuntime ==
  [p \in Providers |->
     [fetchError |-> NoError, stale |-> FALSE,
      availError |-> IF p \in Checkers /\ health[p].state = "down" THEN "failed" ELSE NoError]]

BootActors ==
  [x \in Actors |->
     CASE x = "boot" -> [AtRest("acquire") EXCEPT !.job = "sweep", !.ask = Providers]
       [] x = "lister" -> [AtRest("list") EXCEPT !.job = "list"]
       [] OTHER -> AtRest("idle")]

LoadedList(f) == IF f = <<>> THEN 0 ELSE f[1].modelList

Init ==
  /\ health \in [Providers -> {[state |-> s, ver |-> 0] : s \in {"up", "down"}}]
  /\ scenario \in Scenarios
  /\ file = <<>>
  /\ inventory = Loaded(file)
  /\ models = rebuildGlobalModelMap(Loaded(file), {})
  /\ runtime = BootRuntime
  /\ modelList = LoadedList(file)
  /\ initialized = FALSE
  /\ sorted = <<>> /\ catalog = <<>>
  /\ refreshCh = Nobody
  /\ actor = BootActors
  /\ faults = 0 /\ restarts = 0

\* the ticker of the background loop: a sweep of every provider
StartSweep ==
  /\ At("loop", "idle")
  /\ actor' = [actor EXCEPT !["loop"] =
                 [AtRest("acquire") EXCEPT !.job = "sweep", !.ask = Providers]]
  /\ UNCHANGED <<registry, lazy, refreshCh, file, health, scenario, faults, restarts>>

\* the recheck ticker: the providers that failed, one refresh each
StartRecheck ==
  /\ At("loop", "idle")
  /\ FailedProviderNames # {}
  /\ actor' = [actor EXCEPT !["loop"] = [AtRest("next") EXCEPT !.queue = FailedProviderNames]]
  /\ UNCHANGED <<registry, lazy, refreshCh, file, health, scenario, faults, restarts>>

NextRecheck ==
  /\ At("loop", "next")
  /\ LET queue == actor["loop"].queue
     IN actor' = [actor EXCEPT !["loop"] =
          IF queue = {} THEN AtRest("idle")
          ELSE [AtRest("acquire") EXCEPT !.job = "providers", !.todo = {First(queue)},
                                         !.queue = queue \ {First(queue)}]]
  /\ UNCHANGED <<registry, lazy, refreshCh, file, health, scenario, faults, restarts>>

\* providerRefreshTargets: a configured name, else every provider of the type
Targets(selector) ==
  IF selector \in Providers THEN {selector} ELSE {p \in Providers : TypeOf[p] = selector}

\* RefreshProviderModels for a request that named `selector'
StartRequest(selector) ==
  /\ At("request", "idle")
  /\ actor' = [actor EXCEPT !["request"] =
       [AtRest("acquire") EXCEPT !.job = "providers", !.todo = Targets(selector)]]
  /\ UNCHANGED <<registry, lazy, refreshCh, file, health, scenario, faults, restarts>>

\* Mutant of SemaphoreFree: the channel is wide enough for everybody.
SemaphoreWide == TRUE

SemaphoreFree == refreshCh = Nobody

acquireRefresh(x) ==
  /\ At(x, "acquire")
  /\ SemaphoreFree
  /\ refreshCh' = x
  /\ Goto(x, CASE actor[x].job = "sweep" -> "fetch"
               [] actor[x].job = "providers" -> "check"
               [] OTHER -> "list")
  /\ UNCHANGED <<registry, lazy, file, health, scenario, faults, restarts>>

\* the context of the actor ends while it waits for the semaphore
AcquireTimesOut(x) ==
  /\ At(x, "acquire")
  /\ refreshCh # Nobody
  /\ faults < scenario.faults
  /\ faults' = faults + 1
  /\ Finish(x)
  /\ UNCHANGED <<registry, lazy, refreshCh, file, health, scenario, restarts>>

\* availableProviderRefreshTargets, one target: RecordAvailabilityCheck, and
\* markProviderInventoryStale when the check failed
CheckAvailability(x) ==
  /\ At(x, "check")
  /\ actor[x].todo # {}
  /\ LET p == First(actor[x].todo)
         fails == p \in Checkers /\ health[p].state = "down"
         recorded == IF p \notin Checkers THEN runtime
                     ELSE [runtime EXCEPT ![p].availError = IF fails THEN "failed" ELSE NoError]
         marked == IF fails THEN MarkedStale(recorded, inventory, p) ELSE recorded
     IN /\ runtime' = marked
        /\ actor' = [actor EXCEPT ![x].todo = @ \ {p},
                                  ![x].ask = IF fails THEN @ ELSE @ \cup {p}]
        /\ IF marked[p].stale # recorded[p].stale
           THEN /\ models' = rebuildGlobalModelMap(inventory, freshFirstProviderOrder(marked))
                /\ invalidateSortedCaches
           ELSE UNCHANGED <<models, lazy>>
  /\ UNCHANGED <<inventory, modelList, initialized, refreshCh, file, health, scenario, faults, restarts>>

\* every target was unavailable, or the selector named no provider
NoTargets(x) ==
  /\ At(x, "check")
  /\ actor[x].todo = {} /\ actor[x].ask = {}
  /\ Release /\ Finish(x)
  /\ UNCHANGED <<registry, lazy, file, health, scenario, faults, restarts>>

\* fetchAllProviderModels: the calls run concurrently, outside the lock
fetchAllProviderModels(x) ==
  /\ At(x, "fetch") \/ (At(x, "check") /\ actor[x].todo = {} /\ actor[x].ask # {})
  /\ actor' = [actor EXCEPT ![x].pc = "enrich",
                            ![x].got = [p \in actor[x].ask |-> fetchProviderInventory(p)]]
  /\ UNCHANGED <<registry, lazy, refreshCh, file, health, scenario, faults, restarts>>

\* enrichFetchedProviderModelMaps reads the model list, then lets go of the lock
enrichFetchedProviderModelMaps(x) ==
  /\ At(x, "enrich")
  /\ actor' = [actor EXCEPT ![x].pc = "apply", ![x].meta = modelList]
  /\ UNCHANGED <<registry, lazy, refreshCh, file, health, scenario, faults, restarts>>

\* initialize, nothing fetched: the outcomes are recorded, no inventory is
\* swapped and nothing becomes stale
SweepFails(x) ==
  /\ At(x, "apply") /\ actor[x].job = "sweep"
  /\ TotalModels(actor[x].got) = {}
  /\ runtime' = WithRuntimeUpdates(runtime, actor[x].got)
  /\ Release /\ Finish(x)
  /\ UNCHANGED <<inventory, models, modelList, initialized, lazy, file, health, scenario, faults, restarts>>

\* Mutant of IndexOrder: the order is the one from before the sweep.
IndexOrderBefore(rt) == freshFirstProviderOrder(runtime)

IndexOrder(rt) == freshFirstProviderOrder(rt)

\* Inventories and runtime states are swapped under one write lock.
Swap(inv, rt) ==
  /\ inventory' = inv
  /\ runtime' = rt
  /\ models' = rebuildGlobalModelMap(inv, IndexOrder(rt))
  /\ invalidateSortedCaches
  /\ initialized' = TRUE

applyFetchedInventory(x) ==
  /\ At(x, "apply") /\ actor[x].job = "sweep"
  /\ TotalModels(actor[x].got) # {}
  /\ Swap(Fetched(inventory, actor[x].got, actor[x].meta), SweepRuntime(actor[x].got))
  /\ Release
  /\ Goto(x, "copy")
  /\ UNCHANGED <<modelList, file, health, scenario, faults, restarts>>

AllFailed(got) == \A p \in DOMAIN got : ~got[p].answer

\* RefreshProviderModels, no provider answered: outcomes only
RefreshFails(x) ==
  /\ At(x, "apply") /\ actor[x].job = "providers"
  /\ AllFailed(actor[x].got)
  /\ runtime' = WithRuntimeUpdates(runtime, actor[x].got)
  /\ Goto(x, "mark")
  /\ UNCHANGED <<inventory, models, modelList, initialized, lazy, refreshCh, file, health, scenario, faults, restarts>>

applyFetchedProviderInventory(x) ==
  /\ At(x, "apply") /\ actor[x].job = "providers"
  /\ ~AllFailed(actor[x].got)
  /\ Swap(Fetched(inventory, actor[x].got, actor[x].meta), PartialRuntime(actor[x].got))
  /\ Goto(x, "mark")
  /\ UNCHANGED <<modelList, refreshCh, file, health, scenario, faults, restarts>>

\* the providers of the refresh that failed without inventory of their own
FailedNow(x) == {p \in DOMAIN actor[x].got : ~actor[x].got[p].answer}

markFailedRefreshProvidersStale(x) ==
  /\ At(x, "mark")
  /\ \/ \E p \in FailedNow(x) :
          /\ LET marked == MarkedStale(runtime, inventory, p)
             IN /\ runtime' = marked
                /\ IF marked # runtime
                   THEN /\ models' = rebuildGlobalModelMap(inventory, freshFirstProviderOrder(marked))
                        /\ invalidateSortedCaches
                   ELSE UNCHANGED <<models, lazy>>
          /\ actor' = [actor EXCEPT ![x].got = [q \in DOMAIN @ \ {p} |-> @[q]]]
          /\ UNCHANGED refreshCh
     \/ /\ FailedNow(x) = {}
        /\ Release /\ Finish(x)
        /\ UNCHANGED <<runtime, models, lazy>>
  /\ UNCHANGED <<inventory, modelList, initialized, file, health, scenario, faults, restarts>>

\* the model list could not be fetched
ListFails(x) ==
  /\ At(x, "list")
  /\ Finish(x)
  /\ refreshCh' = IF x = "loop" THEN Nobody ELSE refreshCh
  /\ UNCHANGED <<registry, lazy, file, health, scenario, faults, restarts>>

EnrichModels ==
  /\ inventory' = Enriched(inventory, modelList')
  /\ IF \E m \in Models : models[m] # Nobody THEN invalidateSortedCaches ELSE UNCHANGED lazy

\* setModelListAndEnrich: the loop, under the semaphore
setModelListAndEnrich ==
  /\ At("loop", "list")
  /\ modelList' = 1
  /\ EnrichModels
  /\ Release
  /\ Goto("loop", "copy")
  /\ UNCHANGED <<models, runtime, initialized, file, health, scenario, faults, restarts>>

\* SetModelList by the goroutine of Init, which holds no semaphore ...
SetModelList ==
  /\ At("lister", "list")
  /\ modelList' = 1
  /\ Goto("lister", "enrichall")
  /\ UNCHANGED <<inventory, models, runtime, initialized, lazy, refreshCh, file, health, scenario, faults, restarts>>

\* ... and its enrichModels, a lock later
enrichModels ==
  /\ At("lister", "enrichall")
  /\ UNCHANGED modelList
  /\ EnrichModels
  /\ Goto("lister", "copy")
  /\ UNCHANGED <<models, runtime, initialized, refreshCh, file, health, scenario, faults, restarts>>

\* SaveToCache copies the registry under the read lock ...
SaveToCacheCopies(x) ==
  /\ At(x, "copy")
  /\ actor' = [actor EXCEPT ![x].pc = "write",
                 ![x].copy = <<[inventory |-> [p \in Providers |-> inventory[p].models],
                                modelList |-> modelList]>>]
  /\ UNCHANGED <<registry, lazy, refreshCh, file, health, scenario, faults, restarts>>

\* ... and writes the file afterwards (temporary file and rename), or fails
SaveToCacheWrites(x) ==
  /\ At(x, "write")
  /\ file' \in {actor[x].copy, file}
  /\ Finish(x)
  /\ UNCHANGED <<registry, lazy, refreshCh, health, scenario, faults, restarts>>

\* A reader that finds a cache empty builds it from the registry as it is.
ListModels ==
  /\ "reader" \in scenario.cast
  /\ sorted = <<>>
  /\ sorted' = <<SortedModels(inventory, models)>>
  /\ UNCHANGED <<registry, catalog, refreshCh, actor, file, health, scenario, faults, restarts>>

ListModelsWithProvider ==
  /\ "reader" \in scenario.cast
  /\ catalog = <<>>
  /\ catalog' = <<Catalog(inventory)>>
  /\ UNCHANGED <<registry, sorted, refreshCh, actor, file, health, scenario, faults, restarts>>

HealthChanges(p) ==
  /\ faults < scenario.faults
  /\ faults' = faults + 1
  /\ \E s \in Health \ {health[p].state} :
       health' = [health EXCEPT ![p] = [state |-> s, ver |-> @.ver + 1]]
  /\ UNCHANGED <<registry, lazy, refreshCh, actor, file, scenario, restarts>>

\* The process stops anywhere and starts again from the cache file.
Restart ==
  /\ restarts < scenario.restarts
  /\ restarts' = restarts + 1
  /\ inventory' = Loaded(file)
  /\ models' = rebuildGlobalModelMap(Loaded(file), {})
  /\ runtime' = BootRuntime
  /\ modelList' = LoadedList(file)
  /\ initialized' = FALSE
  /\ invalidateSortedCaches
  /\ Release
  /\ actor' = BootActors
  /\ UNCHANGED <<file, health, scenario, faults>>

ActorStep(x) ==
  \/ acquireRefresh(x) \/ CheckAvailability(x) \/ NoTargets(x)
  \/ fetchAllProviderModels(x) \/ enrichFetchedProviderModelMaps(x)
  \/ SweepFails(x) \/ applyFetchedInventory(x)
  \/ RefreshFails(x) \/ applyFetchedProviderInventory(x)
  \/ markFailedRefreshProvidersStale(x)
  \/ ListFails(x) \/ SaveToCacheCopies(x) \/ SaveToCacheWrites(x)

Next ==
  \/ StartSweep \/ StartRecheck \/ NextRecheck
  \/ \E s \in Providers \cup {TypeOf[p] : p \in Providers} : StartRequest(s)
  \/ \E x \in Actors : ActorStep(x) \/ AcquireTimesOut(x)
  \/ setModelListAndEnrich \/ SetModelList \/ enrichModels
  \/ ListModels \/ ListModelsWithProvider
  \/ \E p \in Providers : HealthChanges(p)
  \/ Restart

Spec == Init /\ [][Next]_rvars

----------------------------------------------------------------------------
(* Properties *)

\* What a fetch of one provider can bring, and what the cache file can hold.
Outcomes ==
  [answer : BOOLEAN, models : SUBSET Models, error : {NoError, "failed", "empty"},
   probed : BOOLEAN, ver : Nat]
Files == {<<>>} \cup {<<f>> : f \in [inventory : [Providers -> SUBSET Models], modelList : {0, 1}]}
ActorState(a) ==
  /\ a \in [pc : {"acquire", "check", "fetch", "enrich", "apply", "mark", "list", "enrichall",
                 "copy", "write", "next", "idle", "done"},
            job : {"none", "sweep", "providers", "list"}, todo : SUBSET Providers,
            ask : SUBSET Providers, got : {a.got}, meta : {0, 1}, queue : SUBSET Providers,
            copy : Files]
  /\ DOMAIN a.got \subseteq Providers /\ a.got \in [DOMAIN a.got -> Outcomes]

RegistryTypeOK ==
  /\ inventory \in [Providers -> [models : SUBSET Models, meta : {0, 1}, ver : Nat]]
  /\ models \in [Models -> Providers \cup {Nobody}]
  /\ runtime \in [Providers -> [fetchError : {NoError, "failed", "empty"},
                                availError : {NoError, "failed"}, stale : BOOLEAN]]
  /\ modelList \in {0, 1}
  /\ refreshCh \in Actors \cup {Nobody}
  /\ DOMAIN actor = Actors /\ \A x \in Actors : ActorState(actor[x])
  /\ file \in Files
  /\ health \in [Providers -> [state : Health, ver : Nat]]
  /\ scenario \in Scenarios
  /\ restarts \in Nat

\* A bare model id resolves to a provider that lists it whenever one does, and
\* to one whose inventory is fresh whenever such a provider lists it: the
\* global map is never behind the inventories or the staleness flags
\* (freshFirstProviderOrderLocked, rebuildGlobalModelMap).
BareIdsResolveFresh ==
  \A m \in Models :
    LET owners == {p \in Providers : m \in inventory[p].models}
        fresh == {p \in owners : ~runtime[p].stale}
    IN /\ owners = {} => models[m] = Nobody
       /\ owners # {} => models[m] \in owners
       /\ fresh # {} => models[m] \in fresh

\* The lazily built lists and the selector index never outlive the catalog
\* they were built from, metadata included: whatever changes it clears them
\* under the same lock (invalidateSortedCaches).
LazyCachesAreCurrent ==
  /\ sorted # <<>> => sorted[1] = SortedModels(inventory, models)
  /\ catalog # <<>> => catalog[1] = Catalog(inventory)

\* The tables derived from the inventories never fall behind them, whoever
\* swapped an inventory or a staleness mark last.
TablesAreCurrent == BareIdsResolveFresh /\ LazyCachesAreCurrent

\* Retiring failed providers never leaves virtual models without a target:
\* as long as some provider has models, one that is not stale has models too,
\* unless one that has none was asked since and still has none
\* (markProviderInventoryStale asks for a healthy alternative, a failed sweep
\* marks nobody; an alternative may answer later that its list is empty).
SomebodyStaysRoutable ==
  (\E p \in Providers : inventory[p].models # {})
  => \/ \E p \in Providers : inventory[p].models # {} /\ ~runtime[p].stale
     \/ \E p \in Providers : inventory[p].models = {} /\ runtime[p].fetchError # NoError

\* A provider retired from load balancing is one the recheck loop will probe:
\* while no refresh is under way, a stale provider is among
\* FailedProviderNames, whichever of the two probes failed.
StaleIsRechecked ==
  refreshCh = Nobody
  => \A p \in Providers :
       runtime[p].stale => p \in FailedProviderNames

\* A failed provider is retired from load balancing only while another one can
\* stand in, and never for good (markProviderInventoryStale,
\* recheckFailedProviders).
RetiringIsSafe == SomebodyStaysRoutable /\ StaleIsRechecked

\* An inventory is only replaced by one fetched later, however the actors'
\* sweeps and refreshes overlap (the refresh semaphore); a failed sweep keeps
\* it. Only a restart, which reads the cache file, may go back.
InventoryMovesForward ==
  [][restarts' # restarts
     \/ \A p \in Providers :
          /\ inventory'[p].ver >= inventory[p].ver
          /\ inventory'[p].models # inventory[p].models
             => \E x \in Actors : /\ p \in DOMAIN actor[x].got
                                  /\ actor[x].got[p].answer]_rvars

=============================================================================
