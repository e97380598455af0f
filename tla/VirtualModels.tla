--------------------------- MODULE VirtualModels ---------------------------
(***************************************************************************)
(* Virtual models (internal/virtualmodels, internal/modelselectors): rows  *)
(* that redirect a name to one or several models, or that state an access  *)
(* policy, kept in a store, overlaid by the configuration's rows and       *)
(* served from one snapshot that is swapped whole.                         *)
(*                                                                         *)
(* A model name, a source or a user path is the sequence of its parts      *)
(* between slashes: "p/m" is <<"p", "m">>, "/" is <<"", "">>.  Weights are  *)
(* in tenths.                                                              *)
(*                                                                         *)
(* The store is any that can be written.  The one the factory installs     *)
(* refuses writes (factory.go:48-61): with it only Refresh and Resolve are *)
(* taken.                                                                  *)
(***************************************************************************)
EXTENDS Integers, Sequences, FiniteSets, SequencesExt, FiniteSetsExt, Functions

CONSTANTS
  Registered,      \* provider names of the registry
  Declared,        \* provider names of the configuration, registered or not
  Supported,       \* qualified names the catalog knows
  Price,           \* [priced names -> Nat]
  HealthWeights,          \* [provider names -> weight of its last availability check]
  ConfigRows,      \* the managed rows, a set
  Drafts,          \* rows clients write, a set
  UserPaths,       \* raw user paths of requests
  DefaultEnabled,
  CounterBound,    \* bound on the balancers' counters
  None

VARIABLES
  store,           \* the table: a set of rows, one per source
  snapshot,        \* Service.current: a set of rows, one per source
  counters,        \* roundRobin.counters: sources that were balanced -> Nat
  slot,            \* LeastUsedBalancer.counter
  available,       \* names whose provider's inventory is fresh
  op,              \* the operation that holds refreshMu, or Free
  strayed          \* a rollback failed since the last successful refresh

vmVars == <<store, snapshot, counters, slot, available, op, strayed>>

\* Blank is the empty segment, and no provider.  Rows as clients and the configuration
\* write them: a scope is None until it is worked out, and for a redirect.
Blank == ""
Names == Seq(STRING)
RowTargets == [provider : STRING, model : Names, weight : Int, fallback : BOOLEAN]
Scopes == [provider : STRING \cup {Blank}, model : Names]
Rows == [source : Names, targets : Seq(RowTargets), strategy : STRING, enabled : BOOLEAN,
         paths : SUBSET Names, scope : {None} \cup Scopes]

ASSUME VMAssumption ==
  /\ ConfigRows \subseteq Rows /\ Drafts \subseteq Rows
  /\ \A row, other \in ConfigRows : row.source = other.source => row = other  \* declared once
  /\ \A name \in DOMAIN Price : Price[name] \in Nat
  /\ None \notin Scopes

Strategies == {"round_robin", "cost", "weighted", "random", "least_used",
               "health_aware", "auto", "auto/fast", "auto/cheap"}
----------------------------------------------------------------------------
(* Names and user paths. *)

Splits(name) == Len(name) >= 2 /\ name[1] # Blank /\ name[2] # Blank

ParseModelSelector(model, provider) ==
  IF provider # Blank
    THEN [provider |-> provider,
          model |-> IF Splits(model) /\ model[1] = provider THEN Tail(model) ELSE model]
    ELSE IF Splits(model) THEN [provider |-> model[1], model |-> Tail(model)]
                          ELSE [provider |-> Blank, model |-> model]

QualifiedModel(selector) ==
  IF selector.provider = Blank THEN selector.model ELSE <<selector.provider>> \o selector.model

\* The elements of a sequence at the places kept, in their order.
Kept(seq, kept) ==
  LET place(n) == CHOOSE i \in kept : Cardinality({j \in kept : j <= i}) = n
  IN [n \in 1 .. Cardinality(kept) |-> seq[place(n)]]

\* A dotted segment is an error, empty segments disappear.
InvalidPath(raw) == \E i \in DOMAIN raw : raw[i] = ".."
NormalizeUserPath(raw) == Kept(raw, {i \in DOMAIN raw : raw[i] # Blank})

UserPathAncestors(path) == {SubSeq(path, 1, n) : n \in 0 .. Len(path)}

userPathAllowed(raw, allowed) ==
  \/ allowed = {}
  \/ <<>> \in allowed
  \/ /\ raw # None
     /\ ~ InvalidPath(raw)
     /\ UserPathAncestors(NormalizeUserPath(raw)) \cap allowed # {}

\* The scope of a policy, from what a client wrote or from the stored source.
Global == <<Blank, Blank>>
PolicyScope(source, providers) ==
  IF source = Global THEN [provider |-> Blank, model |-> <<>>]
  ELSE IF Len(source) >= 2 /\ source[1] \in providers
    THEN [provider |-> source[1], model |-> IF Tail(source) = <<Blank>> THEN <<>> ELSE Tail(source)]
    ELSE [provider |-> Blank, model |-> source]
NormalizeInput(source) == PolicyScope(source, Registered)
NormalizeStored(row) ==
  IF row.scope # None THEN row.scope
                      ELSE PolicyScope(row.source, {row.source[1]})
----------------------------------------------------------------------------
(* Rows and the snapshot. *)

IsRedirect(row) == row.targets # <<>>
TargetName(target) == QualifiedModel(ParseModelSelector(target.model, target.provider))
TargetNames(row) == {TargetName(row.targets[i]) : i \in DOMAIN row.targets}

ValidRedirect(row) ==
  /\ row.source # <<>>
  /\ row.strategy \in Strategies
  /\ \A i \in DOMAIN row.targets : row.targets[i].weight >= 0
  /\ Cardinality(TargetNames(row)) = Len(row.targets)
  /\ \A path \in row.paths : ~ InvalidPath(path)

ValidPolicy(row) ==
  /\ row.source # <<>>
  /\ \A path \in row.paths : ~ InvalidPath(path)

normalizeRow(row) ==
  [row EXCEPT !.paths = {NormalizeUserPath(p) : p \in row.paths},
              !.scope = IF IsRedirect(row) THEN None ELSE NormalizeStored(row)]

Valid(row) == IF IsRedirect(row) THEN ValidRedirect(row) ELSE ValidPolicy(row)
buildSnapshot(rows) == {normalizeRow(row) : row \in rows}

Has(rows, source) == \E row \in rows : row.source = source
RowAt(rows, source) == CHOOSE row \in rows : row.source = source
Without(rows, source) == {row \in rows : row.source # source}
upsertRow(rows, row) == Without(rows, row.source) \cup {row}

isManagedSource(source) == Has(ConfigRows, source)
mergeConfigModels(rows) ==
  {row \in rows : ~ isManagedSource(row.source)} \cup ConfigRows

Redirects(rows) == {row \in rows : IsRedirect(row)}
Policies(rows) == {row \in rows : ~ IsRedirect(row)}

lookupCanonicalSource(rows, source) ==
  IF Has(rows, source) THEN {RowAt(rows, source)} ELSE {}
----------------------------------------------------------------------------
(* Access policies. *)

Matching(scope) ==
  {row \in Policies(snapshot) : row.scope = scope /\ row.source # Global}

\* exact > provider > model > global
matchingPolicy(selector) ==
  LET exact == IF selector.provider = Blank THEN {} ELSE Matching(selector)
      wide == IF selector.provider = Blank THEN {}
              ELSE Matching([provider |-> selector.provider, model |-> <<>>])
      model == Matching([provider |-> Blank, model |-> selector.model])
      global == {row \in Policies(snapshot) : row.source = Global}
  IN IF exact # {} THEN exact ELSE IF wide # {} THEN wide
     ELSE IF model # {} THEN model ELSE global

effectiveState(selector) ==
  LET rule == matchingPolicy(selector) IN
  IF rule = {} THEN [enabled |-> DefaultEnabled, paths |-> {}]
  ELSE LET row == CHOOSE r \in rule : TRUE IN [enabled |-> row.enabled, paths |-> row.paths]

AllowsModel(selector, path) ==
  LET state == effectiveState(selector) IN
  state.enabled /\ userPathAllowed(path, state.paths)
----------------------------------------------------------------------------
(* Redirect resolution and load balancing. *)

findRedirect(name, path, enforce) ==
  {row \in Redirects(snapshot) :
     row.source = name /\ row.enabled /\ (enforce => userPathAllowed(path, row.paths))}

supportedTargets(row) ==
  Kept(row.targets, {i \in DOMAIN row.targets : TargetName(row.targets[i]) \in available})

balancedPool(row) ==
  LET supported == supportedTargets(row)
      primary == Kept(supported, {i \in DOMAIN supported : ~ supported[i].fallback})
  IN IF primary # <<>> THEN primary ELSE supported

normalizeWeight(weight) ==
  IF weight <= 0 THEN 1 ELSE IF (weight + 5) \div 10 < 1 THEN 1 ELSE (weight + 5) \div 10

\* The slots of the first n targets: each has as many as its rounded weight.
Share(targets, i) == normalizeWeight(targets[i].weight)
Slots(targets, n) == UNION {{i} \X (1 .. Share(targets, i)) : i \in 1 .. n}
ShareUpTo(targets, n) == Cardinality(Slots(targets, n))

\* Mutant of weightedIndex: the slot is compared before the weight is taken off.
weightedIndexLate(targets, counter) ==
  LET s == counter % ShareUpTo(targets, Len(targets))
      late == {i \in DOMAIN targets : s <= ShareUpTo(targets, i)}
  IN Min(late)

\* A target of weight w takes w consecutive slots of every sum of weights.
weightedIndex(targets, counter) ==
  LET s == counter % ShareUpTo(targets, Len(targets))
  IN Min({i \in DOMAIN targets : s < ShareUpTo(targets, i)})

cheapestTargets(targets) ==
  LET priced == {i \in DOMAIN targets : TargetName(targets[i]) \in DOMAIN Price}
      cost(i) == Price[TargetName(targets[i])]
  IN IF priced = {} THEN 1
     ELSE Min({i \in priced : \A j \in priced : cost(i) <= cost(j)})

HealthWeight(target) ==
  LET provider == TargetName(target)[1]
  IN IF provider \in DOMAIN HealthWeights THEN HealthWeights[provider] ELSE 0

healthyTargets(targets) ==
  LET healthy == {i \in DOMAIN targets : HealthWeight(targets[i]) > 0}
  IN IF healthy = {} THEN {1} ELSE healthy

autoStrategy(strategy) ==
  CASE strategy = "auto" -> "health_aware"
    [] strategy = "auto/fast" -> "least_used"
    [] strategy = "auto/cheap" -> "cost"
    [] OTHER -> strategy

Counter(source) == IF source \in DOMAIN counters THEN counters[source] ELSE 0

\* The indices of the pool that balancedResolution may pick.
balancedChoices(row) ==
  LET pool == balancedPool(row)
      strategy == autoStrategy(row.strategy)
  IN IF Len(pool) <= 1 THEN DOMAIN pool
     ELSE IF strategy = "cost" THEN {cheapestTargets(pool)}
     ELSE IF strategy \in {"weighted", "random"} THEN DOMAIN pool
     ELSE IF strategy = "least_used" THEN {((slot + 1) % Len(pool)) + 1}
     ELSE IF strategy = "health_aware" THEN healthyTargets(pool)
     ELSE {weightedIndex(pool, Counter(row.source))}

\* What a request for a bare name resolves to: redirect targets, or the literal.
resolvedNames(name, path, enforce) ==
  UNION {{TargetName(balancedPool(row)[i]) : i \in balancedChoices(row)} :
           row \in findRedirect(name, path, enforce)}

\* The redirects a caller sees in the model list.
exposedModels(path) ==
  {row.source : row \in {r \in Redirects(snapshot) :
     /\ r.enabled
     /\ userPathAllowed(path, r.paths)
     /\ \E i \in DOMAIN supportedTargets(r) :
          AllowsModel(ParseModelSelector(TargetName(supportedTargets(r)[i]), Blank), path)}}
----------------------------------------------------------------------------
(* Validation of a write. *)

validateRedirectStructure(rows, row) ==
  \A name \in TargetNames(row) :
    /\ name # row.source
    /\ ~ \E other \in Redirects(rows) : other.source = name /\ other.source # row.source

validateTargetProviders(row, declared) ==
  \A i \in DOMAIN row.targets :
    row.targets[i].provider \in {Blank} \cup Registered \cup declared

validateRedirectTarget(row) ==
  IsRedirect(row) =>
    /\ validateRedirectStructure(snapshot, row)
    /\ validateTargetProviders(row, {})
    /\ TargetNames(row) \subseteq Supported

ensureSourceKind(row) ==
  \A other \in lookupCanonicalSource(snapshot, row.source) :
    IsRedirect(other) = IsRedirect(row)

normalizeForUpsert(row) ==
  normalizeRow(IF IsRedirect(row) THEN row
               ELSE [row EXCEPT !.scope = NormalizeInput(row.source)])

ValidateManagedConfig ==
  \A row \in Redirects(buildSnapshot(ConfigRows)) :
    /\ validateRedirectStructure(buildSnapshot(ConfigRows), row)
    /\ validateTargetProviders(row, Declared)
----------------------------------------------------------------------------
(* The service.  refreshMu is held from the store write to the end of the  *)
(* refresh or of the rollback.  A store call that fails changes nothing.   *)

Free == [stage |-> "free", prior |-> <<>>]

VMInit ==
  /\ \A row \in ConfigRows : Valid(row)
  /\ ValidateManagedConfig
  /\ store = {}
  /\ snapshot = buildSnapshot(mergeConfigModels({}))
  /\ counters = <<>>
  /\ slot = 0
  /\ available \in SUBSET Supported
  /\ op = Free
  /\ strayed = FALSE

\* The rows as they were, to restore: source -> {row} or {}.
PriorRow(source) == lookupCanonicalSource(snapshot, source)
Holding(stage, prior) == op' = [stage |-> stage, prior |-> prior]

Upsert(draft) ==
  LET row == normalizeForUpsert(draft) IN
  /\ op = Free
  /\ Valid(draft) /\ ~ isManagedSource(draft.source)
  /\ ensureSourceKind(row) /\ validateRedirectTarget(row)
  /\ store' = upsertRow(store, row)
  /\ Holding("refresh", [s \in {row.source} |-> PriorRow(s)])
  /\ UNCHANGED <<snapshot, counters, slot, available, strayed>>

Rename(old, draft) ==
  LET row == normalizeForUpsert(draft) IN
  /\ op = Free
  /\ Valid(draft) /\ row.source # old
  /\ ~ isManagedSource(draft.source) /\ ~ isManagedSource(old)
  /\ Has(snapshot, old) /\ ~ Has(snapshot, row.source)
  /\ validateRedirectTarget(row)
  /\ store' = upsertRow(store, row)
  /\ Holding("delete", [s \in {row.source, old} |-> PriorRow(s)])
  /\ UNCHANGED <<snapshot, counters, slot, available, strayed>>

\* The second write of a rename: the row that existed before goes.
RenameDeletesOld ==
  /\ op.stage = "delete"
  /\ \E old \in {s \in DOMAIN op.prior : op.prior[s] # {}} :
       \/ /\ Has(store, old)
          /\ store' = Without(store, old)
          /\ Holding("refresh", op.prior)
       \/ /\ Holding("restore", op.prior)
          /\ UNCHANGED store
  /\ UNCHANGED <<snapshot, counters, slot, available, strayed>>

Delete(source) ==
  /\ op = Free
  /\ lookupCanonicalSource(snapshot, source) # {}
  /\ ~ isManagedSource(source)
  /\ Has(store, source)
  /\ store' = Without(store, source)
  /\ Holding("refresh", [s \in {source} |-> PriorRow(s)])
  /\ UNCHANGED <<snapshot, counters, slot, available, strayed>>

\* refreshLocked: list, overlay, swap, and forget the counters of lost redirects.
refreshLocked ==
  LET next == buildSnapshot(mergeConfigModels(store)) IN
  /\ snapshot' = next
  /\ counters' = Restrict(counters, {row.source : row \in Redirects(next)} \cap DOMAIN counters)
  /\ strayed' = FALSE

Refresh ==
  /\ op = Free
  /\ refreshLocked
  /\ UNCHANGED <<store, slot, available, op>>

CommitSucceeds ==
  /\ op.stage = "refresh"
  /\ refreshLocked
  /\ op' = Free
  /\ UNCHANGED <<store, slot, available>>

\* Mutant of CommitFails: the error is returned without a rollback.
CommitFailsBare ==
  /\ op.stage = "refresh"
  /\ op' = Free
  /\ UNCHANGED <<store, snapshot, counters, slot, available, strayed>>

\* commitRefresh: the list failed, the touched rows are restored.
CommitFails ==
  /\ op.stage = "refresh"
  /\ Holding("restore", op.prior)
  /\ UNCHANGED <<store, snapshot, counters, slot, available, strayed>>

\* restore: every touched source is attempted, in any order, an error or not.
Restore ==
  /\ op.stage = "restore"
  /\ \E source \in DOMAIN op.prior :
       /\ op' = IF DOMAIN op.prior = {source} THEN Free
                ELSE [op EXCEPT !.prior = Restrict(@, DOMAIN @ \ {source})]
       /\ \/ /\ store' = Without(store, source) \cup op.prior[source]
             /\ UNCHANGED strayed
          \/ /\ strayed' = TRUE
             /\ UNCHANGED store
  /\ UNCHANGED <<snapshot, counters, slot, available>>

\* A request resolves through the snapshot and advances the balancer.
Resolve(name, path) ==
  /\ \E row \in findRedirect(name, path, TRUE) :
       /\ Len(balancedPool(row)) > 1
       /\ \/ /\ autoStrategy(row.strategy) = "round_robin"
             /\ Counter(name) < CounterBound
             /\ counters' = [s \in DOMAIN counters \cup {name} |->
                              IF s = name THEN Counter(s) + 1 ELSE counters[s]]
             /\ UNCHANGED slot
          \/ /\ autoStrategy(row.strategy) = "least_used"
             /\ slot < CounterBound
             /\ slot' = slot + 1
             /\ UNCHANGED counters
  /\ UNCHANGED <<store, snapshot, available, op, strayed>>

\* A provider's inventory goes stale or is fresh again.
CatalogChanges(name) ==
  /\ available' = IF name \in available THEN available \ {name} ELSE available \cup {name}
  /\ UNCHANGED <<store, snapshot, counters, slot, op, strayed>>

Sources == {row.source : row \in ConfigRows \cup Drafts}

VMNext ==
  \/ \E draft \in Drafts : Upsert(draft) \/ \E old \in Sources : Rename(old, draft)
  \/ RenameDeletesOld
  \/ \E source \in Sources : Delete(source)
  \/ Refresh \/ CommitSucceeds \/ CommitFails \/ Restore
  \/ \E name \in Sources, path \in UserPaths : Resolve(name, path)
  \/ \E name \in Supported : CatalogChanges(name)

VMSpec == VMInit /\ [][VMNext]_vmVars
----------------------------------------------------------------------------
(* Properties. *)

\* When nobody holds refreshMu and no rollback failed, requests are served
\* from exactly the rows of the store, overlaid by the configuration: a write
\* whose refresh failed was undone completely (service.go:566-606, Rename's
\* two writes included).
SnapshotFollowsStore ==
  op = Free /\ ~ strayed => snapshot = buildSnapshot(mergeConfigModels(store))

\* Whatever slot the counter stands at, every sum(weights) consecutive requests
\* give each target its rounded weight (balancer.go:134-176).
RotationIsFair ==
  \A row \in Redirects(snapshot) :
    LET pool == balancedPool(row)
        total == ShareUpTo(pool, Len(pool))
        start == Counter(row.source)
    IN pool # <<>> => \A i \in DOMAIN pool :
         Cardinality({n \in start .. start + total - 1 : weightedIndex(pool, n) = i}) = Share(pool, i)

\* Listing and resolution agree (resolve.go:114-142, balancer.go:62-117): a
\* redirect a caller is shown takes his request to an available target, to a
\* fallback-only one only when no other target is available; a redirect he is
\* not shown although a target of it is allowed to him leaves the name alone.
ListedIsServed ==
  \A row \in Redirects(snapshot), path \in UserPaths :
    LET served == resolvedNames(row.source, path, TRUE)
        fallbacks == {TargetName(row.targets[i]) : i \in {j \in DOMAIN row.targets : row.targets[j].fallback}}
        allowed == {name \in TargetNames(row) \cap available : AllowsModel(ParseModelSelector(name, Blank), path)}
    IN /\ row.source \in exposedModels(path) =>
            /\ served # {} /\ served \subseteq TargetNames(row) \cap available
            /\ served \cap fallbacks # {} => TargetNames(row) \cap available \subseteq fallbacks
       /\ row.source \notin exposedModels(path) /\ allowed # {} => served = {}

\* A redirect serves the callers it is listed to, and its targets in their
\* shares, while targets come and go (resolve.go, balancer.go).
RedirectsServe == RotationIsFair /\ ListedIsServed
============================================================================
