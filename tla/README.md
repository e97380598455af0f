# thinroute in TLA+

thinroute is an LLM gateway written in Go: clients speak the OpenAI (or Anthropic) protocol to it,
and it picks a provider and a model for each request, calls it, and keeps what the protocol needs it
to keep (stored responses, conversations, batches, files, usage). This directory holds TLA+ modules
translated from its source, TLC runs that check them on small instances, and TLAPS proofs that hold
for every value of the constants. Paths below are relative to the source root (`src/`); where only a
file name is given, it is under `internal/`.

- [1. Inventory of the system](#1-inventory-of-the-system)
- [2. Modules and plan](#2-modules-and-plan)
- [3. The models, their runs and what they show](#3-the-models-their-runs-and-what-they-show)
- [4. Proofs](#4-proofs)
- [5. Where code and documentation disagree](#5-where-code-and-documentation-disagree)
- [6. What is not modelled](#6-what-is-not-modelled)
- [7. Running it](#7-running-it)

## 1. Inventory of the system

One request crosses the components in this order:

```
 client -> middleware (auth, audit) -> body snapshot, rewriters -> response cache
   -> workflow: selector, resolution, virtual models -> access check, rewriting of the model
   -> translation to the chat form -> failover sweep -> router: cooldown check, second resolution
   -> provider adapter: translation to the provider's form
     -> upstream client: circuit breaker, retries -> provider
 answer or stream -> adapter, converter of the client's dialect, observers
   -> usage and its cost -> usage logger; conversation turn; stored response; cache write
```

Requests are goroutines. They share, each under a lock or a channel of its own: the breaker of a
provider, the cooldown tracker, the model registry, the virtual-model snapshot, the cache queue, the
loggers' buffers, and the stores. No lock is held across two components, so what the components
owe one another are guarantees about *sequences* of short critical sections. Between them run
translators without shared state, whose hazards are sequences of legal inputs that nobody wrote a
test for.

| Component | State | Operations | What is hard | What makes it correct | Module |
|---|---|---|---|---|---|
| Circuit breaker and upstream client (`llmclient`) | state, counters, probe slot, time of last failure; per request: attempt and probe flag | acquire, recordSuccess, recordFailure, releaseProbe; DoRaw, DoStream, DoPassthrough | verdicts of requests admitted in an earlier state; a slot that every exit must return | the slot is never lost; thresholds decide; closes after recovery | `CircuitBreaker` |
| Usage logger (`usage/logger.go`) | closed, WaitGroup, channel, done, batch of the flush goroutine | Write, flushLoop, flushBatch, Close | Write against Close; a drain that stops at the first empty look | no entry lost or settled twice; nothing after the close | `UsageDelivery`, `UsageLogger` |
| Response cache (`responsecache`, `cache`) | jobs channel, WaitGroup, closed under a RW lock, store | TryHit, StoreAfter, enqueueWrite, worker, close | send on a closing channel; full queue; what may be replayed to whom | close loses no write; faithful hits | `ResponseCache` |
| In-memory stores (`responsestore`, `conversationstore`) | map, byte total, last sweep | Create, Get, Update, AppendItems, Delete, sweep, eviction | byte account; calls that run in another order than their stamps | bounds; only the right entries leave | `MemoryStore` |
| Conversation turns (`server/conversation_responses.go`, `native_conversation_service.go`) | one conversation object | turn, metadata update, delete | read, model call of seconds, write; a pointer used after unlock | exchanges are kept | `Conversations` |
| Native batches (`gateway/batch_*.go`, `batch`) | one record per batch; the provider's own state | create, get, cancel, results | read, provider call, whole record written back; five clean-ups when a step fails | ends are true, usage once, nothing left over | `Batches` |
| Native responses and files (`server/native_response_service.go`, `native_file_service.go`, `filestore`) | record or provider mapping of an object | get, list items, content, cancel, delete, probing | stale mappings, write-back after a deletion | clients are told the truth | `NativeObjects` |
| Lists (the same services, `server/response_input_items.go`) | cursor, one page per provider | page by page, merged over providers | entries that come and go between pages | a list read to its end is whole | `Listings` |
| Cooldown tracker and failover sweep (`providers/cooldown.go`, `router.go`, `gateway/failover.go`) | per key: end of wait, failure count; per request: place in its targets | Check, RecordFailure, routeResolvedModelCall, tryFailover* | storms of concurrent failures; checks stale when the call starts | lockouts last, hit only the missing model, and end | `Routing` |
| Model registry (`providers/registry*.go`, `init.go`) | models by provider, stale marks, model list, cached lists, cache file | sweep, single refresh, recheck, enrichment, save and load | four actors, network calls outside the lock | inventories move forward, derived tables are current, retiring is safe | `ModelRegistry` |
| Virtual models (`virtualmodels`, `modelselectors`) | rows in a store, snapshot, balancer counters | upsert, rename, delete, refresh, resolve, list | write, rebuild, roll back, each of which may fail | snapshot follows store; redirects serve | `VirtualModels` |
| Application lifecycle (`app`, `run`) | component list, server, two callers of Shutdown | New with unwinding, Start, Shutdown, signal | order of closing; signal during start | closed in order; a signal ends the process | `Lifecycle` |
| Stream converters (`providers/*_stream.go`, `responses_converter.go`, `anthropicapi/stream.go`) | per stream: open blocks, indexes, flags | one event at a time | order of blocks, placeholders and pieces; cut streams | content arrives whole; the event grammar holds | `ChatStreams` |
| Stream observers and done marker (`streaming`, `providers/responses_done_wrapper.go`) | bytes pending, discarding, line in progress | Read, Close | separators that straddle chunks; buffer limit | chunking is invisible; one marker | `SSEStreams` |
| Realtime (`realtime`, `server/realtime_*.go`) | sessions of three goroutines; registry of calls with expiry | handle, relay, heartbeat, register, observe | a peer that vanishes; two connections that see the same events | sessions end; usage once | `Realtime` |
| Router resolution (`core/model_selector.go`, `providers/registry.go`, `router.go`) | none of its own | selectors and lookups | names that are types, ids with slashes | as part of `Requests` | `Resolution` |
| Request preparation and workflow (`server`, `gateway`) | one request; envelope, snapshot | capture, rewrite, resolve, authorize, prepare, route, account | the registry read several times while it changes; bodies read in part | the request reaches its model and is charged to it | `Requests` |
| Translation (`anthropicapi`, `providers/responses_*.go`, `providers/{anthropic,gemini,bedrock}`) | none | requests and answers between three APIs and four forms | agent loops over several rounds | conversation and settings are kept | `Translation`, `RequestSettings` |
| Usage extraction and pricing (`usage`, `core/usage_json.go`) | one entry per request; the observer's cached entry | extract, price, split | each provider counts differently; body against stream | tokens counted once; paths price alike | `UsageCosts` |
| Usage table and reports (`usage/*_sqlite.go`, `control/handler_usage.go`) | table, reports in the making | chunked write, sweep, log, daily, summary, throughput | several queries while the table changes; zones | pages miss nothing; rows fall in their period | `UsageReports` |
| Others | none shared, or the database's | audit log, construction, health, buffers, SQL, control API, forwarding adapters, codecs, configuration | parsing and wiring | - | section 6 |

`PROJECT.json` lists every component with its sources and status, and under `hazards` each place
where the code is hard to test, with the properties that cover it.

## 2. Modules and plan

Each component has a module; the MC modules put components of one area into one run by a variable
`subject`: a behaviour is about one of them and the variables of the others stay as they began. So a
run's state count is the sum over its subjects, not their product; components that do interact are
composed inside one module (breaker and client; router, tracker and sweep; record, provider and
callers; workflow, router and registry).

| MC module | Subjects | Configurations |
|---|---|---|
| `MCWriters` | `UsageLogger` (which refines `UsageDelivery`), `ResponseCache` | `Writers.cfg` |
| `MCStores` | `Conversations`, `MemoryStore`, `Batches`, `NativeObjects`, `Listings` | `Stores.cfg`, `Stores_lost.cfg` |
| `MCRouting` | `Routing` | `Routing.cfg`, `Routing_cooldown.cfg` |
| `MCOperations` | `ModelRegistry`, `VirtualModels`, `Lifecycle` | `Operations.cfg`, `Operations_exit.cfg` |
| `MCCalls` | `CircuitBreaker`, `ChatStreams`, `SSEStreams`, `Realtime` (relay; calls), `UsageCosts`, `UsageReports` | `Calls.cfg`, `Calls_done.cfg` |
| `MCRequests` | `Requests` over `Resolution` (routes; bodies), `Translation`, `RequestSettings` | `Requests.cfg`, `Requests_continue.cfg`, `Requests_effort.cfg` |

`UsageDelivery` is the abstract specification of what the logger promises. The other modules that
translate algorithms compare them with references instead: `UsageCosts` with a cost computed from the
tokens by class, `SSEStreams` with the same bytes split at once, `ChatStreams` and `Translation` with
what was really said, `Listings` with the whole list, `UsageReports` with the row's instant.

The order followed the damage a mistake does: what can stop traffic (breaker), what can lose data
(loggers, cache, stores, conversations, batches), routing and the registry, then the path of a request
and what comes back, then accounting.

Proofs are in modules of their own, one for each area that has theorems: `CircuitBreaker_proofs`,
`Writers_proofs` (logger, cache and stream observers), `Stores_proofs` (all five of the run `stores`), `Routing_proofs`,
`ModelRegistry_proofs`, `Operations_proofs` (virtual models, lifecycle), `Requests_proofs`
(routes, bodies, settings) and `Usage_proofs` (realtime calls, reports). Section 4 says what they show. `Nil` declares the value that stands for nil in
several modules.

What is not proved is listed at the end of section 4.

## 3. The models, their runs and what they show

Bounds are CONSTANTS of the `.cfg` files or definitions of the MC modules. State counts are distinct
states. Deadlock is checked in `routing`, whose requests come back for ever; elsewhere
a behaviour ends when its requests, calls or streams have ended, or nothing is left to write.

### CircuitBreaker (run `calls`, subject `breaker`, 59,596 of its 490,702 states)

*Correspondence.* `state`, `failures`, `successes`, `halfOpenAllowed` are the fields of
`circuitBreaker`; `sinceFailure` is `time.Since(lastFailure)` in ticks and saturates when the open
period is over, as it is only compared with `timeout`. A request has the retry loop's `attempt` and
`budget` and the scope's `probe` flag. The breaker's methods hold its mutex and are atomic; admission
(`BeginRequest`), the end of an attempt with the verdict that follows it (`AttemptEnds`), the
backoff (`BackoffEnds`) and the second half of the 429 branch (`CheckHalfOpen`, then `RecordTooMany`)
are steps of their own. `Outcomes` are the ways an attempt can end that the code tells apart. The
provider may recover for good (`Recover`), after which every attempt is answered. `holders` is a
history variable: the probes in flight that the current half-open period admitted.

*Bounds.* Three request slots, reused without end, two attempts each, both thresholds 2, an open period
of one tick. Three requests are the fewest with a probe, a stale verdict and a retry at once; thresholds
of 2 tell "counted" from "decided". `FailureCap` (3) stops the failure counter one above the threshold,
where a late failure behaves like an earlier one.

*Shown.* `ProbeSlotNeverLost`: half-open with its slot taken, a probe is in flight and will give it back;
otherwise the provider would be refused until a restart. `ThresholdsDecide`: stale verdicts never carry
a counter past its threshold. `ClosesAfterRecovery`: once the provider has recovered and callers keep
trying, the breaker closes for good.

*Fairness.* Time passes; an attempt ends, because the HTTP client has a deadline; a backoff is finite;
a goroutine between the two halves of the 429 branch is scheduled. Callers owe nothing. Closing needs
traffic, so `ClosesAfterRecovery` has it as a stated premise (`CallersKeepTrying`: strong fairness,
because an open breaker disables admission over and over).

*Observed.* A success of a request admitted before the breaker opened, arriving in half-open, frees the
slot while a probe is in flight (`circuit_breaker.go:93`), so two probes can run although the comment at
`:60` speaks of one at a time. A 429 looks whether the breaker is half-open and records in a second
critical section (`client.go:307`), so it can open a breaker that closed in between, which
`client_test.go:1273` excludes for the sequential case. The properties hold in spite of both.

### Run `writers` (116,589 states): UsageDelivery, UsageLogger, ResponseCache

*UsageLogger.* `UsageDelivery` is the contract: an entry is new, pending, reported flushed, reported
failed, or refused; rows are inserted of pending entries only, a batch is reported flushed when every
entry of it has a row and failed as a whole when one has not; the store closes when nothing is pending. In
`UsageLogger` every entry is written by a goroutine of its own, and `Write` is four steps: first look
at `closed`, `writes.Add(1)`, second look together with the announcing event, and the non-blocking
send with the deferred `Done`. `flushLoop` collects, writes at the threshold or at the ticker, and
drains after `done`. A batch is written as `WriteBatch` (`store_sqlite.go:125`) writes it: `InsertChunk`
is one INSERT of at most `maxEntriesPerBatch` rows, in no transaction, so that writers, readers and Close
see the batch half stored; `FlushBatch` ends it, with success when every entry is inserted, and otherwise
with the failure of the next statement. `Close` sets `closed`, waits for the writers, closes `done`, waits for the loop
and closes the store. A second `Close` returns at once and has no step. Channel and batch are sets,
since no property depends on their order; the WaitGroup is the set of the calls registered with it,
and its misuse panic when an `Add` meets the release of a `Wait` (`logger.go:65`) is left out.
The refinement maps an entry to its fate by its place and its last live event, and the rows to `stored`.

*Observed.* A batch of more than 45 entries that fails after its first statement is reported failed entry by
entry (`logger.go:204`) although the first rows stay stored. Neither the contract nor
`EveryEntryAccountedFor` excludes it: "failed" means that the row is not certain.

*ResponseCache.* A request looks its key up (`TryHit`), runs the handler behind the cache on a miss
(`Capture`), and offers the write: `EnqueueBegins` takes the read lock, looks at `closed` and counts
itself in `wg`; `SendJob` is the non-blocking send, which uncounts a dropped write. Workers take a job,
`Set` it and call `Done`. `close` takes the write lock to set `closed` and close `jobs` (`CloseQueue`,
possible when no reader is inside) and then waits for workers and writes (`CloseCache`). A cached value
is named by the request whose answer it holds, so a replay can be traced to its origin. Of an answer
only what decides about caching is kept (`Results`).

*Bounds.* Four writers, a buffer of 2, batches of 2 and statements of one row: a full buffer, a full batch,
a batch that fails with a part of it stored, a last batch of three chunks and a late writer happen in one behaviour. Three requests on two keys, two workers and a queue of one: a
dropped write, a write in flight in each worker and a request at the lock can coincide with the close.

*Shown.* `EveryEntryAccountedFor` (an announced entry is in exactly one place until it is reported, is
reported flushed only with a row, and has a row only from a batch),
`EntriesAreSettled` (the ticker leaves nothing behind even if nobody closes), the refinement
`ImplementsDelivery`; `CloseLosesNoWrite` (exact count, no send on the closed channel, every accepted
write applied before the store closes), `HitsAreFaithful` (only a complete answer of the primary
target, given for the same key, is ever replayed).

*Fairness.* A `Write` that started goes on (it never blocks), the loop runs and its ticker fires, the
store's calls return (they have deadlines), `Close` goes on when what it waits for has happened.
Nobody is obliged to write or to close.

*Observed.* `MapStore.Set` ignores the time to live it is given (`cache/store.go:51`), and it is the only
store the middleware gets, so the configured TTL (`config/cache.go:42`) has no effect.

### Run `stores` (801,029 states): what clients come back to

*Conversations.* A turn is Get, the model's answer, and the append of its exchange (two items); an
update is Get and then the store of the whole snapshot; deletion is one step. On SQLite each operation
is one statement and one step. In memory, Get looks the pointer up under the lock and clones the object
after releasing it (`conversationstore/store_memory.go:136`), and AppendItems grows the shared slice
item by item under the lock; so both are two steps, and a clone during an append may read what the
append is writing (`Junk`), although `:181` calls the append atomic. An object is named by the call that
stored it, because Update replaces the object while a reader may hold the old one.
`ExchangesAreKept`: turns that end at once keep each other's exchange, the only operation that can drop
one is an update with an older snapshot (section 5), and SQLite never shows half an exchange.

*MemoryStore.* One module for both stores, which have the same code but for the conversation
store's `AppendItems` and its answer when an expired entry is deleted. `store` is the map with
`totalBytes`; helpers are named for `putLocked`, `removeLocked`, `cleanupExpiredLocked`,
`enforceBoundsLocked` and `checkByteBudget`. A call stamps its time (`Begin`) and takes the lock in a
later step, except `Delete`; so calls run in another order than their stamps, and the sweep can run
with an older time than the one before. The eviction loop is given by its result: an entry goes when the
store does not fit without all that are older, and bytes are counted as the pairs of an entry and one of
its bytes. `BoundsHold` includes that the byte account is exact;
`LiveEntriesLeaveInOrder` says that a reported write is kept and a live entry leaves only by its
deletion or as the oldest when room is needed, no more of them than the bounds ask for: with the
youngest that left put back the store would not fit. Waiting less than the TTL for a lock is an assumption
(`MemoryStoreAssumption`): the default retention is a day.

*Batches.* `Create` is selection of a provider (file mapping, hint or the models of the inline items),
rewriting of the input file, submission, persistence, and the two rollbacks; each step may fail. `Read`,
the provider's answer, a recheck of the stored row, clean-up of the rewritten file and `Write` are the
steps of Get, Cancel and Results, which nothing keeps apart. The provider works on the batch meanwhile;
`Restart` loses calls and the adapter's endpoint hints, not the row. `UsageStoredOnce` rests on
deterministic usage ids (`batch_usage.go:119`), because a stale Get may well write back a row without
its `UsageLoggedAt`; `StoredEndIsTrue`: no stale copy makes the store call a batch ended when the
provider does not, or otherwise than the provider does; `NothingIsLeftOver`: after a failed creation the
upstream batch is being cancelled and its file deleted, unless a clean-up itself failed or was cut off.
Two overlapping Gets can leave a row that names an already deleted file; the next clean-up logs a
warning.

*NativeObjects.* A call follows an explicit provider, the gateway's record, or probes the providers in
order (`AskExplicit`, `AskRecordedFile`, `AskRecordedResponse`, `Probe`), repairs what it finds stale
(`Forget`, `Unmap`, `Drop`) and writes back after a cancellation (`UpdateStored`). Records and objects may
expire, clients hang up, the store may be unreadable. `AnswersAreTrue`: a file call answers 404 only when
no provider has the file, and a confirmed deletion leaves nothing, also when a cancellation that was
waiting for the provider writes its copy back.

*Listings.* A client walks through files (merged over all providers), batches or input items, each page
asked for after the last entry of the page before. The merge is taken apart into the first pages of
every provider, further pages and one entry at a time, as in `providerFileListState`. Entries come and
files go between any two steps. `ListsAreWhole`: nothing twice, everything in order, and what was there
all the time is shown, unless a page failed or a provider was passed over. Assumed
(`ListingsAssumption`, `InputsAssumption`): an id names one
entry across providers, input items do not repeat an id, and a provider's page is sorted by time and
id. Where this does not hold, paging may loop or skip. A provider that fails, or no longer knows the
cursor's file, is silently left out of a merged page; the cursor of a deleted file gives a 404.

*Bounds.* Two turns and two updates of one conversation; two callers on three ids with sizes 1 and 4
against 2 entries and 3 bytes (size 4 never fits, growth by `AppendItems` passes the budget), TTL 2,
sweeps every 2 ticks, `MaxDelay` 1, clock to 3; a batch of one item, three providers (one with hints, two
with files), two overlapping calls; two clients on one object and three providers, of which one has no
native operations; four entries of two providers, two of which share a second, and pages of one or two.
Callers and turns are symmetric.

### Routing (run `routing`, 515,376 states)

*Correspondence.* A request walks over `Targets`: at each, it asks the tracker about the provider, then
about the model (`Check`, each under the lock: `Passed` deletes an expired entry, `Refused` gives a 429
of the gateway's own), calls (`CallEnds`: the answer, and `RecordFailureFromStatusCode` with
`RecordFailure`), and then sweeps on (`TryNext`) or returns (`Finish`). `Cancel` may come at any
time. A tracker entry holds what is left of its wait, the wait that the last counted failure set, which
stands for the number of failures (each doubles it up to a cap), and the age of that failure: times
relative to now, which keeps the state space finite without a bound on time or failures. `missedAge` is
a history variable.

*Bounds.* Two requests and two models of one provider (which tells a model's lockout from its
provider's), waits of 2 and 3 ticks and a herd window of 2, so that a failure can come inside the
window, after the wait inside the window, and after both.

*Shown.* `StormsDoNotExtend`, `ModelLockoutLasts`, `LockoutsEnd`. *Fairness*: a request's own steps go on
(calls have timeouts) and time passes. No client is obliged to call or to hang up; `LockoutsEnd`
therefore has "requests keep asking" as its premise.

*Left out.* Extension points that nothing wires up (the failover resolver's alternatives, the route gate,
saturation), metrics, and `MarkTerminal`, which the router cannot reach because it passes the text of
`GatewayError.Err` and the upstream client leaves that nil.

### Run `operations` (638,034 states): registry, virtual models, process

*ModelRegistry.* Four actors (`boot`, `lister`, `loop`, `request`) run the steps of a refresh: take the
semaphore (or time out), gather the targets, fetch each provider outside the lock with the availability
gate, apply under the lock, rebuild the global map, enrich, save. `inventory`, `models`, `runtime`
(fetch error, availability error, stale mark), the lazily built lists and the cache file are the
registry's fields; the model list and the metadata taken from it are generation numbers. Providers go
down, list nothing, or are available but cannot list; a restart loads the file. Timestamps are left out,
since no decision reads them. *Shown:* `TablesAreCurrent` (a bare id resolves to a provider that lists
it, a fresh one if there is one; cached lists never outlive their catalog), `RetiringIsSafe` (as long as
some provider has models, one that is not stale has, unless one that has none was asked since and
still has none; a stale provider is among those the recheck loop probes), `InventoryMovesForward` (an
inventory is only replaced by one fetched later; the refresh semaphore sees to it).

*VirtualModels.* Rows are records (`Rows` is their type), names are sequences of their parts;
`NormalizeUserPath` keeps the places of a path that are neither empty nor a dot. `op` is `Free` when nobody
holds `refreshMu`. `Upsert`, `Rename` with
`RenameDeletesOld`, and `Delete` validate and write the store; `CommitSucceeds` swaps the snapshot,
`CommitFails` and `Restore` undo the write, which can fail too (`strayed`). These need a store that can
be written: the one the factory installs is read-only (`virtualmodels/factory.go:48`), refuses every write
and leaves only refreshes, so the writes and their rollback are those of the service's tests or of a
program that brings its own store. Resolution is operators over
the snapshot: canonical source, matching policy, user-path checks, target pool, the strategies with their
counters. *Shown:* `SnapshotFollowsStore` (when nobody holds `refreshMu` and no rollback failed, requests
are served from exactly the stored rows with the configuration's laid over), `RedirectsServe` (any
sum-of-weights consecutive requests give every target its rounded share; a redirect that is listed
to a caller takes him to an available target).

*Lifecycle.* `Open`, `OpenFails` and `Unwind` are New; `Start`, `ServerReturns`, `RunReturns` and
`StartFailed` are Run; both callers of Shutdown claim it, stop the server, wait for it or give up, and
close the components in order. Requests in flight record usage, which stays in memory until flushed.
*Shown:* `ClosedInOrder` (the database outlives the stores on it; nothing is closed under a running
request unless the grace period is over), `SignalEndsProcess`.

*Bounds.* Two providers of one type that share a model. Each scenario lets some of the actors overlap,
every pair in at least one, with one or two faults, and one restart after a save; configured models in
both modes. Two names in the catalog, two configured and four drafted rows, three user paths,
`CounterBound` 3, the longest period of a pool. Two requests in flight and three
usage entries.

*Fairness* (of `Lifecycle` only). Run's goroutine and each caller of Shutdown go on; the server returns
once it is stopped, because its drain has a deadline. Nobody is obliged to signal, and requests need not
end.

*Observed.* An authoritative empty list can leave only stale providers with models. The
goroutine that fetches the model list may lose its enrichment to a concurrent swap, is not awaited by
`InitResult.Close` (`init.go:124`), and `SaveToCache` may write an older copy last
(`registry_cache.go:164`); all three are repaired by the next sweep. The production store of virtual
models is read only, so mutators run in tests; a chain of redirects can only be made through them
(`service.go:514`). A server started after Shutdown looked for one (`late`) serves on closed components
and does not end. With usage disabled New fails at the API keys' storage (`storage.go:53`). A
store error is taken to mean that nothing was written.

### Run `calls`, continued: converters, bytes, realtime (149,088 states)

*ChatStreams.* One upstream event per step, through the provider's converter (`AnthropicToChat`,
`BedrockToChat`, `GeminiToChat`; none for OpenAI) and the one of the dialect (`ChatToResponses`,
`ChatToMessages`, Anthropic's own to Responses), to EOF, a cut or a read error. Payloads are numbered
pieces. *Shown:* `ContentArrivesWhole` (text in order at every moment; at the end every call once,
under its own id, with its own arguments), `StreamIsSound` (items announced before their deltas, closed
once, all closed before the one terminal event, which never follows a read error; stop reason and usage
reported truly).

*SSEStreams.* Bytes in chunks of any length through the done wrapper and the observed stream. *Shown:*
`ChunkingIsInvisible` (observers of a closed stream saw the events of the delivered bytes, whatever the
chunks: every one that fits the buffer with its separator, none that is longer than the buffer),
`DoneMarkerOnce` (a Responses stream that ends with its completed event gets exactly one `[DONE]`, and a
marker is never added where it does not belong). The run `streams_done` shows which completed streams get
none (section 5).

*Realtime.* A session is two copy loops and a heartbeat; `FirstDone` closes both sockets, `RelayReturns`
waits for all. Calls are registered with an expiry and bounded in number; a sideband observer and
attached sessions may both see a response. *Shown:* `SessionsEnd` (also when a peer vanishes without a
word), `UsageCountedOnce` (as long as the registry can hold the call).

*Bounds.* Streams of up to 6 (Anthropic, Bedrock), 5 (OpenAI) and 3 (Gemini) events: two blocks with
pieces and an end. Byte streams of up to five bytes and line ends, or three lines and a cut, against a
buffer of 4. Two calls, one place in the registry, one session, one response per call, one tick.

*Fairness.* Every goroutine of a session is scheduled, and its ticker fires. Peers owe nothing.

*Observed, and named in the properties as exceptions.* Native Gemini numbers its calls from 0 in every
event (`GeminiSplitsCalls`); text after a tool call collides with an item already closed
(`TextAfterCall`); pieces of an OpenAI-compatible provider's call that come after another call began are
sent to a Messages block that is closed. Further: a blocked Gemini prompt becomes an empty completion that looks successful, and
only the last event's usage is kept; the direct Anthropic converter leaves unfinished calls open on a
cut stream; a call without an id is dropped, one without a name is called "unknown"; a partial last
line is dropped. Events within two bytes of the buffer limit may be dropped depending on the chunks. A
stream cut between the CR and the LF of the blank line after its completed event gets no marker either. After an eviction
at the registry's limit a session with an explicit model and the observer both record usage; a call
whose observer failed to attach is never recorded.

### Run `requests` (1,155,986 states): the path of a request

*Requests over Resolution.* `Resolution` holds the selectors, the registry's lookups and the router's
resolution as operators over the registry's content. A request of each kind (translated, internal,
audio and realtime, passthrough) arrives; its body is captured whole or in part (`CaptureSnapshot`),
perhaps rewritten, and the selector is read off it (`DeriveWorkflow`); then it is resolved, with a refresh
when that failed, checked against the access policy, rewritten to the resolved name (`Prepare`),
resolved once more by the router (`Route`, `FindProvider`, with a refresh of its own), called, stamped and
accounted for. Every reading of the registry is a step; between any two, providers change their lists,
the registry is refreshed, access is withdrawn. *Shown:* `RequestsReachTheirModel` (the call goes where
the workflow resolved and the policy allowed, usage is charged to no other provider, a model that no
redirect replaces and its provider lists all the time is not reported missing), `PeekedSelectorIsTheBodys` (the selector from the
captured or first bytes is the one of the body that is decoded and sent, after a rewrite too).

*Translation.* An agent loop: the client's history goes through its API's translation and the provider's
(`Send`), the answer comes back (`Answer`), the client appends it, runs the tools and sends again
(`Reply`). *Shown:* `ConversationIsKept` (every turn, text, call and result once and in order, and the
system prompts), `ResultsFollowTheirCalls` (a result stands right after the call it answers, under an id
unique there; Gemini's carries the right name; Bedrock's turns alternate).

*RequestSettings.* One step: what a client sets to what the provider gets. A provider is told to think by
a level (Anthropic's adaptive models, Gemini, the effort field of the others) or by a budget alone
(Anthropic's older models, Gemini 2.5). *Shown:* `SettingsAreKept` (tool choice, thinking, limit, format
and stop words arrive in the provider's own terms or the request is refused: thinking is asked for where
the client gave an effort and nowhere else, at that level if the provider has it, and a weaker effort
never gets more of it than a stronger one; the limit leaves room for it). The efforts that are dropped
are `EffortDropped`; the run `efforts_downgraded` shows that Gemini 2.5 drops the strongest ones.

*Bounds.* Three configured providers, two of them of one type, one whose name is a prefix of another's;
two redirects, one in the place of an id that a provider lists;
`ChangeBound` 2 changes of the providers' lists (one before and one after a reading); bodies of at most
three fields, some beyond the captured bytes; every pair of API and provider with the openings and
eleven shapes of answer that adapters tell apart, over three rounds, the first in which an id can come
back; every single setting and the combinations that interact.

*Observed.* Names the router's second resolution may read differently are excepted (`ReadTwice`: a
provider named like a type, an id that begins with its provider's name, a whole id with a slash).
The index and the scan break ties differently (`-` sorts before `/`). Usage names stay empty when the
registry loses the model at that moment. The passthrough checks access for the first provider of the
type, the call goes by name. Repeated fields of a body are left out (peeking takes the first, decoding
the last). Bedrock is sent texts only and drops format, stop, effort and parallel; Anthropic drops texts
before its last thinking block, ignores `max_completion_tokens`, and takes an unknown effort as low, the
efforts none and minimal too (an older model then thinks with a budget of 5000 and its limit is raised);
Gemini ignores object choices other than a function, its native API does not read the flat effort and
tells a 2.5 model nothing of xhigh and max; elsewhere none becomes minimal there; DeepSeek raises
low and medium effort to high; a limit is raised above the client's when thinking needs it; `is_error`
and thought signatures are dropped; Gemini's call ids repeat between rounds.

### Run `calls`, concluded: costs and reports (282,018 states)

*UsageCosts.* A bill is a request's true tokens by class; its provider reports them in its own schema
and spelling, in a body or in stream events that the observer merges, and `cost.go` prices them with
tiers, aliases, batch and audio rates, or takes the provider's stated cost. *Shown:*
`TokensCountedOnce` (each token priced once at the rate of its class, against a cost computed from the
classes; the reported split of the input is true; a stream is billed once, like the body of the same
answer).

*UsageReports.* Entries are inserted in chunks, swept after the retention, and reported by several
queries between which the table changes; a report holds the rows it selected. A page is the rows whose
`Rank`, the number of rows before them, falls in it. *Shown:*
`PagingMissesNothing`, `RowsFallInTheirPeriod` (over a change of the zone's offset as well).

*Bounds.* Eight provider types, up to three tokens of a class, three price lists; costs are integers
(a million tokens is `Mtok` 10). Four rows, a clock of 9 ticks with an hour of 4 and a day of 6, pages
of 2, retention 4, chunks of 2.

*Observed.* Bedrock's cache reads and writes are priced by nobody. DeepSeek's own spelling of cached
tokens is priced but not shown as cached, which `request_summary.go:92` says it is. The observer passes
over Gemini's nested raw usage. Tokens beside the base counts that have no rate cost nothing and give no
caveat. A missing side of a stated cost becomes 0. A summary's totals and its split are two queries, and
an undated daily query may label a row written meanwhile by the wrong extent. Rounding of floats is not
modelled.

## 4. Proofs

TLAPS checks the eight `*_proofs` modules. Their theorems hold for every value of the constants that
satisfies the named assumptions: any number of requests, entries, providers or rows, any buffer, limit or
period. TLC evaluates each assumption on the run of the module. An inductive invariant bears its
component's name (`CacheIInv`); the lemmas before it say what one operation does to each of its parts, so
that a step of the proof is one action.

**Circuit breaker** (`CircuitBreaker_proofs`), from `BreakerAssumption`: the failure threshold and the
number of attempts are positive (0 disables the breaker, respectively becomes 1), success threshold and
timeout are natural numbers, and the model's bound `FailureCap` is not below the failure threshold.
`IInv` is `TypeOK`, `ThresholdsDecide`, `ProbeIsNotRetried` and `ProbeSlotNeverLost`. The last alone is not
inductive: a probe that could back off might be cancelled there and leave without a verdict
(`ProbeIsNotRetried` excludes it), and the verdict that leaves the breaker half-open must leave the slot
free, which rests on the counters being below their thresholds. The lemmas are about the breaker's methods
(`FailureVerdict`, `SuccessVerdict`) and the end of a request (`FinishClears`). Theorems: `TypeCorrect`,
`Invariance`, `ProbeSlotSafe`, `ThresholdsSafe`, `ProbeOneAttempt`.

**Usage logger** (`Writers_proofs`), from `LoggerAssumption`: buffer, batch and statement hold at least one entry.
`IInv` adds to `NoSendAfterDone` and `EveryEntryAccountedFor` who is registered with the WaitGroup
(`WritersRegistered`), the order of Close's steps (`CloseOrder`), what each stage of the loop implies about
buffer and batch (`LoopOrder`), and which event each entry last announced (`EventOfStage`).
`NoSendAfterDone` needs the first two: a call that passed its second check is registered, and `done` is
closed only when nobody is. That the drain is sound needs the third. Theorems: `TypeCorrect`,
`Invariance`, `NoLateSend`, `NoEntryLost`, `CleanClose`, and `Refinement`: `Spec => ImplementsDelivery`,
where lemmas say for each action which entries get a row or change their fate; all others stutter.

**Response cache** (`Writers_proofs`), from `CacheAssumption`: the queue has a place. `CacheIInv` adds to
`CloseLosesNoWrite` and `HitsAreFaithful` that the read lock is held from the check of `closed` to the
send (`LockOrder`), that a write is in one place only, at its request, in the queue, or at one worker
(`WritesInOnePlace`, without which the WaitGroup's count would say nothing), that what is on its way or
stored is complete and filed under its own key (`WritesAreComplete`), and that the request whose answer is
replayed is over (`HitsAreOver`). Theorems:
`CacheTypeCorrect`, `CacheInvariance`, `NoWriteLost`, `FaithfulReplays`.

**Stream observers** (`Writers_proofs`), from `StreamsAssumption`: the limit of the buffer is a natural
number, a stream is a sequence of the bytes that the code tells apart. `ChunkingIsInvisible` compares
an observer that works chunk by chunk with a split of all bytes at once, so three things have to be
known first. What `NextEventBoundary` and `NextJoinedEventBoundary` find is located byte by byte: the
first separator (`NextIsFirst`), which stays the first whatever bytes follow (`FirstExtends`: two
separators overlap only if they begin alike), and which may be looked for in the last three bytes
before a chunk and the chunk (`JoinedIsFirst`; the three bytes are `BoundaryTail`, and with two the
property fails). The recursive function `SplitEvents` exists and obeys its equation on every string
(`SplitIs`, from finite approximations that agree, each fact by a smallest counterexample in the
length). And `Parsed(D, E, R)`, that bytes `D` are complete events `E` and a rest `R` whatever comes
next, is extended by bytes without a separator (`ParsedGrows`) and by an event (`ParsedEvent`).
`StreamsIInv` then says that the observer `Follows` the delivered bytes: they are parsed into `E` and
`R`, what was seen is `E` less what is too long, and `pending` is `R`, or `R` is too long, the observer
discards, and `tail` is its last three bytes (`Holds`). `RoundFollows`, `ProcessDataFollows` and
`ProcessChunkFollows` carry that through one event, the loop over a chunk, and a chunk. Theorems:
`StreamsInvariance`, `ChunksAreInvisible`.

**Conversations** (`Stores_proofs`), from `ConversationAssumption`, which only tells the calls apart.
An exchange is two items, which the in-memory store appends in turn: whoever holds its mutex in between
has written the input as the last item of a conversation that is not deleted (`HalfAppended`). SQLite
has neither that gap nor a pointer to clone later (`RowsAtOnce`). Theorems: `ConversationInvariance`,
`TurnsKeepExchanges`.

**Batches** (`Stores_proofs`), without an assumption. A call holds a copy of the record from its read to
its write, so the invariant has to speak of all copies at once: each, wherever it is, is true of the batch
(`RecordsAreTrue`; `IsTrue`), which stays so because the provider's end is final. By `UsageNamedByItem` a second
insertion of an item is the same row again, `FileIsKept` holds the input file for a batch
that has not ended, `CreationIsTidy` says what each step of a creation has made and will clean up, and
`ItemsAreTheProviders` that results are real. Theorems: `BatchInvariance`, `ItemsCostOnce`,
`StoredEndsAreReal`, `CreationsEndTidily`.

**Native responses and files** (`Stores_proofs`), from `ObjectsAssumption`: the candidates are a sequence of
providers. One provider holds an object (`OneHolder`), a call whose provider answered was there
(`AtItsProvider`), and at each place of a call it is known what its client may be told (`Knows`): that all
candidates asked so far do not have the object, say. Theorems: `ObjectInvariance`, `ToldTruly`.

**In-memory stores** (`Stores_proofs`), from `MemoryStoreAssumption`: finitely many ids, sizes are
positive, a lock is waited for less than the retention. `BoundsHold` becomes inductive with what a
waiting call has been checked for (`Stamped`: a snapshot to be stored fits the store alone). `WeightsAdd`
says that the bytes of disjoint sets of entries add up, so that the account stays exact when entries go,
and `EnforceFits` that eviction, stated by its result, brings the store within both bounds and spares the
entry just written; `CallAnswered` collects what any call leaves behind. `LiveEntriesLeaveInOrder` is then
shown operation by operation; that no entry is evicted while there is room rests on the evicted set being
closed under "older" (`EnforceIsNeeded`), and that the youngest of it is live on every expiry being its stamp
plus the TTL. Theorems: `MemoryInvariance`, `StoreBoundsHold` and `OldestLeaveFirst`, an
action property.

**Lists read page by page** (`Stores_proofs`), from `ListingsAssumption` and `InputsAssumption`: finitely
many entries, one for an id; no input repeats an id. The ranks of a finite set of entries are a bijection,
so that sorting gives each its one place (`SortedIsOrdered`); everything is then said of places. `ClientOK`: what was shown lies along the list, and what
lasts and was not shown lies behind the cursor. `LoadingOK` and `MergedUpTo` carry this through a merge:
there is a place up to which everything was taken and behind which everything is still left in its
provider's window. Deletions and arrivals keep all of it, because they move no two entries past each
other. Theorems: `ListsInvariance`, `ListsStayWhole`.

**Routing** (`Routing_proofs`), from `TargetsAssumption` (there is a primary) and `CooldownAssumption` (the
order of the four durations in `cooldown.go`). What is left of a wait and the age of its last counted
failure add up to that wait while the herd window lasts (`WaitOfLastFailure`), and the lockout of a missing
model runs from its last miss (`LockoutOfLastMiss`). Theorems: `RoutingInvariance`, `RoutingTypeCorrect`,
`StormsCostOneWait`, and `LockoutsHold`, an action property.

**Model registry** (`ModelRegistry_proofs`), from `RegistryAssumption`: providers are configured in an order
without repetition; some are checked for availability. `RegistryIInv` has the holder of the refresh
semaphore, who is the only one with fetched lists in hand (`ActorsBehave`), the versions that sweep,
registry and file saw (`VersionsInOrder`), a recorded reason for every stale mark (`StaleIsWatched`), the
global map as a function of inventories and marks (`MapIsRebuilt`) and the lists derived from it
(`LazyCachesAreCurrent`), and `SomebodyStaysRoutable`. An earlier form of the last promised a fresh provider
wherever one has models. The proof failed where the alternative for whose sake another was retired later
lists nothing itself, which takes more faults than the run allows; the property now names that case.
Theorems: `RegistryInvariance`, `RegistryTypeCorrect`, `TablesStayCurrent`, `RetirementIsSafe`, and
`InventoriesMoveForward`, an action property.

**Lifecycle** (`Operations_proofs`), without an assumption. `NewIsInOrder` and `ClosedSoFar` tie what is
open to how far New, its unwinding and each caller of Shutdown have come; `UntouchedUntilClosed`,
`ServerStates` and `ClosersWaited` say what a caller that closes components has waited for;
`StorageOutlivesItsUsers` follows from the two orders (`Orders`) and is kept because a failed close
goes on with the next. Theorems: `LifeInvariance`, `TakenDownInOrder`.

**Virtual models** (`Operations_proofs`), from `VMAssumption`: rows are rows, the configuration declares a
source once, prices are numbers. `UndoIsSnapshot`: the store,
with the operation under way undone, is what the snapshot was built from. This holds at every step, so that
when nobody is at work the snapshot follows the store. It needs that an undone write restores the very
row (`HeldRows`), hence that rows in the store are settled (`RowsAreSettled`), hence that normalizing is
idempotent, for user paths in particular (by counting the places that are kept). What is served rests on
`ServedOnce`: one row for a source, no target twice in a redirect, counters that are numbers. Every
balancer then picks somebody from the pool (`SomebodyIsPicked`), which holds available targets, fallbacks
only when there is nothing else (`PoolIsSupported`). Rotation: a target's slots are a stretch of the numbers
below the sum of the weights (`SlotsHaveTargets`), and as many consecutive counters have every remainder
once (`EveryRestOnce`), hence `SharesAreServed`. Theorems: `VMInvariance`, `FailedWritesAreUndone`,
`ServingInvariance`, `RedirectsServeAll`.

**Realtime calls** (`Usage_proofs`), from `RealtimeAssumption`: finitely many calls, and a place for one.
`EntriesAreCalls` bounds the registry by its limit; `ForgottenForAReason`: a created call that is not in
it has expired or may have been evicted, by the cardinalities of the two sets; `TapsAreForgotten`: a session
that records the usage of a call the registry could hold does not exist; `ObserverRecords` and
`ReadsWhenAttached` account for the observer's frames. Theorems: `RealtimeInvariance`,
`ResponsesAreBilledOnce`.

**Usage reports** (`Usage_proofs`), from `ReportsAssumption`: finitely many rows with different ids;
positive page, chunk and retention. Before them the log's order is shown to be linear, ranks to grow
with it and to take every number, so that a page that is short was the last. Rows enter the table once
(`RowsAreInsertedOnce`), a walk is one of the first count (`LogSteps`), and of the rows that were there all
the time those not yet shown have a rank not below the offset (`NothingIsPassedOver`): new rows come before
them and move them back, a sweep takes the oldest, which come after them. Periods need `ZonesAssumption`
as well: a zone has an offset at every instant asked for, and does not change and change back within
an hour; the code looks once an hour and would miss that. `TransitionIsNext` shows that its search finds
the first change. The recursive function that cuts the range (`segmentsFrom`) is a CHOOSE over functions;
`SegmentsExist` and `SegmentsCutRight` take the smallest rest of a range for which one would not exist, or
would cut wrongly. `DayIsLocal` and `BucketIsLocal` are what follows for one row, `PeriodsIInv` what a report
in the making keeps. Theorems: `ReportsInvariance`, `PagesMissNothing`, `PeriodsInvariance`,
`RowsLieInTheirPeriod`.

**Requests** (`Requests_proofs`), from `NamesAssumption` (configured names are different and not empty, ids
and names are sequences of parts) and `RequestsAssumption` (what providers list, requests ask for and
redirects target are ids; a body repeats no field). The lemmas are about the lookups: a name that is
no type is looked up by name alone (`PlainNamesLookUp`), so a selector that is not `ReadTwice` is resolved
to itself (`PlainNamesResolve`, `ReadOnce`) and what is known of its qualified name is its own
(`PlainNamesAreOwn`); and a body without repeated fields is read alike from its first bytes, its envelope
and the whole (`PeekIsTrue`, `EnvelopesAreTrue`). `RequestsIInv` says what each step has passed
(`StepsAllowed`: past the check the selector was allowed), that route, target and labels are the
selector's (`RoutedAsResolved`), and of a provider that lists the model all the time (`SteadyIsFound`)
that each refresh the request asks for brings the list up to date, after which resolution, `Supports` and
lookup find it; before it, the provider's whole qualified name may have been taken for an id. An earlier
form of `ListedModelsAreFound` did not mention redirects. The proof failed where a redirect to another
model has the name of a listed one, a case that the run's redirects did not contain; they do now, and
the property names it. Theorems: `RequestInvariance`, `RequestsArrive`, `BodiesDecide`.

**Request settings** (`Requests_proofs`), from `WishesAssumption`: what a client sends follows the grammar
of its API (a word of the choice is one of three, a Messages object one of four types, a field the API
does not have is at rest); the types of a chat client's objects, efforts, formats, thinking and limits are
any. `ChatKeeps`: each API's translation keeps the meaning of the choice and every other setting in
the chat request, `ChatAsWished`; then one lemma for each form of provider (`AnthropicKeeps`,
`GeminiKeeps`, `BedrockKeeps`, `OpenAIKeeps`, `BailianKeeps`, `EffortFieldKeeps`) takes it from there.
That a weaker effort asks for no more compares two requests: `ProviderTells` reduces what a provider gets
to the effort it was asked for, and `WeakerAsksNoMore` compares the conversions level by level.
Theorem: `SettingsKept`.

Only model-checked, because it is out of the provers' reach:

- liveness, which needs fairness and ENABLED: `ClosesAfterRecovery`, `EntriesAreSettled`, `LockoutsEnd`,
  `SignalEndsProcess`, `SessionsEnd`;
- sums, folds and recursive definitions: `DoneMarkerOnce` of `SSEStreams` (the lines are tracked by a
  fold), `ChatStreams`, `Translation`, `UsageCosts`.

## 5. Where code and documentation disagree

Each of these runs checks one statement of a comment, and TLC finds a behaviour of the code that
contradicts it.

| Run | The code | The text |
|---|---|---|
| `conversation_lost` | a metadata update writes back the items it read (`server/native_conversation_service.go:112`); an exchange appended in between is dropped | `AppendItems` exists so that exchanges are not overwritten as by Get-then-Update (`conversationstore/store.go:36`) |
| `routing_cooldown` | the wait after a 429, 401 or 403 is filed under scope "key" (`providers/cooldown.go:195`, `:207`), the check before a call asks scopes "provider" and "model" (`providers/router.go:473`), so it is never found | "Check provider-level cooldown before making the call" (`providers/router.go:468`) |
| `lifecycle_exit` | Run returns when the server has drained and does not wait for the goroutine that closes the components (`run/run.go:194`); the process ends with usage entries in memory | cancelling triggers graceful shutdown (`run/run.go:99`), which flushes pending usage records (`app/app.go:455`) |
| `translation_continues` | an answer that only calls a tool becomes an output text that is empty (`providers/responses_output.go:31`); replayed from the stored conversation it is refused (`responses_content.go:57`), and with it every later turn | conversations work "uniformly for native Responses providers and chat-translated ones" (`server/conversation_responses.go:20`) |
| `streams_done` | any line after the completed event, a comment say, takes the readiness for the marker back (`providers/responses_done_wrapper.go:129`), and the stream ends without one | clients "always receive a terminal data: [DONE] marker when the upstream stream reaches a completed Responses event but closes at EOF" (`providers/responses_done_wrapper.go:19`) |
| `efforts_downgraded` | a Gemini 2.5 model is sent no thinking configuration for xhigh and max (`providers/gemini/native.go:615`), while high gets its largest budget | "providers downgrade unsupported levels to their nearest equivalent" (`core/types.go:19`) |

Smaller disagreements, noted under *Observed* above, have no run of their own.

## 6. What is not modelled

- *Audit log writer*: the protocol of `UsageLogger` again, with a flush that discards its batch and no
  store to close. A module of its own would answer the same questions.
- *Provider construction and keys*: configuration resolved once at startup; the key ring is one counter
  modulo the number of keys.
- *Runtime refresh, control API, health*: the refresh is never wired up in this build, the control
  handlers are thin readers of what `ModelRegistry`, `VirtualModels` and `UsageReports` model.
- *SQLite storage and API keys*: single statements under the database's atomicity. Where the order of
  several matters they are steps of `Conversations`, `Batches` or `UsageReports`.
- *Provider adapters that forward, codecs, stream buffers, configuration, metrics, command line, tools*:
  endpoints, headers, parsing and wiring without a protocol. What adapters change in a request is in
  `RequestSettings`, what codecs keep in `Translation` and `UsageCosts`.
- *Never wired in this build*: workflow policies and budgets, the failover resolver, route gate and
  saturation, least-used accounting (Acquire and Release), target capacity, health snapshots.
- *Inside modelled components*: the wording of errors, metrics, logs, hashing of cache keys, JSON sizes
  (a member of a small set), tool schemas and their clean-up, separators of joined texts, token
  estimates, the length of audio, header and SDP rewriting.

## 7. Running it

In this directory, with the MC module and configuration of a run as `PROJECT.json` names them:

```
tlc -workers 2 -config Routing.cfg MCRouting
tlc -workers 2 -config Stores.cfg MCStores
tlapm CircuitBreaker_proofs.tla        # and each other *_proofs module
```

`PROJECT.json` maps each run to its module, configuration and properties, each definition to the
source lines it stands for, and each property to a *mutant*: a changed definition, kept next to the
original and marked as such in the modules, with which the property fails. The mutants show that every
property depends on the code it is about: a guard dropped, a slot not returned, a count not rolled back.
