---------------------------- MODULE ResponseCache ---------------------------
(***************************************************************************)
(* The exact-match response cache (internal/responsecache): lookups and    *)
(* misses of concurrent requests, the bounded queue of cache writes, the   *)
(* workers that apply them and the middleware's Close.  A cached response  *)
(* is the request whose upstream answer it holds.                          *)
(***************************************************************************)
EXTENDS Naturals, FiniteSets

CONSTANTS
  Requests,    \* concurrent requests
  Keys,        \* cache keys: hashRequest of path, workflow and body
  Workers,     \* cacheWriteWorkerCount goroutines
  QueueSize,   \* cacheWriteQueueSize
  None

ASSUME CacheAssumption ==
  /\ QueueSize \in Nat \ {0}
  /\ None \notin Requests /\ "exited" \notin Requests \cup {None}

(* How the handler behind the cache can end.  "complete": 200 with a body   *)
(* that is valid JSON or well-formed SSE, from the primary target.          *)
(* "failover": the same, but another target answered.  "partial": 200 with  *)
(* a truncated or empty body.  "status": another status.  "error": next     *)
(* failed.                                                                  *)
Results == {"complete", "failover", "partial", "status", "error"}

VARIABLES
  at,            \* where each request is
  key,           \* the key each request hashed to
  result,        \* how its upstream call ended
  hit,           \* the cached response a request was served, or None
  readers,       \* requests holding mu for reading
  cacheClosed,   \* simpleCacheMiddleware.closed, and jobs is closed
  jobs,          \* writes in the queue
  wg,            \* writes counted by wg
  working,       \* working[w]: the write a worker applies, None, or "exited"
  store,         \* store[k]: the response cached under k, or None
  cacheCloser    \* where Close is

requests == <<at, key, result, hit, readers>>
queue == <<jobs, wg, working>>
cacheVars == <<requests, cacheClosed, queue, store, cacheCloser>>

CacheInit ==
  /\ at = [r \in Requests |-> "idle"]
  /\ key \in [Requests -> Keys]
  /\ result = [r \in Requests |-> None]
  /\ hit = [r \in Requests |-> None]
  /\ readers = {}
  /\ cacheClosed = FALSE
  /\ jobs = {}
  /\ wg = {}
  /\ working = [w \in Workers |-> None]
  /\ store = [k \in Keys |-> None]
  /\ cacheCloser = "idle"

-----------------------------------------------------------------------------
(* A request.                                                               *)

(* handle and TryHit: a stored response is replayed, otherwise the handler  *)
(* runs.  A request whose Cache-Control forbids caching runs it uncached.   *)
TryHit(r) ==
  /\ at[r] = "idle"
  /\ \/ /\ store[key[r]] # None
        /\ hit' = [hit EXCEPT ![r] = store[key[r]]]
        /\ at' = [at EXCEPT ![r] = "served"]
     \/ /\ store[key[r]] = None
        /\ at' = [at EXCEPT ![r] = "upstream"]
        /\ UNCHANGED hit
     \/ at' = [at EXCEPT ![r] = "served"] /\ UNCHANGED hit
  /\ UNCHANGED <<key, result, readers, cacheClosed, queue, store, cacheCloser>>

(* Mutant of Cacheable: a failover's answer is cached like any other.       *)
CacheableStatus(o) == o \in {"complete", "failover"}

Cacheable(o) == o = "complete"

(* StoreAfter and Capture: the handler returns; only a complete answer of   *)
(* the primary target is worth a write.                                     *)
Capture(r) ==
  /\ at[r] = "upstream"
  /\ \E o \in Results :
       /\ result' = [result EXCEPT ![r] = o]
       /\ at' = [at EXCEPT ![r] = IF Cacheable(o) THEN "captured" ELSE "served"]
  /\ UNCHANGED <<key, hit, readers, cacheClosed, queue, store, cacheCloser>>

(* enqueueWrite takes the read lock, looks at closed and counts the write.  *)
EnqueueBegins(r) ==
  /\ at[r] = "captured"
  /\ IF cacheClosed
       THEN at' = [at EXCEPT ![r] = "served"] /\ UNCHANGED <<readers, wg>>
       ELSE /\ at' = [at EXCEPT ![r] = "sending"]
            /\ readers' = readers \cup {r}
            /\ wg' = wg \cup {r}
  /\ UNCHANGED <<key, result, hit, cacheClosed, jobs, working, store, cacheCloser>>

(* Mutant of RollBack: the dropped write stays counted.                     *)
KeepCount(r) == UNCHANGED wg

RollBack(r) == wg' = wg \ {r}

(* The non-blocking send: a full queue drops the write and uncounts it.     *)
SendJob(r) ==
  /\ at[r] = "sending"
  /\ IF Cardinality(jobs) < QueueSize
       THEN jobs' = jobs \cup {r} /\ UNCHANGED wg
       ELSE RollBack(r) /\ UNCHANGED jobs
  /\ at' = [at EXCEPT ![r] = "served"]
  /\ readers' = readers \ {r}
  /\ UNCHANGED <<key, result, hit, cacheClosed, working, store, cacheCloser>>

-----------------------------------------------------------------------------
(* A worker: range over jobs, store.Set, wg.Done.                           *)

TakeJob(w) ==
  /\ working[w] = None
  /\ \E r \in jobs :
       /\ working' = [working EXCEPT ![w] = r]
       /\ jobs' = jobs \ {r}
  /\ UNCHANGED <<requests, cacheClosed, wg, store, cacheCloser>>

(* MapStore.Set, which ignores the TTL it is given: nothing expires.        *)
Set(r) == store' = [store EXCEPT ![key[r]] = r]

ApplyJob(w) ==
  /\ working[w] \in Requests
  /\ Set(working[w])
  /\ wg' = wg \ {working[w]}
  /\ working' = [working EXCEPT ![w] = None]
  /\ UNCHANGED <<requests, cacheClosed, jobs, cacheCloser>>

NoMoreJobs == cacheClosed /\ jobs = {}

ExitWorker(w) ==
  /\ working[w] = None
  /\ NoMoreJobs
  /\ working' = [working EXCEPT ![w] = "exited"]
  /\ UNCHANGED <<requests, cacheClosed, jobs, wg, store, cacheCloser>>

-----------------------------------------------------------------------------
(* close.                                                                   *)

MayLock == readers = {}

CloseQueue ==
  /\ cacheCloser = "idle"
  /\ MayLock
  /\ cacheClosed' = TRUE
  /\ cacheCloser' = "waiting"
  /\ UNCHANGED <<requests, queue, store>>

CacheWritesDone == wg = {} /\ \A w \in Workers : working[w] = "exited"

(* workers.Wait(), wg.Wait() and store.Close().                             *)
CloseCache ==
  /\ cacheCloser = "waiting"
  /\ CacheWritesDone
  /\ cacheCloser' = "closed"
  /\ UNCHANGED <<requests, cacheClosed, queue, store>>

-----------------------------------------------------------------------------
CacheNext ==
  \/ \E r \in Requests : TryHit(r) \/ Capture(r) \/ EnqueueBegins(r) \/ SendJob(r)
  \/ \E w \in Workers : TakeJob(w) \/ ApplyJob(w) \/ ExitWorker(w)
  \/ CloseQueue
  \/ CloseCache

CacheSpec == CacheInit /\ [][CacheNext]_cacheVars

-----------------------------------------------------------------------------
(* Properties.                                                              *)

CacheTypeOK ==
  /\ at \in [Requests -> {"idle", "upstream", "captured", "sending", "served"}]
  /\ key \in [Requests -> Keys]
  /\ result \in [Requests -> Results \cup {None}]
  /\ hit \in [Requests -> Requests \cup {None}]
  /\ readers \subseteq Requests
  /\ cacheClosed \in BOOLEAN
  /\ jobs \subseteq Requests
  /\ wg \subseteq Requests
  /\ working \in [Workers -> Requests \cup {None, "exited"}]
  /\ store \in [Keys -> Requests \cup {None}]
  /\ cacheCloser \in {"idle", "waiting", "closed"}

(* A write that is queued or being applied.                                 *)
Pending == jobs \cup {working[w] : w \in {v \in Workers : working[v] \in Requests}}
Sending == {r \in Requests : at[r] = "sending"}

(* wg counts exactly the writes between their Add and their Set, so none    *)
(* keeps Close waiting for ever; no request sends on the closed channel     *)
(* (the comment in enqueueWrite), and the store is closed when every write  *)
(* that was accepted has been applied (close).                              *)
CloseLosesNoWrite ==
  /\ wg = Pending \cup Sending
  /\ cacheClosed => Sending = {}
  /\ cacheCloser = "closed" => Pending = {}

(* A caller is only ever replayed a complete answer that the primary target *)
(* gave to a request with the same key: never an error, a truncated stream  *)
(* or another target's answer (captureResponseForCache).                    *)
HitsAreFaithful ==
  \A r \in Requests : hit[r] # None =>
    result[hit[r]] = "complete" /\ key[hit[r]] = key[r]
=============================================================================
