---------------------------- MODULE MemoryStore -----------------------------
(***************************************************************************)
(* The bounded in-memory stores of responses (internal/responsestore) and  *)
(* of conversations (internal/conversationstore): one map with a byte      *)
(* account, a retention time with a throttled sweep, and eviction of the   *)
(* oldest entries.  A call stamps the time before it takes the lock, so    *)
(* calls may run in another order than that of their stamps.               *)
(***************************************************************************)
EXTENDS Integers, FiniteSets, Functions

CONSTANTS
  Ids,              \* entry ids; their order is the order of the strings
  Callers,          \* concurrent callers
  Sizes,            \* serialized sizes of snapshots and of appended items
  MaxEntries,       \* maxEntries, 0 for no limit
  MaxBytes,         \* maxBytes, 0 for no limit
  TTL,              \* ttl, 0 for no expiry
  CleanupInterval,  \* cleanupInterval, 0 for a sweep by every call
  MaxDelay,         \* bound: ticks between a call's stamp and its turn
  MaxTime,          \* bound on the clock
  NoCall

ASSUME MemoryStoreAssumption ==
  /\ Ids \subseteq Nat /\ IsFiniteSet(Ids)
  /\ Sizes \subseteq Nat \ {0}
  /\ {MaxEntries, MaxBytes, TTL, CleanupInterval, MaxDelay} \subseteq Nat
  /\ MaxTime \in Nat \ {0}          \* the clock starts at 1
  /\ TTL = 0 \/ MaxDelay < TTL      \* a lock is waited for less than a day

VARIABLES
  storeKind,         \* which of the two stores this is
  store,        \* items with their sizes, and totalBytes
  lastCleanup,  \* the stamp of the last sweep, 0 before the first
  clock,
  waiting,         \* waiting[c]: the stamped call of c that has not run, or NoCall
  ret           \* ret[c]: how the last call of c ended

memoryVars == <<storeKind, store, lastCleanup, clock, waiting, ret>>

Operations ==
  {"create", "get", "update", "delete"} \cup (IF storeKind = "conversations" THEN {"append"} ELSE {})

Calls == [op : Operations, id : Ids, size : Sizes \cup {0}, now : 1 .. MaxTime]

MemoryInit ==
  /\ storeKind \in {"responses", "conversations"}
  /\ store = [items |-> [k \in {} |-> 0], total |-> 0]
  /\ lastCleanup = 0
  /\ clock = 1
  /\ waiting = [c \in Callers |-> NoCall]
  /\ ret = [c \in Callers |-> "none"]

-----------------------------------------------------------------------------
(* Helpers that run under the lock.                                         *)

Expired(e, now) == e.expiresAt # 0 /\ e.expiresAt <= now

(* The bytes held by the entries of K, one by one. *)
Bytes(items, K) == UNION {{k} \X (1 .. items[k].size) : k \in K}
Weight(items, K) == Cardinality(Bytes(items, K))

(* removeLocked, for every entry of K that is there. *)
Without(s, K) ==
  [items |-> Restrict(s.items, DOMAIN s.items \ K),
   total |-> s.total - Weight(s.items, K \cap DOMAIN s.items)]
RemoveEntry(s, k) == Without(s, {k})

(* putLocked, with the stamps of prepareStoredResponseForMemory. *)
Put(s, k, e) ==
  LET r == RemoveEntry(s, k)
  IN  [items |-> [i \in DOMAIN r.items \cup {k} |-> IF i = k THEN e ELSE r.items[i]],
       total |-> r.total + e.size]

Entry(size, now) ==
  [size |-> size, storedAt |-> now, expiresAt |-> IF TTL > 0 THEN now + TTL ELSE 0]

(* cleanupExpiredLocked *)
SweepDue(now) ==
  /\ TTL > 0
  /\ \/ CleanupInterval = 0
     \/ lastCleanup = 0
     \/ now >= lastCleanup + CleanupInterval

Stale(s, now) == {k \in DOMAIN s.items : Expired(s.items[k], now)}

Sweep(s, now) == IF SweepDue(now) THEN Without(s, Stale(s, now)) ELSE s

(* checkByteBudget: whether a snapshot fits the store at all. *)
FitsAlone(size) == MaxBytes = 0 \/ size <= MaxBytes

(* The two bounds that enforceBoundsLocked restores. *)
Fits(s) ==
  /\ MaxEntries = 0 \/ Cardinality(DOMAIN s.items) <= MaxEntries
  /\ MaxBytes = 0 \/ s.total <= MaxBytes

(* Mutant of Older: the order of eviction is that of the ids.               *)
SmallerId(s, j, k) == j < k

Older(s, j, k) ==
  \/ s.items[j].storedAt < s.items[k].storedAt
  \/ s.items[j].storedAt = s.items[k].storedAt /\ j < k

(* enforceBoundsLocked: the oldest entries go, the protected one excepted,  *)
(* each of them because the store still did not fit without the older ones. *)
Evictable(s, protect) == DOMAIN s.items \ {protect}

(* Mutant of Evicted: the loop goes on with the bounds as it found them.    *)
EvictedAll(s, protect) == IF Fits(s) THEN {} ELSE Evictable(s, protect)

Evicted(s, protect) ==
  {k \in Evictable(s, protect) :
     ~Fits(Without(s, {j \in Evictable(s, protect) : Older(s, j, k)}))}
Enforce(s, protect) == Without(s, Evicted(s, protect))

-----------------------------------------------------------------------------
(* A call: its checks and its time stamp come before the lock.              *)

Begin(c) ==
  /\ waiting[c] = NoCall
  /\ \E op \in Operations, id \in Ids :
     \E size \in IF op \in {"get", "delete"} THEN {0} ELSE Sizes :
       IF op \in {"create", "update"} /\ ~FitsAlone(size)
         THEN ret' = [ret EXCEPT ![c] = "error"] /\ UNCHANGED waiting
         ELSE /\ waiting' = [waiting EXCEPT ![c] =
                            [op |-> op, id |-> id, size |-> size, now |-> clock]]
              /\ ret' = [ret EXCEPT ![c] = "none"]
  /\ UNCHANGED <<storeKind, store, lastCleanup, clock>>

(* What the call of c finds once it has the lock and has swept. *)
Now(c) == IF waiting[c].op = "delete" THEN clock ELSE waiting[c].now
Swept(c) == Sweep(store, Now(c))
Present(c) == waiting[c].id \in DOMAIN Swept(c).items
Found(c) == Present(c) /\ ~Expired(Swept(c).items[waiting[c].id], Now(c))

Return(c, s, r) ==
  /\ store' = s
  /\ lastCleanup' = IF SweepDue(Now(c)) THEN Now(c) ELSE lastCleanup
  /\ waiting' = [waiting EXCEPT ![c] = NoCall]
  /\ ret' = [ret EXCEPT ![c] = r]
  /\ UNCHANGED <<storeKind, clock>>

Runs(c, op) == waiting[c] # NoCall /\ waiting[c].op = op

(* Create replaces an expired entry and refuses a live one. *)
Create(c) ==
  /\ Runs(c, "create")
  /\ IF Found(c)
       THEN Return(c, Swept(c), "exists")
       ELSE Return(c, Enforce(Put(Swept(c), waiting[c].id, Entry(waiting[c].size, Now(c))),
                              waiting[c].id), "ok")

(* An entry that is absent, or expired and removed on the way. *)
NotFound(c) ==
  /\ \E op \in {"get", "update", "append"} : Runs(c, op)
  /\ ~Found(c)
  /\ Return(c, RemoveEntry(Swept(c), waiting[c].id), "notfound")

Get(c) ==
  /\ Runs(c, "get")
  /\ Found(c)
  /\ Return(c, Swept(c), "ok")

(* Update keeps the retention stamps of the entry. *)
UpdateEntry(c) ==
  /\ Runs(c, "update")
  /\ Found(c)
  /\ LET id == waiting[c].id
         e == [Swept(c).items[id] EXCEPT !.size = waiting[c].size]
     IN  Return(c, Enforce(Put(Swept(c), id, e), id), "ok")

(* Mutant of MayGrow: only the appended items are held against the budget.  *)
AppendedFits(s, id, size) == FitsAlone(size)

MayGrow(s, id, size) == FitsAlone(s.items[id].size + size)

(* AppendItems, of the conversation store. *)
AppendItems(c) ==
  /\ Runs(c, "append")
  /\ Found(c)
  /\ LET s == Swept(c)
         id == waiting[c].id
         size == waiting[c].size
     IN  IF MayGrow(s, id, size)
           THEN Return(c, Enforce([items |-> [s.items EXCEPT ![id].size = @ + size],
                                   total |-> s.total + size], id), "ok")
           ELSE Return(c, s, "error")

(* Delete stamps its time under the lock.  The response store answers for  *)
(* an expired entry that no sweep took as for a live one.                  *)
Deletable(c) == IF storeKind = "conversations" THEN Found(c) ELSE Present(c)

DeleteEntry(c) ==
  /\ Runs(c, "delete")
  /\ Return(c, RemoveEntry(Swept(c), waiting[c].id), IF Deletable(c) THEN "ok" ELSE "notfound")

(* Time passes, no call waiting for the lock longer than MaxDelay. *)
Tick ==
  /\ clock < MaxTime
  /\ \A c \in Callers : waiting[c] # NoCall => clock < waiting[c].now + MaxDelay
  /\ clock' = clock + 1
  /\ UNCHANGED <<storeKind, store, lastCleanup, waiting, ret>>

MemoryNext ==
  \/ \E c \in Callers : Begin(c) \/ Create(c) \/ NotFound(c) \/ Get(c) \/ UpdateEntry(c)
                          \/ AppendItems(c) \/ DeleteEntry(c)
  \/ Tick

MemorySpec == MemoryInit /\ [][MemoryNext]_memoryVars

-----------------------------------------------------------------------------
(* Properties.                                                              *)

Entries ==
  {e \in [size : Nat \ {0}, storedAt : 1 .. MaxTime, expiresAt : 0 .. MaxTime + TTL] :
     e.expiresAt = IF TTL > 0 THEN e.storedAt + TTL ELSE 0}

MemoryTypeOK ==
  /\ storeKind \in {"responses", "conversations"}
  /\ DOMAIN store.items \subseteq Ids
  /\ \A k \in DOMAIN store.items : store.items[k] \in Entries
  /\ store.total \in Nat
  /\ lastCleanup \in 0 .. MaxTime
  /\ clock \in 1 .. MaxTime
  /\ waiting \in [Callers -> Calls \cup {NoCall}]
  /\ ret \in [Callers -> {"none", "ok", "notfound", "exists", "error"}]

(* After every call both bounds hold, with the written entry protected from *)
(* eviction, and totalBytes, which they are judged by, is the sum of the    *)
(* sizes whatever was replaced, grown, swept or evicted                     *)
(* (enforceBoundsLocked, putLocked, removeLocked, AppendItems).             *)
BoundsHold ==
  /\ store.total = Weight(store.items, DOMAIN store.items)
  /\ Fits(store)

Writes(c) == waiting[c] # NoCall /\ waiting[c].op \in {"create", "update", "append"}
Returns(c) == waiting[c] # NoCall /\ waiting'[c] = NoCall

(* The live entries that leave when the call of c returns, but for the one  *)
(* it was asked to delete.                                                  *)
Evicts(c) ==
  {k \in DOMAIN store.items \ DOMAIN store'.items :
     ~Expired(store.items[k], Now(c)) /\ ~(waiting[c].op = "delete" /\ waiting[c].id = k)}

(* A write that succeeded is in the store, whatever its own enforcement of  *)
(* the bounds evicted; a live entry only leaves because it was deleted, or  *)
(* because a write of another one needed its room: no older entry stays,    *)
(* and with the youngest that left put back the store would not fit, so     *)
(* that none was evicted beyond what the bounds asked for (the comment of   *)
(* enforceBoundsLocked, and its loop condition).                            *)
LiveEntriesLeaveInOrder ==
  [][\A c \in Callers : Returns(c) =>
       /\ Writes(c) /\ ret'[c] = "ok" => waiting[c].id \in DOMAIN store'.items
       /\ Evicts(c) # {} => Writes(c)
       /\ \A k \in Evicts(c), j \in DOMAIN store'.items \ {waiting[c].id} :
            store.items[k].storedAt <= store.items[j].storedAt
       /\ Evicts(c) # {} =>
            \E k \in Evicts(c) :
              /\ \A j \in Evicts(c) : store.items[j].storedAt <= store.items[k].storedAt
              /\ ~Fits(Put(store', k, store.items[k]))]_memoryVars
=============================================================================
