---------------------------- MODULE Writers_proofs ----------------------------
(* Machine-checked proofs about what goes on behind the answers: the usage   *)
(* logger, for any set of entries and any buffer and batch size; the response *)
(* cache, for any set of requests, keys and workers and any size of the       *)
(* queue; and the observers of a stream of events, for any bytes, any chunks  *)
(* and any limit of an event.                                                *)
EXTENDS UsageLogger, ResponseCache, SSEStreams, SequenceTheorems, WellFoundedInduction, TLAPS

-----------------------------------------------------------------------------
(* The usage logger.                                                         *)

(* The WaitGroup holds exactly the calls between Add and Done.              *)
WritersRegistered ==
  \A e \in Entries : e \in writes <=> pc[e] \in {"registered", "publishing"}

(* Close goes through its stages in order, and so does flushLoop after it   *)
(* saw done.                                                                *)
CloseOrder ==
  /\ closer # "idle" => closed
  /\ done => closer \in {"waitLoop", "returned"}
  /\ closer \in {"waitLoop", "returned"} => done
  /\ storeClosed => closer = "returned" /\ loop = "stopped"

LoopOrder ==
  /\ loop \in {"drain", "finalFlush", "storeFlush", "stopped"} => done
  /\ loop \in {"finalFlush", "storeFlush", "stopped"} => buffer = {}
  /\ loop \in {"storeFlush", "stopped"} => batch = {}

(* Which event an entry has seen at each stage of its Write call.           *)
EventOfStage ==
  \A e \in Entries :
    /\ pc[e] \in {"idle", "checked", "registered"} => live[e] = "none"
    /\ pc[e] = "publishing" => live[e] = "completed"
    /\ pc[e] = "returned" /\ live[e] = "none" => closed

IInv == /\ TypeOK
        /\ WritersRegistered
        /\ CloseOrder
        /\ LoopOrder
        /\ EventOfStage
        /\ NoSendAfterDone
        /\ EveryEntryAccountedFor

(* The logger begins open and empty.                                         *)
LEMMA InitIInv == Init => IInv
BY DEF Init, IInv, TypeOK, WritersRegistered, CloseOrder, LoopOrder, EventOfStage,
       NoSendAfterDone, EveryEntryAccountedFor, Held, Writing

(* Every variable keeps its type.                                           *)
THEOREM TypeCorrect == Spec => []TypeOK
<1>1. Init => TypeOK
  BY InitIInv DEF IInv
<1>2. TypeOK /\ [Next]_vars => TypeOK'
  <2> SUFFICES ASSUME TypeOK, [Next]_vars PROVE TypeOK'
    OBVIOUS
  <2> USE DEF TypeOK
  <2>1. ASSUME NEW e \in Entries, Write(e) PROVE TypeOK'
    BY <2>1 DEF Write, CheckClosed, Register, Recheck, LeaveWrites, Send, Dropped
  <2>2. ASSUME NEW e \in Entries, Collect(e) \/ Drain(e) PROVE TypeOK'
    BY <2>2 DEF Collect, Drain, Receive, writers
  <2>3. CASE Tick \/ SeeDone \/ DrainComplete \/ FlushStore
    BY <2>3 DEF Tick, SeeDone, DrainComplete, FlushStore, writers
  <2>4. CASE FlushBatch
    BY <2>4 DEF FlushBatch, WriteFailed, Publish
  <2>7. ASSUME NEW chunk \in SUBSET Unwritten, InsertChunk(chunk) PROVE TypeOK'
    BY <2>7 DEF InsertChunk, Unwritten, writers
  <2>5. CASE Close
    BY <2>5 DEF Close, CloseBegins, CloseDone, CloseStore, writers
  <2>6. CASE UNCHANGED vars
    BY <2>6 DEF vars
  <2> QED
    BY <2>1, <2>2, <2>3, <2>4, <2>5, <2>6, <2>7 DEF Next, FlushLoop
<1> QED
  BY <1>1, <1>2, PTL DEF Spec

(* The control of Close and of flushLoop, which no Write disturbs.          *)
LEMMA OrderSteps ==
  ASSUME IInv, [Next]_vars
  PROVE  CloseOrder' /\ LoopOrder'
<1> USE DEF IInv, TypeOK, CloseOrder, LoopOrder
<1>1. ASSUME NEW e \in Entries, CheckClosed(e) \/ Register(e) \/ Recheck(e)
      PROVE  CloseOrder' /\ LoopOrder'
  BY <1>1 DEF CheckClosed, Register, Recheck
<1>2. ASSUME NEW e \in Entries, Send(e) PROVE CloseOrder' /\ LoopOrder'
  BY <1>2 DEF Send, NoSendAfterDone
<1>3. ASSUME NEW e \in Entries, Collect(e) \/ Drain(e) PROVE CloseOrder' /\ LoopOrder'
  BY <1>3 DEF Collect, Drain, Receive
<1>4. CASE Tick \/ SeeDone \/ DrainComplete \/ FlushStore
  BY <1>4 DEF Tick, SeeDone, DrainComplete, Drained, FlushStore
<1>5. CASE FlushBatch
  BY <1>5 DEF FlushBatch, Writing
<1>6. CASE Close
  BY <1>6 DEF Close, CloseBegins, CloseDone, CloseStore
<1>7. CASE UNCHANGED vars
  BY <1>7 DEF vars
<1>8. ASSUME NEW chunk \in SUBSET Unwritten, InsertChunk(chunk) PROVE CloseOrder' /\ LoopOrder'
  BY <1>8 DEF InsertChunk
<1> QED
  BY <1>1, <1>2, <1>3, <1>4, <1>5, <1>6, <1>7, <1>8 DEF Next, Write, FlushLoop

(* The protocol between Write's two checks, the WaitGroup and Close.        *)
LEMMA WriterSteps ==
  ASSUME IInv, [Next]_vars
  PROVE  WritersRegistered' /\ NoSendAfterDone'
<1> USE DEF IInv, TypeOK, WritersRegistered, NoSendAfterDone
<1>1. ASSUME NEW e \in Entries, CheckClosed(e) \/ Register(e)
      PROVE  WritersRegistered' /\ NoSendAfterDone'
  BY <1>1 DEF CheckClosed, Register
<1>2. ASSUME NEW e \in Entries, Recheck(e) PROVE WritersRegistered' /\ NoSendAfterDone'
  <2>1. WritersRegistered'
    BY <1>2 DEF Recheck, LeaveWrites
  <2>2. NoSendAfterDone'
    BY <1>2 DEF Recheck, MayWrite, CloseOrder
  <2> QED
    BY <2>1, <2>2
<1>3. ASSUME NEW e \in Entries, Send(e) PROVE WritersRegistered' /\ NoSendAfterDone'
  BY <1>3 DEF Send
<1>4. CASE FlushLoop
  <2>1. UNCHANGED <<pc, writes, done>>
    BY <1>4 DEF FlushLoop, Collect, Drain, Receive, Tick, SeeDone, DrainComplete, InsertChunk,
                FlushBatch, FlushStore, writers
  <2> QED
    BY <2>1
<1>5. CASE Close
  BY <1>5 DEF Close, CloseBegins, CloseDone, WritesDone, CloseStore, writers
<1>6. CASE UNCHANGED vars
  BY <1>6 DEF vars
<1> QED
  BY <1>1, <1>2, <1>3, <1>4, <1>5, <1>6 DEF Next, Write

(* Where an entry is and which event it has seen.                           *)
LEMMA EntrySteps ==
  ASSUME IInv, [Next]_vars
  PROVE  EventOfStage' /\ EveryEntryAccountedFor'
<1> USE DEF IInv, TypeOK, EventOfStage, EveryEntryAccountedFor, Held, Writing
<1>1. ASSUME NEW e \in Entries, CheckClosed(e) \/ Register(e)
      PROVE  EventOfStage' /\ EveryEntryAccountedFor'
  BY <1>1 DEF CheckClosed, Register
<1>2. ASSUME NEW e \in Entries, Recheck(e) PROVE EventOfStage' /\ EveryEntryAccountedFor'
  BY <1>2 DEF Recheck, MayWrite
<1>3. ASSUME NEW e \in Entries, Send(e) PROVE EventOfStage' /\ EveryEntryAccountedFor'
  <2>1. CASE Cardinality(buffer) < BufferSize
    BY <1>3, <2>1 DEF Send
  <2>2. CASE ~(Cardinality(buffer) < BufferSize)
    BY <1>3, <2>2 DEF Send, Dropped
  <2> QED
    BY <2>1, <2>2
<1>4. ASSUME NEW e \in Entries, Collect(e) \/ Drain(e) PROVE EventOfStage' /\ EveryEntryAccountedFor'
  BY <1>4 DEF Collect, Drain, Receive, writers
<1>5. CASE Tick \/ SeeDone \/ DrainComplete \/ FlushStore
  BY <1>5 DEF Tick, SeeDone, DrainComplete, FlushStore, writers
<1>6. CASE FlushBatch
  BY <1>6 DEF FlushBatch, Written, Unwritten, WriteFailed, Publish
<1>7. CASE Close
  BY <1>7 DEF Close, CloseBegins, CloseDone, CloseStore, writers
<1>8. CASE UNCHANGED vars
  BY <1>8 DEF vars
<1>9. ASSUME NEW chunk \in SUBSET Unwritten, InsertChunk(chunk)
      PROVE  EventOfStage' /\ EveryEntryAccountedFor'
  BY <1>9 DEF InsertChunk, Unwritten, writers
<1> QED
  BY <1>1, <1>2, <1>3, <1>4, <1>5, <1>6, <1>7, <1>8, <1>9 DEF Next, Write, FlushLoop

(* The invariant holds in every reachable state.                            *)
THEOREM Invariance == Spec => []IInv
<1>1. IInv /\ TypeOK' /\ [Next]_vars => IInv'
  BY OrderSteps, WriterSteps, EntrySteps DEF IInv
<1> QED
  BY <1>1, InitIInv, TypeCorrect, PTL DEF Spec

(* Once Close has closed done, no Write call is about to send.              *)
THEOREM NoLateSend == Spec => []NoSendAfterDone
BY Invariance, PTL DEF IInv

(* Every announced entry is in exactly one place until it is reported,      *)
(* flushed only if it is stored, and no entry is stored but by a batch.     *)
THEOREM NoEntryLost == Spec => []EveryEntryAccountedFor
BY Invariance, PTL DEF IInv

(* The store is closed after its last use, and nothing is left to write.    *)
THEOREM CleanClose == Spec => []NothingPendingAfterClose
<1>1. IInv => NothingPendingAfterClose
  BY DEF IInv, CloseOrder, LoopOrder, NothingPendingAfterClose
<1> QED
  BY <1>1, Invariance, PTL

-----------------------------------------------------------------------------
(* The refinement of UsageDelivery.  Each step of the logger changes the    *)
(* fate of the entries named by the lemma and of no other.                  *)

Fate == [e \in Entries |-> FateOf(e)]

(* The fates of a state depend on pc and live only.                         *)
LEMMA SameFate ==
  ASSUME UNCHANGED <<pc, live>>
  PROVE  Fate' = Fate
BY DEF Fate, FateOf

(* A Write call gives an entry that had no fate one of the four, or none.   *)
LEMMA WriteRefines ==
  ASSUME IInv, NEW e \in Entries, Write(e)
  PROVE  Delivery!Offer(e) \/ UNCHANGED Delivery!vars
<1> USE DEF IInv, TypeOK, EventOfStage
<1>1. closed' = closed /\ storeClosed' = storeClosed /\ stored' = stored
  BY DEF Write, CheckClosed, Register, Recheck, Send
<1>2. \A q \in Entries \ {e} : FateOf(q)' = FateOf(q)
  BY DEF Write, CheckClosed, Register, Recheck, Send, Dropped, FateOf
<1>3. pc[e] # "returned" => FateOf(e) = "new"
  BY DEF FateOf
<1>4. CASE CheckClosed(e) \/ Register(e) \/ Recheck(e)
  <2>1. FateOf(e)' = "new" \/ (closed /\ FateOf(e)' = "refused")
    BY <1>4 DEF CheckClosed, Register, Recheck, MayWrite, FateOf
  <2>2. pc[e] # "returned"
    BY <1>4 DEF CheckClosed, Register, Recheck
  <2>3. CASE FateOf(e)' = "new"
    <3>1. Fate' = Fate
      BY <1>2, <1>3, <2>2, <2>3 DEF Fate
    <3> QED
      BY <1>1, <3>1 DEF Delivery!vars, Fate
  <2>4. CASE closed /\ FateOf(e)' = "refused"
    BY <1>1, <1>2, <1>3, <2>2, <2>4 DEF Delivery!Offer
  <2> QED
    BY <2>1, <2>3, <2>4
<1>5. CASE Send(e)
  <2>1. FateOf(e)' \in {"pending", "failed"} /\ pc[e] = "publishing"
    BY <1>5 DEF Send, Dropped, FateOf
  <2>2. ~storeClosed
    BY <2>1 DEF CloseOrder, NoSendAfterDone
  <2> QED
    BY <1>1, <1>2, <1>3, <2>1, <2>2 DEF Delivery!Offer
<1> QED
  BY <1>4, <1>5 DEF Write

(* WriteBatch inserts entries of the batch, flushBatch settles the whole    *)
(* batch, and flushLoop's other steps do neither.                           *)
LEMMA FlushRefines ==
  ASSUME IInv, FlushLoop
  PROVE  \/ \E b \in SUBSET Entries : Delivery!Insert(b) \/ Delivery!Settle(b)
         \/ UNCHANGED Delivery!vars
<1> USE DEF IInv, TypeOK
<1>1. \A e \in Entries : e \in batch => FateOf(e) = "pending"
  BY DEF EveryEntryAccountedFor, Held, FateOf
<1>2. Writing => ~storeClosed
  BY DEF Writing, CloseOrder
<1>3. ASSUME NEW chunk \in SUBSET Unwritten, InsertChunk(chunk) PROVE Delivery!Insert(chunk)
  <2>1. chunk \subseteq batch
    BY DEF Unwritten
  <2>2. Fate' = Fate
    BY <1>3, SameFate DEF InsertChunk, writers
  <2> QED
    BY <1>1, <1>2, <1>3, <2>1, <2>2 DEF InsertChunk, Delivery!Insert, Fate
<1>4. CASE FlushBatch
  <2>1. \A e \in Entries :
          FateOf(e)' = IF e \in batch THEN IF batch \subseteq stored THEN "flushed" ELSE "failed"
                       ELSE FateOf(e)
    BY <1>4 DEF FlushBatch, Written, Unwritten, WriteFailed, Publish, FateOf
  <2>2. UNCHANGED <<stored, closed, storeClosed>> /\ ~storeClosed
    BY <1>2, <1>4 DEF FlushBatch
  <2> QED
    BY <1>1, <2>1, <2>2 DEF Delivery!Settle
<1>5. CASE ~FlushBatch /\ ~\E chunk \in SUBSET Unwritten : InsertChunk(chunk)
  <2>1. UNCHANGED <<pc, live, stored, closed, storeClosed>>
    BY <1>5 DEF FlushLoop, Collect, Drain, Receive, Tick, SeeDone, DrainComplete, FlushStore, writers
  <2> QED
    BY <2>1, SameFate DEF Delivery!vars, Fate
<1>6. Unwritten \subseteq Entries
  BY DEF Unwritten
<1> QED
  BY <1>3, <1>4, <1>5, <1>6

(* Close begins by refusing, and ends when nothing is pending.              *)
LEMMA CloseRefines ==
  ASSUME IInv, Close
  PROVE  Delivery!BeginClose \/ Delivery!CloseStore \/ UNCHANGED Delivery!vars
<1> USE DEF IInv, TypeOK
<1>1. Fate' = Fate
  BY SameFate DEF Close, CloseBegins, CloseDone, CloseStore, writers
<1>2. CASE CloseBegins
  BY <1>1, <1>2 DEF CloseBegins, Delivery!BeginClose, Fate
<1>3. CASE CloseDone
  BY <1>1, <1>3 DEF CloseDone, Delivery!vars, Fate
<1>4. CASE CloseStore
  <2>1. closed /\ buffer = {} /\ batch = {}
    BY <1>4 DEF CloseStore, CloseOrder, LoopOrder
  <2>2. \A e \in Entries : FateOf(e) # "pending"
    BY <2>1 DEF FateOf, EveryEntryAccountedFor, Held
  <2> QED
    BY <1>1, <1>4, <2>1, <2>2 DEF CloseStore, Delivery!CloseStore, Fate
<1> QED
  BY <1>2, <1>3, <1>4 DEF Close

(* The buffered logger keeps every promise of UsageDelivery.                *)
THEOREM Refinement == Spec => ImplementsDelivery
<1>1. Init => Delivery!Init
  BY DEF Init, Delivery!Init, FateOf
<1>2. IInv /\ [Next]_vars => [Delivery!Next]_(Delivery!vars)
  <2> SUFFICES ASSUME IInv, [Next]_vars PROVE [Delivery!Next]_(Delivery!vars)
    OBVIOUS
  <2>1. CASE UNCHANGED vars
    BY <2>1, SameFate DEF vars, Delivery!vars, Fate
  <2> QED
    BY <2>1, WriteRefines, FlushRefines, CloseRefines DEF Next, Delivery!Next
<1> QED
  BY <1>1, <1>2, Invariance, PTL DEF Spec, ImplementsDelivery, Delivery!Spec

-----------------------------------------------------------------------------
(* The response cache.                                                       *)

(* The read lock is held exactly while a request is between the look at      *)
(* closed and the send, and close sets the flag when it takes the lock.      *)
LockOrder ==
  /\ readers = Sending
  /\ cacheClosed <=> cacheCloser # "idle"

(* A write is in one place: with its request, in the queue, or with one      *)
(* worker; the request that made it has gone on.                             *)
WritesInOnePlace ==
  /\ \A r \in jobs : at[r] = "served" /\ \A w \in Workers : working[w] # r
  /\ \A w \in Workers : working[w] \in Requests => at[working[w]] = "served"
  /\ \A v, w \in Workers : working[v] \in Requests /\ working[v] = working[w] => v = w

(* What is on its way to the store, or in it, is a complete answer, and in   *)
(* the store it is filed under its own key.                                  *)
WritesAreComplete ==
  /\ \A r \in Requests : at[r] \in {"captured", "sending"} \/ r \in Pending => result[r] = "complete"
  /\ \A k \in Keys : store[k] # None =>
       result[store[k]] = "complete" /\ key[store[k]] = k /\ at[store[k]] = "served"

(* A replayed answer's own request is over.                                  *)
HitsAreOver == \A r \in Requests : hit[r] # None => at[hit[r]] = "served"

CacheIInv ==
  /\ CacheTypeOK
  /\ LockOrder
  /\ WritesInOnePlace
  /\ WritesAreComplete
  /\ HitsAreOver
  /\ CloseLosesNoWrite
  /\ HitsAreFaithful

(* The cache begins open and empty.                                          *)
LEMMA CacheInitIInv == CacheInit => CacheIInv
<1> SUFFICES ASSUME CacheInit PROVE CacheIInv
  OBVIOUS
<1> USE CacheAssumption DEF CacheInit
<1>1. CacheTypeOK
  BY DEF CacheTypeOK
<1>2. Pending = {} /\ Sending = {}
  BY DEF Pending, Sending
<1>3. LockOrder
  BY <1>2 DEF LockOrder
<1>4. WritesInOnePlace
  BY DEF WritesInOnePlace
<1>5. WritesAreComplete /\ HitsAreOver
  BY <1>2 DEF WritesAreComplete, HitsAreOver
<1>6. CloseLosesNoWrite /\ HitsAreFaithful
  BY <1>2 DEF CloseLosesNoWrite, HitsAreFaithful
<1> QED
  BY <1>1, <1>3, <1>4, <1>5, <1>6 DEF CacheIInv

(* Every variable keeps its type.                                            *)
THEOREM CacheTypeCorrect == CacheSpec => []CacheTypeOK
<1>1. CacheInit => CacheTypeOK
  BY CacheInitIInv DEF CacheIInv
<1>2. CacheTypeOK /\ [CacheNext]_cacheVars => CacheTypeOK'
  <2> SUFFICES ASSUME CacheTypeOK, [CacheNext]_cacheVars PROVE CacheTypeOK'
    OBVIOUS
  <2> USE DEF CacheTypeOK, requests, queue
  <2>1. ASSUME NEW r \in Requests, TryHit(r) PROVE CacheTypeOK'
    BY <2>1 DEF TryHit
  <2>2. ASSUME NEW r \in Requests, Capture(r) PROVE CacheTypeOK'
    BY <2>2 DEF Capture
  <2>3. ASSUME NEW r \in Requests, EnqueueBegins(r) PROVE CacheTypeOK'
    BY <2>3 DEF EnqueueBegins
  <2>4. ASSUME NEW r \in Requests, SendJob(r) PROVE CacheTypeOK'
    BY <2>4 DEF SendJob, RollBack
  <2>5. ASSUME NEW w \in Workers, TakeJob(w) \/ ExitWorker(w) PROVE CacheTypeOK'
    BY <2>5 DEF TakeJob, ExitWorker
  <2>6. ASSUME NEW w \in Workers, ApplyJob(w) PROVE CacheTypeOK'
    BY <2>6 DEF ApplyJob, Set
  <2>7. CASE CloseQueue \/ CloseCache
    BY <2>7 DEF CloseQueue, CloseCache
  <2>8. CASE UNCHANGED cacheVars
    BY <2>8 DEF cacheVars
  <2> QED
    BY <2>1, <2>2, <2>3, <2>4, <2>5, <2>6, <2>7, <2>8 DEF CacheNext
<1> QED
  BY <1>1, <1>2, PTL DEF CacheSpec

(* The queue does not move under a request before its send.                  *)
LEMMA RequestSteps ==
  ASSUME CacheIInv, NEW r \in Requests, TryHit(r) \/ Capture(r)
  PROVE  CacheIInv'
<1> USE CacheAssumption DEF CacheIInv, CacheTypeOK, queue
<1>1. CacheTypeOK'
  BY DEF TryHit, Capture
<1>2. Pending' = Pending /\ Sending' = Sending
  BY DEF TryHit, Capture, Pending, Sending
<1>3. LockOrder'
  BY <1>2 DEF LockOrder, TryHit, Capture
<1>4. WritesInOnePlace'
  BY DEF WritesInOnePlace, TryHit, Capture
<1>5. WritesAreComplete'
  <2>1. CASE TryHit(r)
    BY <2>1, <1>2 DEF WritesAreComplete, TryHit
  <2>2. CASE Capture(r)
    BY <2>2, <1>2 DEF WritesAreComplete, WritesInOnePlace, Capture, Cacheable, Pending
  <2> QED
    BY <2>1, <2>2
<1>6. CloseLosesNoWrite'
  BY <1>2 DEF CloseLosesNoWrite, TryHit, Capture
<1>7. HitsAreOver' /\ HitsAreFaithful'
  <2>1. CASE TryHit(r)
    BY <2>1 DEF HitsAreOver, HitsAreFaithful, WritesAreComplete, TryHit
  <2>2. CASE Capture(r)
    BY <2>2 DEF HitsAreOver, HitsAreFaithful, Capture
  <2> QED
    BY <2>1, <2>2
<1> QED
  BY <1>1, <1>3, <1>4, <1>5, <1>6, <1>7

(* enqueueWrite: a request is counted when it holds the lock and the queue   *)
(* is open, and leaves the lock with its write in the queue or uncounted.    *)
LEMMA EnqueueSteps ==
  ASSUME CacheIInv, NEW r \in Requests, EnqueueBegins(r) \/ SendJob(r)
  PROVE  CacheIInv'
<1> USE CacheAssumption DEF CacheIInv, CacheTypeOK
<1>1. CacheTypeOK'
  BY DEF EnqueueBegins, SendJob, RollBack
<1>2. r \notin Pending
  BY DEF WritesInOnePlace, Pending, EnqueueBegins, SendJob
<1>3. CASE EnqueueBegins(r)
  <2>1. Pending' = Pending
    BY <1>3 DEF EnqueueBegins, Pending
  <2>2. Sending' = IF cacheClosed THEN Sending ELSE Sending \cup {r}
    BY <1>3 DEF EnqueueBegins, Sending
  <2>3. LockOrder' /\ CloseLosesNoWrite'
    BY <1>3, <2>1, <2>2 DEF EnqueueBegins, LockOrder, CloseLosesNoWrite
  <2>4. WritesInOnePlace'
    BY <1>3, <1>2 DEF EnqueueBegins, WritesInOnePlace
  <2>5. WritesAreComplete' /\ HitsAreOver' /\ HitsAreFaithful'
    BY <1>3, <2>1 DEF EnqueueBegins, WritesAreComplete, HitsAreOver, HitsAreFaithful
  <2> QED
    BY <1>1, <2>3, <2>4, <2>5
<1>4. CASE SendJob(r)
  <2>1. Sending' = Sending \ {r} /\ r \in Sending
    BY <1>4 DEF SendJob, Sending
  <2>2. \/ Pending' = Pending \cup {r} /\ wg' = wg
        \/ Pending' = Pending /\ wg' = wg \ {r}
    BY <1>4 DEF SendJob, RollBack, Pending
  <2>3. LockOrder'
    BY <1>4, <2>1 DEF SendJob, LockOrder
  <2>4. CloseLosesNoWrite'
    BY <1>4, <1>2, <2>1, <2>2 DEF SendJob, LockOrder, CloseLosesNoWrite
  <2>5. WritesInOnePlace'
    BY <1>4, <1>2 DEF SendJob, WritesInOnePlace, Pending
  <2>6. WritesAreComplete' /\ HitsAreOver' /\ HitsAreFaithful'
    BY <1>4, <2>2 DEF SendJob, WritesAreComplete, HitsAreOver, HitsAreFaithful
  <2> QED
    BY <1>1, <2>3, <2>4, <2>5, <2>6
<1> QED
  BY <1>3, <1>4

(* A worker moves a write from the queue into its hands and then into the    *)
(* store, where it stays counted until it is applied.                        *)
LEMMA WorkerSteps ==
  ASSUME CacheIInv, NEW w \in Workers, TakeJob(w) \/ ApplyJob(w) \/ ExitWorker(w)
  PROVE  CacheIInv'
<1> USE CacheAssumption DEF CacheIInv, CacheTypeOK, requests
<1>1. CacheTypeOK'
  BY DEF TakeJob, ApplyJob, ExitWorker, Set
<1>2. Sending' = Sending /\ UNCHANGED <<at, key, result, hit, readers, cacheClosed, cacheCloser>>
  BY DEF TakeJob, ApplyJob, ExitWorker, Sending
<1>3. LockOrder' /\ HitsAreOver' /\ HitsAreFaithful'
  BY <1>2 DEF LockOrder, HitsAreOver, HitsAreFaithful
<1>4. WritesInOnePlace'
  BY DEF TakeJob, ApplyJob, ExitWorker, WritesInOnePlace
<1>5. CASE TakeJob(w)
  <2>1. Pending' = Pending
    BY <1>5 DEF TakeJob, Pending
  <2> QED
    BY <1>1, <1>2, <1>3, <1>4, <1>5, <2>1 DEF TakeJob, WritesAreComplete, CloseLosesNoWrite
<1>6. CASE ApplyJob(w)
  <2>1. Pending' = Pending \ {working[w]} /\ working[w] \in Pending
    BY <1>6 DEF ApplyJob, Pending, WritesInOnePlace
  <2>2. working[w] \notin Sending
    BY <1>6 DEF ApplyJob, Sending, WritesInOnePlace
  <2>3. CloseLosesNoWrite'
    BY <1>2, <1>6, <2>1, <2>2 DEF ApplyJob, CloseLosesNoWrite
  <2>4. WritesAreComplete'
    BY <1>2, <1>6, <2>1 DEF ApplyJob, Set, WritesAreComplete, WritesInOnePlace
  <2> QED
    BY <1>1, <1>3, <1>4, <2>3, <2>4
<1>7. CASE ExitWorker(w)
  <2>1. Pending' = Pending
    BY <1>7 DEF ExitWorker, Pending
  <2> QED
    BY <1>1, <1>2, <1>3, <1>4, <1>7, <2>1 DEF ExitWorker, WritesAreComplete, CloseLosesNoWrite
<1> QED
  BY <1>5, <1>6, <1>7

(* close takes the lock when no request is between its look and its send,    *)
(* and the store is closed when nothing is counted any more.                 *)
LEMMA CloseSteps ==
  ASSUME CacheIInv, CloseQueue \/ CloseCache
  PROVE  CacheIInv'
<1> USE CacheAssumption DEF CacheIInv, CacheTypeOK, requests, queue
<1>1. CacheTypeOK'
  BY DEF CloseQueue, CloseCache
<1>2. Pending' = Pending /\ Sending' = Sending
  BY DEF CloseQueue, CloseCache, Pending, Sending
<1>3. LockOrder'
  BY <1>2 DEF CloseQueue, CloseCache, LockOrder
<1>4. CloseLosesNoWrite'
  BY <1>2 DEF CloseQueue, MayLock, CloseCache, CacheWritesDone, LockOrder, CloseLosesNoWrite
<1>5. WritesInOnePlace' /\ WritesAreComplete' /\ HitsAreOver' /\ HitsAreFaithful'
  BY <1>2 DEF CloseQueue, CloseCache, WritesInOnePlace, WritesAreComplete, HitsAreOver, HitsAreFaithful
<1> QED
  BY <1>1, <1>3, <1>4, <1>5

(* The inductive invariant holds in every reachable state.                    *)
THEOREM CacheInvariance == CacheSpec => []CacheIInv
<1>1. CacheIInv /\ [CacheNext]_cacheVars => CacheIInv'
  <2> SUFFICES ASSUME CacheIInv, [CacheNext]_cacheVars PROVE CacheIInv'
    OBVIOUS
  <2>1. CASE UNCHANGED cacheVars
    BY <2>1 DEF cacheVars, requests, queue, CacheIInv, CacheTypeOK, LockOrder, WritesInOnePlace,
                WritesAreComplete, HitsAreOver, CloseLosesNoWrite, HitsAreFaithful, Pending, Sending
  <2> QED
    BY <2>1, RequestSteps, EnqueueSteps, WorkerSteps, CloseSteps DEF CacheNext
<1> QED
  BY CacheInitIInv, <1>1, PTL DEF CacheSpec

(* However requests, workers and Close overlap: the WaitGroup counts exactly *)
(* the writes under way, nobody sends on the closed channel, and the store   *)
(* is closed when every accepted write is in it (enqueueWrite, worker,       *)
(* close).                                                                   *)
THEOREM NoWriteLost == CacheSpec => []CloseLosesNoWrite
<1>1. CacheIInv => CloseLosesNoWrite
  BY DEF CacheIInv
<1> QED
  BY CacheInvariance, <1>1, PTL

(* Only a complete answer of the primary target to a request with the same   *)
(* key is ever replayed (captureResponseForCache, TryHit).                   *)
THEOREM FaithfulReplays == CacheSpec => []HitsAreFaithful
<1>1. CacheIInv => HitsAreFaithful
  BY DEF CacheIInv
<1> QED
  BY CacheInvariance, <1>1, PTL

-----------------------------------------------------------------------------
(* Observers of a stream: separators.                                        *)

(* Strings of bytes.                                                         *)
Str == Seq(Bytes)

(* The bytes of a separator of length 2 or 4.                                *)
Separator(n) == IF n = 2 THEN LFLF ELSE CRLFCRLF

SeparatorAt(d, p, n) ==
  \/ /\ n = 2 /\ p + 2 <= Len(d)
     /\ d[p + 1] = "LF" /\ d[p + 2] = "LF"
  \/ /\ n = 4 /\ p + 4 <= Len(d)
     /\ d[p + 1] = "CR" /\ d[p + 2] = "LF" /\ d[p + 3] = "CR" /\ d[p + 4] = "LF"

NoSeparator(d) == \A q \in Nat, m \in {2, 4} : ~SeparatorAt(d, q, m)

FirstAt(d, p, n) ==
  SeparatorAt(d, p, n) /\ \A q \in Nat, m \in {2, 4} : SeparatorAt(d, q, m) => p <= q

(* Prefixes and suffixes of strings.                                         *)
LEMMA Pieces ==
  ASSUME NEW S, NEW s \in Seq(S), NEW k \in 0 .. Len(s)
  PROVE  /\ Take(s, k) \in Seq(S) /\ Len(Take(s, k)) = k
         /\ \A i \in 1 .. k : Take(s, k)[i] = s[i]
         /\ Drop(s, k) \in Seq(S) /\ Len(Drop(s, k)) = Len(s) - k
         /\ \A i \in 1 .. Len(s) - k : Drop(s, k)[i] = s[k + i]
         /\ s = Take(s, k) \o Drop(s, k)
<1>1. /\ k \in Nat /\ Len(s) \in Nat /\ k <= Len(s)
      /\ \A i \in 1 .. Len(s) : s[i] \in S
  BY LenProperties, ElementOfSeq
<1>2. /\ Take(s, k) \in Seq(S) /\ Len(Take(s, k)) = k
      /\ \A i \in 1 .. k : Take(s, k)[i] = s[i]
  <2>1. \A i \in 1 .. k : s[i] \in S
    BY <1>1
  <2>2. /\ SubSeq(s, 1, k) \in Seq(S)
        /\ Len(SubSeq(s, 1, k)) = IF 1 <= k THEN k - 1 + 1 ELSE 0
        /\ \A i \in 1 .. k - 1 + 1 : SubSeq(s, 1, k)[i] = s[1 + i - 1]
    BY <1>1, <2>1, SubSeqProperties
  <2> QED
    BY <1>1, <2>2 DEF Take
<1>3. /\ Drop(s, k) \in Seq(S) /\ Len(Drop(s, k)) = Len(s) - k
      /\ \A i \in 1 .. Len(s) - k : Drop(s, k)[i] = s[k + i]
  <2>1. \A i \in k + 1 .. Len(s) : s[i] \in S
    BY <1>1
  <2>2. /\ SubSeq(s, k + 1, Len(s)) \in Seq(S)
        /\ Len(SubSeq(s, k + 1, Len(s))) = IF k + 1 <= Len(s) THEN Len(s) - (k + 1) + 1 ELSE 0
        /\ \A i \in 1 .. Len(s) - (k + 1) + 1 : SubSeq(s, k + 1, Len(s))[i] = s[(k + 1) + i - 1]
    BY <1>1, <2>1, SubSeqProperties
  <2> QED
    BY <1>1, <2>2 DEF Drop
<1>4. s = Take(s, k) \o Drop(s, k)
  <2> DEFINE t == Take(s, k)
             u == Drop(s, k)
  <2>1. /\ t \o u \in Seq(S) /\ Len(t \o u) = Len(t) + Len(u)
        /\ \A i \in 1 .. Len(t) + Len(u) : (t \o u)[i] = IF i <= Len(t) THEN t[i] ELSE u[i - Len(t)]
    BY <1>2, <1>3, ConcatProperties
  <2> HIDE DEF t, u
  <2>2. \A i \in 1 .. Len(s) : (t \o u)[i] = s[i]
    BY <1>1, <1>2, <1>3, <2>1 DEF t, u
  <2>3. Len(t \o u) = Len(s)
    BY <1>1, <1>2, <1>3, <2>1 DEF t, u
  <2> QED
    BY <2>1, <2>2, <2>3, SeqEqual DEF t, u
<1> QED
  BY <1>2, <1>3, <1>4

(* The bytes of two strings joined.                                          *)
LEMMA Joined ==
  ASSUME NEW S, NEW s \in Seq(S), NEW t \in Seq(S)
  PROVE  /\ s \o t \in Seq(S) /\ Len(s) \in Nat /\ Len(t) \in Nat
         /\ Len(s \o t) = Len(s) + Len(t)
         /\ \A i \in 1 .. Len(s) : (s \o t)[i] = s[i]
         /\ \A i \in 1 .. Len(t) : (s \o t)[Len(s) + i] = t[i]
<1>1. /\ s \o t \in Seq(S) /\ Len(s \o t) = Len(s) + Len(t)
      /\ \A i \in 1 .. Len(s) + Len(t) : (s \o t)[i] = IF i <= Len(s) THEN s[i] ELSE t[i - Len(s)]
  BY ConcatProperties
<1>2. Len(s) \in Nat /\ Len(t) \in Nat
  BY LenProperties
<1> QED
  BY <1>1, <1>2

LEMMA TakeDropJoined ==
  ASSUME NEW S, NEW s \in Seq(S), NEW t \in Seq(S)
  PROVE  /\ \A k \in 0 .. Len(s) : Take(s \o t, k) = Take(s, k)
         /\ \A k \in 0 .. Len(s) : Drop(s \o t, k) = Drop(s, k) \o t
         /\ Drop(s \o t, Len(s)) = t
<1>1. /\ s \o t \in Seq(S) /\ Len(s) \in Nat /\ Len(t) \in Nat
      /\ Len(s \o t) = Len(s) + Len(t)
      /\ \A i \in 1 .. Len(s) : (s \o t)[i] = s[i]
      /\ \A i \in 1 .. Len(t) : (s \o t)[Len(s) + i] = t[i]
  BY Joined
<1>2. ASSUME NEW k \in 0 .. Len(s) PROVE Take(s \o t, k) = Take(s, k)
  <2>1. k \in 0 .. Len(s \o t)
    BY <1>1
  <2>2. /\ Take(s \o t, k) \in Seq(S) /\ Len(Take(s \o t, k)) = k
        /\ \A i \in 1 .. k : Take(s \o t, k)[i] = (s \o t)[i]
    BY <1>1, <2>1, Pieces
  <2>3. /\ Take(s, k) \in Seq(S) /\ Len(Take(s, k)) = k
        /\ \A i \in 1 .. k : Take(s, k)[i] = s[i]
    BY Pieces
  <2>4. \A i \in 1 .. k : Take(s \o t, k)[i] = Take(s, k)[i]
    BY <1>1, <2>2, <2>3
  <2> QED
    BY <2>2, <2>3, <2>4, SeqEqual
<1>3. ASSUME NEW k \in 0 .. Len(s) PROVE Drop(s \o t, k) = Drop(s, k) \o t
  <2> DEFINE u == Drop(s, k)
             v == Drop(s \o t, k)
  <2>1. k \in 0 .. Len(s \o t) /\ k \in Nat
    BY <1>1
  <2>2. /\ v \in Seq(S) /\ Len(v) = Len(s \o t) - k
        /\ \A i \in 1 .. Len(s \o t) - k : v[i] = (s \o t)[k + i]
    BY <1>1, <2>1, Pieces
  <2>3. /\ u \in Seq(S) /\ Len(u) = Len(s) - k
        /\ \A i \in 1 .. Len(s) - k : u[i] = s[k + i]
    BY Pieces
  <2> HIDE DEF u, v
  <2>4. /\ u \o t \in Seq(S) /\ Len(u \o t) = Len(u) + Len(t)
        /\ \A i \in 1 .. Len(u) : (u \o t)[i] = u[i]
        /\ \A i \in 1 .. Len(t) : (u \o t)[Len(u) + i] = t[i]
    <3>1. u \in Seq(S)
      BY <2>3
    <3> QED
      BY <3>1, Joined
  <2>5. Len(v) = Len(u \o t)
    BY <1>1, <2>1, <2>2, <2>3, <2>4
  <2>6. ASSUME NEW i \in 1 .. Len(v) PROVE v[i] = (u \o t)[i]
    <3>1. v[i] = (s \o t)[k + i]
      BY <2>2, <2>6
    <3>2. CASE i <= Len(u)
      BY <1>1, <2>1, <2>2, <2>3, <2>4, <2>6, <3>1, <3>2
    <3>3. CASE ~(i <= Len(u))
      <4> DEFINE j == i - Len(u)
      <4>1. j \in 1 .. Len(t) /\ Len(u) + j = i /\ Len(s) + j = k + i
        BY <1>1, <2>1, <2>2, <2>3, <2>4, <2>6, <3>3
      <4> HIDE DEF j
      <4> QED
        BY <1>1, <2>4, <3>1, <4>1
    <3> QED
      BY <3>2, <3>3
  <2>7. v = u \o t
    BY <2>2, <2>4, <2>5, <2>6, SeqEqual
  <2> QED
    BY <2>7 DEF u, v
<1>4. Drop(s \o t, Len(s)) = t
  <2>1. Len(s) \in 0 .. Len(s) /\ Len(s) + 1 > Len(s)
    BY <1>1
  <2>2. Drop(s \o t, Len(s)) = Drop(s, Len(s)) \o t
    BY <1>3, <2>1
  <2>3. Drop(s, Len(s)) = <<>>
    BY <1>1, <2>1, SubSeqEmpty DEF Drop
  <2> QED
    BY <2>2, <2>3, ConcatEmptySeq
<1> QED
  BY <1>2, <1>3, <1>4

(* A set of numbers has a least one.                                         *)
LEMMA SomeLeast ==
  ASSUME NEW S \in SUBSET Nat, S # {}
  PROVE  \E n \in S : \A m \in S : n <= m
<1> DEFINE less == {pair \in Nat \X Nat : pair[1] < pair[2]}
<1>1. IsWellFoundedOn(less, Nat)
  BY NatLessThanWellFounded DEF OpToRel
<1>2. \A i, j \in Nat : <<j, i>> \notin less => i <= j
  OBVIOUS
<1> HIDE DEF less
<1>3. \E i \in S : \A j \in S : <<j, i>> \notin less
  BY <1>1, WFMin
<1> QED
  BY <1>2, <1>3

-----------------------------------------------------------------------------
(* Boundaries.                                                               *)

(* The boundaries of a string are the places of its separators.              *)
LEMMA BoundariesAre ==
  ASSUME NEW d \in Str
  PROVE  /\ \A p \in Nat, n \in {2, 4} :
               SeparatorAt(d, p, n) <=> <<p, Separator(n)>> \in Boundaries(d)
         /\ \A c \in Boundaries(d) : \E p \in Nat, n \in {2, 4} : c = <<p, Separator(n)>>
<1>1. Len(d) \in Nat /\ \A i \in 1 .. Len(d) : d[i] \in Bytes
  BY LenProperties, ElementOfSeq DEF Str
<1>2. /\ Separator(2) = LFLF /\ Len(LFLF) = 2 /\ LFLF[1] = "LF" /\ LFLF[2] = "LF"
      /\ LFLF \in Str
  BY DEF Separator, LFLF, Str, Bytes
<1>3. /\ Separator(4) = CRLFCRLF /\ Len(CRLFCRLF) = 4
      /\ CRLFCRLF[1] = "CR" /\ CRLFCRLF[2] = "LF" /\ CRLFCRLF[3] = "CR" /\ CRLFCRLF[4] = "LF"
      /\ CRLFCRLF \in Str
  BY DEF Separator, CRLFCRLF, Str, Bytes
<1>4. ASSUME NEW p \in Nat, NEW n \in {2, 4}
      PROVE  SeparatorAt(d, p, n) <=> <<p, Separator(n)>> \in Boundaries(d)
  <2> DEFINE u == SubSeq(d, p + 1, p + n)
             v == Separator(n)
  <2>1. v \in Str /\ Len(v) = n /\ v \in {LFLF, CRLFCRLF}
    BY <1>2, <1>3
  <2>2. <<p, v>> \in Boundaries(d) <=> p + n <= Len(d) /\ u = v
    <3> HIDE DEF v
    <3>1. <<p, v>> \in Boundaries(d)
          <=> /\ <<p, v>> \in (0 .. Len(d)) \X {LFLF, CRLFCRLF}
              /\ p + Len(v) <= Len(d) /\ SubSeq(d, p + 1, p + Len(v)) = v
      BY DEF Boundaries
    <3>2. <<p, v>> \in (0 .. Len(d)) \X {LFLF, CRLFCRLF} <=> p <= Len(d)
      BY <1>1, <2>1
    <3> QED
      BY <1>1, <2>1, <3>1, <3>2
  <2>3. ASSUME p + n <= Len(d) PROVE u = v <=> \A i \in 1 .. n : d[p + i] = v[i]
    <3>1. \A i \in p + 1 .. p + n : d[i] \in Bytes
      BY <1>1, <2>3
    <3>2. /\ u \in Str /\ Len(u) = IF p + 1 <= p + n THEN (p + n) - (p + 1) + 1 ELSE 0
          /\ \A i \in 1 .. (p + n) - (p + 1) + 1 : u[i] = d[(p + 1) + i - 1]
      BY <3>1, SubSeqProperties DEF Str
    <3> HIDE DEF u, v
    <3>3. Len(u) = n /\ \A i \in 1 .. n : u[i] = d[p + i]
      BY <3>2
    <3>4. u = v <=> \A i \in 1 .. n : u[i] = v[i]
      BY <2>1, <3>2, <3>3, SeqEqual DEF Str
    <3> QED
      BY <3>3, <3>4
  <2> HIDE DEF u
  <2>4. CASE n = 2
    <3>1. (\A i \in 1 .. n : d[p + i] = v[i]) <=> d[p + 1] = "LF" /\ d[p + 2] = "LF"
      BY <1>2, <2>4
    <3> HIDE DEF v
    <3> QED
      BY <2>2, <2>3, <2>4, <3>1 DEF SeparatorAt, v
  <2>5. CASE n = 4
    <3>1. (\A i \in 1 .. n : d[p + i] = v[i])
          <=> d[p + 1] = "CR" /\ d[p + 2] = "LF" /\ d[p + 3] = "CR" /\ d[p + 4] = "LF"
      BY <1>3, <2>5
    <3> HIDE DEF v
    <3> QED
      BY <2>2, <2>3, <2>5, <3>1 DEF SeparatorAt, v
  <2> QED
    BY <2>4, <2>5
<1>5. ASSUME NEW c \in Boundaries(d) PROVE \E p \in Nat, n \in {2, 4} : c = <<p, Separator(n)>>
  <2>1. c \in (0 .. Len(d)) \X {LFLF, CRLFCRLF}
    BY DEF Boundaries
  <2>2. PICK p \in 0 .. Len(d), v \in {LFLF, CRLFCRLF} : c = <<p, v>>
    BY <2>1
  <2> QED
    BY <1>1, <1>2, <1>3, <2>2
<1> QED
  BY <1>4, <1>5

(* Two separators do not begin at one place.                                 *)
LEMMA SeparatorsDiffer ==
  ASSUME NEW d, NEW p, NEW n \in {2, 4}, NEW m \in {2, 4},
         SeparatorAt(d, p, n), SeparatorAt(d, p, m)
  PROVE  m = n
  BY DEF SeparatorAt

(* The earliest of some places of separators.                                *)
LEMMA EarliestIs ==
  ASSUME NEW d \in Str, NEW bs \in SUBSET Boundaries(d)
  PROVE  /\ bs = {} => Earliest(bs) = <<>>
         /\ \A p \in Nat, n \in {2, 4} :
               /\ <<p, Separator(n)>> \in bs
               /\ \A q \in Nat, m \in {2, 4} : <<q, Separator(m)>> \in bs => p <= q
               => Earliest(bs) = <<p, n>>
<1>1. bs = {} => Earliest(bs) = <<>>
  BY DEF Earliest
<1>2. ASSUME NEW p \in Nat, NEW n \in {2, 4}, <<p, Separator(n)>> \in bs,
             \A q \in Nat, m \in {2, 4} : <<q, Separator(m)>> \in bs => p <= q
      PROVE  Earliest(bs) = <<p, n>>
  <2> DEFINE first(b) == b \in bs /\ \A c \in bs : b[1] <= c[1]
             f == CHOOSE b : first(b)
  <2>1. first(<<p, Separator(n)>>)
    <3>1. \A c \in bs : p <= c[1]
      <4> TAKE c \in bs
      <4>1. PICK q \in Nat, m \in {2, 4} : c = <<q, Separator(m)>>
        BY BoundariesAre
      <4> QED
        BY <1>2, <4>1
    <3> QED
      BY <1>2, <3>1
  <2>2. first(f)
    BY <2>1
  <2>3. PICK q \in Nat, m \in {2, 4} : f = <<q, Separator(m)>>
    <3>1. f \in Boundaries(d)
      BY <2>2
    <3> HIDE DEF f
    <3> QED
      BY <3>1, BoundariesAre
  <2>4. q = p
    <3>1. q <= p
      <4>1. \A c \in bs : f[1] <= c[1]
        BY <2>2
      <4> HIDE DEF f
      <4> QED
        BY <1>2, <2>3, <4>1
    <3>2. p <= q
      <4>1. f \in bs
        BY <2>2
      <4> HIDE DEF f
      <4> QED
        BY <1>2, <2>3, <4>1
    <3> QED
      BY <3>1, <3>2
  <2>5. m = n
    <3>1. f \in bs
      BY <2>2
    <3> HIDE DEF f
    <3>2. <<p, Separator(m)>> \in Boundaries(d)
      BY <2>3, <2>4, <3>1
    <3>3. <<p, Separator(n)>> \in Boundaries(d)
      BY <1>2
    <3>4. SeparatorAt(d, p, m)
      BY <3>2, BoundariesAre
    <3>5. SeparatorAt(d, p, n)
      BY <3>3, BoundariesAre
    <3> QED
      BY <3>4, <3>5, SeparatorsDiffer
  <2>6. Len(Separator(n)) = n
    BY DEF Separator, LFLF, CRLFCRLF
  <2>7. Earliest(bs) = <<f[1], Len(f[2])>>
    BY <1>2 DEF Earliest
  <2> HIDE DEF f
  <2> QED
    BY <2>3, <2>4, <2>5, <2>6, <2>7
<1> QED
  BY <1>1, <1>2

(* nextEventBoundary finds the first separator.                              *)
LEMMA NextIsFirst ==
  ASSUME NEW d \in Str
  PROVE  /\ NoSeparator(d) => NextEventBoundary(d) = <<>>
         /\ \A p \in Nat, n \in {2, 4} : FirstAt(d, p, n) => NextEventBoundary(d) = <<p, n>>
         /\ NoSeparator(d) \/ \E p \in Nat, n \in {2, 4} : FirstAt(d, p, n)
<1> DEFINE bs == Boundaries(d)
<1>1. NextEventBoundary(d) = Earliest(bs)
  BY DEF NextEventBoundary
<1>2. /\ \A p \in Nat, n \in {2, 4} : SeparatorAt(d, p, n) <=> <<p, Separator(n)>> \in bs
      /\ \A c \in bs : \E p \in Nat, n \in {2, 4} : c = <<p, Separator(n)>>
  BY BoundariesAre
<1>3. /\ bs = {} => Earliest(bs) = <<>>
      /\ \A p \in Nat, n \in {2, 4} :
            /\ <<p, Separator(n)>> \in bs
            /\ \A q \in Nat, m \in {2, 4} : <<q, Separator(m)>> \in bs => p <= q
            => Earliest(bs) = <<p, n>>
  BY EarliestIs
<1> HIDE DEF bs
<1>4. NoSeparator(d) => bs = {}
  BY <1>2 DEF NoSeparator
<1>5. ASSUME NEW p \in Nat, NEW n \in {2, 4}, FirstAt(d, p, n) PROVE Earliest(bs) = <<p, n>>
  BY <1>2, <1>3, <1>5 DEF FirstAt
<1>6. ASSUME ~NoSeparator(d) PROVE \E p \in Nat, n \in {2, 4} : FirstAt(d, p, n)
  <2> DEFINE places == {p \in Nat : \E n \in {2, 4} : SeparatorAt(d, p, n)}
  <2>1. places # {} /\ places \in SUBSET Nat
    BY <1>6 DEF NoSeparator
  <2>2. PICK p \in places : \A q \in places : p <= q
    <3> HIDE DEF places
    <3> QED
      BY <2>1, SomeLeast
  <2>3. PICK n \in {2, 4} : SeparatorAt(d, p, n)
    BY <2>2
  <2>4. FirstAt(d, p, n)
    BY <2>2, <2>3 DEF FirstAt
  <2> QED
    BY <2>2, <2>4
<1> QED
  BY <1>1, <1>3, <1>4, <1>5, <1>6

(* More bytes leave the separators of a string where they are.               *)
LEMMA SeparatorsOfPrefix ==
  ASSUME NEW s \in Str, NEW x \in Str, NEW p \in Nat, NEW n \in {2, 4}
  PROVE  /\ p + n <= Len(s) => (SeparatorAt(s \o x, p, n) <=> SeparatorAt(s, p, n))
         /\ SeparatorAt(s, p, n) => p + n <= Len(s) /\ SeparatorAt(s \o x, p, n)
<1>1. /\ Len(s) \in Nat /\ Len(x) \in Nat /\ Len(s \o x) = Len(s) + Len(x)
      /\ \A i \in 1 .. Len(s) : (s \o x)[i] = s[i]
  BY Joined DEF Str
<1> DEFINE t == s \o x
<1> HIDE DEF t
<1>2. Len(t) >= Len(s) /\ \A i \in 1 .. Len(s) : t[i] = s[i]
  BY <1>1 DEF t
<1>3. p + n <= Len(s) => (SeparatorAt(t, p, n) <=> SeparatorAt(s, p, n))
  <2>1. CASE n = 2
    BY <1>1, <1>2, <2>1 DEF SeparatorAt, t
  <2>2. CASE n = 4
    BY <1>1, <1>2, <2>2 DEF SeparatorAt, t
  <2> QED
    BY <2>1, <2>2
<1>4. SeparatorAt(s, p, n) => p + n <= Len(s)
  BY DEF SeparatorAt
<1> QED
  BY <1>3, <1>4 DEF t

LEMMA SeparatorsOfSuffix ==
  ASSUME NEW s \in Str, NEW k \in 0 .. Len(s), NEW p \in Nat, NEW n \in {2, 4}
  PROVE  SeparatorAt(Drop(s, k), p, n) <=> SeparatorAt(s, k + p, n)
<1>1. /\ Len(s) \in Nat /\ Len(Drop(s, k)) = Len(s) - k
      /\ \A i \in 1 .. Len(s) - k : Drop(s, k)[i] = s[k + i]
  BY Pieces, LenProperties DEF Str
<1> DEFINE t == Drop(s, k)
<1> HIDE DEF t
<1>2. /\ Len(t) = Len(s) - k
      /\ \A i \in 1 .. Len(s) - k : t[i] = s[k + i]
  BY <1>1 DEF t
<1>3. ASSUME p + n <= Len(t) PROVE SeparatorAt(t, p, n) <=> SeparatorAt(s, k + p, n)
  <2>1. CASE n = 2
    <3>1. t[p + 1] = s[k + p + 1] /\ t[p + 2] = s[k + p + 2]
      BY <1>1, <1>2, <1>3, <2>1
    <3> QED
      BY <1>1, <1>2, <1>3, <2>1, <3>1 DEF SeparatorAt
  <2>2. CASE n = 4
    <3>1. /\ t[p + 1] = s[k + p + 1] /\ t[p + 2] = s[k + p + 2]
          /\ t[p + 3] = s[k + p + 3] /\ t[p + 4] = s[k + p + 4]
      <4>1. \A i \in 1 .. 4 : p + i \in 1 .. Len(s) - k /\ k + (p + i) = k + p + i
        BY <1>1, <1>2, <1>3, <2>2
      <4>2. \A i \in 1 .. 4 : t[p + i] = s[k + p + i]
        BY <1>2, <4>1
      <4> QED
        BY <4>2
    <3> QED
      BY <1>1, <1>2, <1>3, <2>2, <3>1 DEF SeparatorAt
  <2> QED
    BY <2>1, <2>2
<1>4. ASSUME ~(p + n <= Len(t)) PROVE ~SeparatorAt(t, p, n) /\ ~SeparatorAt(s, k + p, n)
  BY <1>1, <1>2, <1>4 DEF SeparatorAt
<1> QED
  BY <1>3, <1>4 DEF t

(* More bytes leave the first separator the first one: two separators do not *)
(* overlap unless they begin with the same line end.                         *)
LEMMA FirstExtends ==
  ASSUME NEW s \in Str, NEW x \in Str, NEW p \in Nat, NEW n \in {2, 4}, FirstAt(s, p, n)
  PROVE  FirstAt(s \o x, p, n)
<1>1. SeparatorAt(s, p, n) /\ p + n <= Len(s) /\ SeparatorAt(s \o x, p, n)
  BY SeparatorsOfPrefix DEF FirstAt
<1>2. ASSUME NEW q \in Nat, NEW m \in {2, 4}, SeparatorAt(s \o x, q, m) PROVE p <= q
  <2> SUFFICES ASSUME q < p PROVE FALSE
    OBVIOUS
  <2>1. CASE q + m <= Len(s)
    <3>1. SeparatorAt(s, q, m)
      BY <1>2, <2>1, SeparatorsOfPrefix
    <3> QED
      BY <3>1 DEF FirstAt
  <2>2. CASE ~(q + m <= Len(s))
    <3> DEFINE t == s \o x
    <3> HIDE DEF t
    <3>1. Len(s) \in Nat
      BY LenProperties DEF Str
    <3>2. m = 4 /\ n = 2 /\ (p = q + 1 \/ p = q + 2)
      BY <1>1, <2>2, <3>1
    <3>3. t[q + 1] = "CR" /\ t[q + 2] = "LF" /\ t[q + 3] = "CR" /\ t[q + 4] = "LF"
      BY <1>2, <3>2 DEF SeparatorAt, t
    <3>4. t[p + 1] = "LF" /\ t[p + 2] = "LF"
      BY <1>1, <3>2 DEF SeparatorAt, t
    <3>5. CASE p = q + 1
      <4>1. p + 2 = q + 3
        BY <3>5
      <4>2. t[q + 3] = "LF"
        BY <3>4, <4>1
      <4> QED
        BY <3>3, <4>2
    <3>6. CASE p = q + 2
      <4>1. p + 1 = q + 3
        BY <3>6
      <4>2. t[q + 3] = "LF"
        BY <3>4, <4>1
      <4> QED
        BY <3>3, <4>2
    <3> QED
      BY <3>2, <3>5, <3>6
  <2> QED
    BY <2>1, <2>2
<1> QED
  BY <1>1, <1>2 DEF FirstAt

(* The first separator of a string that joins one without a separator to     *)
(* another lies across or beyond the join.                                   *)
LEMMA FirstAcrossJoin ==
  ASSUME NEW r \in Str, NEW d \in Str, NoSeparator(r), NEW p \in Nat, NEW n \in {2, 4},
         FirstAt(r \o d, p, n)
  PROVE  /\ Len(r) < p + n /\ p + n <= Len(r) + Len(d) /\ Len(r) - BoundaryTail <= p
         /\ p + n - Len(r) \in 1 .. Len(d)
         /\ FirstAt(r \o Take(d, p + n - Len(r)), p, n)
<1>1. Len(r) \in Nat /\ Len(d) \in Nat /\ Len(r \o d) = Len(r) + Len(d) /\ r \o d \in Str
  BY Joined DEF Str
<1>2. p + n <= Len(r) + Len(d)
  BY <1>1 DEF FirstAt, SeparatorAt
<1>3. Len(r) < p + n
  <2>1. ~SeparatorAt(r, p, n)
    BY DEF NoSeparator
  <2>2. SeparatorAt(r \o d, p, n)
    BY DEF FirstAt
  <2> QED
    BY <1>1, <2>1, <2>2, SeparatorsOfPrefix
<1> DEFINE k == p + n - Len(r)
           s == r \o Take(d, k)
           x == Drop(d, k)
<1>4. k \in 1 .. Len(d) /\ k \in 0 .. Len(d)
  BY <1>1, <1>2, <1>3
<1> HIDE DEF k
<1>5. Take(d, k) \in Str /\ x \in Str /\ Len(Take(d, k)) = k /\ d = Take(d, k) \o x
  BY <1>4, Pieces DEF Str
<1>6. s \in Str /\ Len(s) = Len(r) + k
  BY <1>5, Joined DEF Str
<1>7. r \o d = s \o x
  <2> DEFINE u == Take(d, k)
  <2>1. u \in Seq(Bytes) /\ x \in Seq(Bytes) /\ r \in Seq(Bytes) /\ d = u \o x
    BY <1>5 DEF Str
  <2> HIDE DEF u, x
  <2>2. (r \o u) \o x = r \o (u \o x)
    BY <2>1, ConcatAssociative
  <2> QED
    BY <2>1, <2>2 DEF u
<1> HIDE DEF s, x
<1>8. p + n <= Len(s)
  BY <1>1, <1>4, <1>6 DEF k
<1>9. SeparatorAt(s, p, n)
  BY <1>5, <1>6, <1>7, <1>8, SeparatorsOfPrefix DEF FirstAt
<1>10. ASSUME NEW q \in Nat, NEW m \in {2, 4}, SeparatorAt(s, q, m) PROVE p <= q
  <2>1. SeparatorAt(s \o x, q, m)
    BY <1>5, <1>6, <1>10, SeparatorsOfPrefix
  <2> QED
    BY <1>7, <2>1 DEF FirstAt
<1>11. FirstAt(s, p, n)
  BY <1>9, <1>10 DEF FirstAt
<1>12. Len(r) - BoundaryTail <= p
  BY <1>1, <1>3 DEF BoundaryTail
<1> QED
  BY <1>2, <1>3, <1>4, <1>11, <1>12 DEF k, s

(* nextJoinedEventBoundary finds it with the last three bytes before the join. *)
LEMMA JoinedIsFirst ==
  ASSUME NEW r \in Str, NEW d \in Str, NoSeparator(r), NEW k \in 0 .. Len(r),
         k = 0 \/ k <= Len(r) - BoundaryTail
  PROVE  /\ NoSeparator(r \o d) => NextJoinedEventBoundary(Drop(r, k), d) = <<>>
         /\ \A p \in Nat, n \in {2, 4} : FirstAt(r \o d, p, n) =>
               /\ NextJoinedEventBoundary(Drop(r, k), d) = <<p - k, n>>
               /\ DataOffsetAfterBoundary(Len(r) - k, <<p - k, n>>) = p + n - Len(r)
<1> DEFINE t == Drop(r, k)
           j == r \o d
           tj == t \o d
           bs == {b \in Boundaries(tj) : /\ b[1] >= Len(t) - BoundaryTail
                                         /\ b[1] + Len(b[2]) > Len(t)}
<1>1. Len(r) \in Nat /\ Len(d) \in Nat /\ j \in Str /\ Len(j) = Len(r) + Len(d)
  BY Joined DEF Str
<1>2. t \in Str /\ Len(t) = Len(r) - k
  BY Pieces DEF Str
<1>3. tj \in Str /\ tj = Drop(j, k) /\ k \in 0 .. Len(j)
  <2>1. k \in 0 .. Len(j)
    BY <1>1
  <2>2. Drop(j, k) = tj
    BY TakeDropJoined DEF Str
  <2> QED
    BY <1>2, <2>1, <2>2, Joined DEF Str
<1>4. NextJoinedEventBoundary(t, d) = Earliest(bs)
  BY DEF NextJoinedEventBoundary
<1>5. /\ bs = {} => Earliest(bs) = <<>>
      /\ \A p \in Nat, n \in {2, 4} :
            /\ <<p, Separator(n)>> \in bs
            /\ \A q \in Nat, m \in {2, 4} : <<q, Separator(m)>> \in bs => p <= q
            => Earliest(bs) = <<p, n>>
  <2>1. bs \in SUBSET Boundaries(tj)
    OBVIOUS
  <2> HIDE DEF bs, tj
  <2> QED
    BY <1>3, <2>1, EarliestIs
<1>6. \A q \in Nat, m \in {2, 4} : SeparatorAt(tj, q, m) <=> SeparatorAt(j, k + q, m)
  <2> HIDE DEF j, tj
  <2> QED
    BY <1>1, <1>3, SeparatorsOfSuffix
<1>7. \A q \in Nat, m \in {2, 4} :
         <<q, Separator(m)>> \in bs
         <=> SeparatorAt(j, k + q, m) /\ q >= Len(t) - BoundaryTail /\ q + m > Len(t)
  <2> TAKE q \in Nat, m \in {2, 4}
  <2>1. Len(Separator(m)) = m
    BY DEF Separator, LFLF, CRLFCRLF
  <2>2. SeparatorAt(tj, q, m) <=> <<q, Separator(m)>> \in Boundaries(tj)
    <3> HIDE DEF tj
    <3> QED
      BY <1>3, BoundariesAre
  <2> HIDE DEF t, tj, j
  <2> QED
    BY <1>6, <2>1, <2>2
<1>8. \A c \in bs : \E q \in Nat, m \in {2, 4} : c = <<q, Separator(m)>>
  <2>1. \A c \in bs : c \in Boundaries(tj)
    OBVIOUS
  <2> HIDE DEF bs, tj
  <2> QED
    BY <1>3, <2>1, BoundariesAre
<1> HIDE DEF bs, t, tj, j
<1>9. ASSUME NoSeparator(j) PROVE NextJoinedEventBoundary(t, d) = <<>>
  <2>1. ASSUME NEW q \in Nat, NEW m \in {2, 4} PROVE <<q, Separator(m)>> \notin bs
    <3>1. k + q \in Nat
      OBVIOUS
    <3>2. ~SeparatorAt(j, k + q, m)
      BY <1>9, <3>1 DEF NoSeparator
    <3> QED
      BY <1>7, <3>2
  <2>2. bs = {}
    BY <1>8, <2>1
  <2> QED
    BY <1>4, <1>5, <2>2
<1>10. ASSUME NEW p \in Nat, NEW n \in {2, 4}, FirstAt(j, p, n)
       PROVE  /\ NextJoinedEventBoundary(t, d) = <<p - k, n>>
              /\ DataOffsetAfterBoundary(Len(r) - k, <<p - k, n>>) = p + n - Len(r)
  <2>1. Len(r) < p + n /\ p + n <= Len(r) + Len(d) /\ Len(r) - BoundaryTail <= p
    BY <1>10, FirstAcrossJoin DEF j
  <2>2. p - k \in Nat /\ k \in Nat /\ p = k + (p - k)
    BY <1>1, <2>1 DEF BoundaryTail
  <2>3. <<p - k, Separator(n)>> \in bs
    <3>1. SeparatorAt(j, p, n)
      BY <1>10 DEF FirstAt
    <3> DEFINE q == p - k
    <3>2. q \in Nat /\ k + q = p
      BY <2>2
    <3>3. q >= Len(t) - BoundaryTail /\ q + n > Len(t)
      BY <1>1, <1>2, <2>1, <2>2 DEF BoundaryTail
    <3> HIDE DEF q
    <3>4. <<q, Separator(n)>> \in bs
      BY <1>7, <3>1, <3>2, <3>3
    <3> QED
      BY <3>4 DEF q
  <2>4. \A q \in Nat, m \in {2, 4} : <<q, Separator(m)>> \in bs => p - k <= q
    <3> TAKE q \in Nat, m \in {2, 4}
    <3> HAVE <<q, Separator(m)>> \in bs
    <3>1. SeparatorAt(j, k + q, m)
      BY <1>7
    <3>2. k + q \in Nat
      OBVIOUS
    <3>3. p <= k + q
      BY <1>10, <3>1, <3>2 DEF FirstAt
    <3> QED
      BY <2>2, <3>3
  <2>5. NextJoinedEventBoundary(t, d) = <<p - k, n>>
    BY <1>4, <1>5, <2>2, <2>3, <2>4
  <2>6. DataOffsetAfterBoundary(Len(r) - k, <<p - k, n>>) = p + n - Len(r)
    BY <1>1, <2>1, <2>2 DEF DataOffsetAfterBoundary
  <2> QED
    BY <2>5, <2>6
<1> QED
  BY <1>9, <1>10 DEF t, j

-----------------------------------------------------------------------------
(* The events of a string.                                                   *)

(* What follows an event of a string is shorter than the string.             *)
LEMMA RestIsShorter ==
  ASSUME NEW d \in Str, NextEventBoundary(d) # <<>>
  PROVE  LET b == NextEventBoundary(d) IN
         /\ Take(d, b[1]) \in Str
         /\ Drop(d, b[1] + b[2]) \in Str /\ Len(Drop(d, b[1] + b[2])) < Len(d)
<1>1. PICK p \in Nat, n \in {2, 4} : FirstAt(d, p, n)
  BY NextIsFirst
<1>2. NextEventBoundary(d) = <<p, n>>
  BY <1>1, NextIsFirst
<1>3. p + n <= Len(d) /\ Len(d) \in Nat
  BY <1>1, LenProperties DEF FirstAt, SeparatorAt, Str
<1>4. p \in 0 .. Len(d) /\ p + n \in 0 .. Len(d) /\ p + n > 0
  BY <1>3
<1>5. Take(d, p) \in Str /\ Drop(d, p + n) \in Str /\ Len(Drop(d, p + n)) = Len(d) - (p + n)
  BY <1>4, Pieces DEF Str
<1> QED
  BY <1>2, <1>3, <1>4, <1>5

(* The equation of SplitEvents.                                              *)
SplitOf(f, d) ==
  LET b == NextEventBoundary(d)
  IN IF b = <<>> THEN <<d>> ELSE <<Take(d, b[1])>> \o f[Drop(d, b[1] + b[2])]

IsSplit(f, dom) == f = [d \in dom |-> SplitOf(f, d)]

ShortStrings(n) == {d \in Str : Len(d) <= n}

SplitsShort(f, n) == IsSplit(f, ShortStrings(n)) /\ f \in [ShortStrings(n) -> Seq(Str)]

LEMMA SplitOfRest ==
  ASSUME NEW d \in Str, NEW f, NEW g,
         \A e \in Str : Len(e) < Len(d) => f[e] = g[e] /\ f[e] \in Seq(Str)
  PROVE  SplitOf(f, d) = SplitOf(g, d) /\ SplitOf(f, d) \in Seq(Str)
<1> DEFINE b == NextEventBoundary(d)
<1>1. CASE b = <<>>
  BY <1>1 DEF SplitOf
<1>2. CASE b # <<>>
  <2> DEFINE e == Drop(d, b[1] + b[2])
             h == Take(d, b[1])
  <2>1. h \in Str /\ e \in Str /\ Len(e) < Len(d)
    BY <1>2, RestIsShorter
  <2>2. SplitOf(f, d) = <<h>> \o f[e] /\ SplitOf(g, d) = <<h>> \o g[e]
    BY <1>2 DEF SplitOf
  <2> HIDE DEF e, h
  <2>3. f[e] = g[e] /\ f[e] \in Seq(Str) /\ <<h>> \in Seq(Str)
    BY <2>1
  <2>4. <<h>> \o f[e] \in Seq(Str)
    BY <2>3, ConcatProperties
  <2> QED
    BY <2>2, <2>3, <2>4
<1> QED
  BY <1>1, <1>2

LEMMA ShortSplitsExist ==
  ASSUME NEW n \in Nat
  PROVE  \E f : SplitsShort(f, n)
<1> DEFINE none == {m \in Nat : ~ \E f : SplitsShort(f, m)}
<1>1. none = {}
  <2> SUFFICES ASSUME none # {} PROVE FALSE
    OBVIOUS
  <2>1. PICK m \in none : \A k \in none : m <= k
    <3>1. none \in SUBSET Nat
      OBVIOUS
    <3> HIDE DEF none
    <3> QED
      BY <3>1, SomeLeast
  <2>2. PICK g : \A e \in Str : Len(e) < m => SplitOf(g, e) = g[e] /\ g[e] \in Seq(Str)
    <3>1. CASE m = 0
      <4>1. \A e \in Str : ~(Len(e) < m)
        BY <3>1, LenProperties DEF Str
      <4> QED
        BY <4>1
    <3>2. CASE m # 0
      <4>1. m - 1 \in Nat /\ m - 1 \notin none
        BY <2>1, <3>2
      <4>2. PICK f : SplitsShort(f, m - 1)
        BY <4>1
      <4>3. ASSUME NEW e \in Str, Len(e) < m PROVE SplitOf(f, e) = f[e] /\ f[e] \in Seq(Str)
        <5>1. e \in ShortStrings(m - 1)
          BY <2>1, <4>3, LenProperties DEF ShortStrings, Str
        <5> QED
          BY <4>2, <5>1 DEF SplitsShort, IsSplit
      <4> QED
        BY <4>3
    <3> QED
      BY <3>1, <3>2
  <2> DEFINE h == [d \in ShortStrings(m) |-> SplitOf(g, d)]
  <2>3. ASSUME NEW d \in Str, Len(d) <= m
        PROVE  \A e \in Str : Len(e) < Len(d) => g[e] = h[e] /\ g[e] \in Seq(Str)
    <3> TAKE e \in Str
    <3> HAVE Len(e) < Len(d)
    <3>1. Len(e) < m /\ Len(e) <= m
      BY <2>1, <2>3, LenProperties DEF Str
    <3>2. h[e] = SplitOf(g, e)
      BY <3>1 DEF ShortStrings
    <3> QED
      BY <2>2, <3>1, <3>2
  <2>4. ASSUME NEW d \in ShortStrings(m)
        PROVE  SplitOf(g, d) = SplitOf(h, d) /\ SplitOf(g, d) \in Seq(Str)
    <3>1. d \in Str /\ Len(d) <= m
      BY DEF ShortStrings
    <3>2. \A e \in Str : Len(e) < Len(d) => g[e] = h[e] /\ g[e] \in Seq(Str)
      BY <2>3, <3>1
    <3> HIDE DEF h
    <3> QED
      BY <3>1, <3>2, SplitOfRest
  <2>5. h = [d \in ShortStrings(m) |-> SplitOf(h, d)]
    BY <2>4
  <2>6. h \in [ShortStrings(m) -> Seq(Str)]
    BY <2>4
  <2> HIDE DEF h
  <2>7. SplitsShort(h, m)
    BY <2>5, <2>6 DEF SplitsShort, IsSplit
  <2> QED
    BY <2>1, <2>7
<1> QED
  BY <1>1

LEMMA ShortSplitsAgree ==
  ASSUME NEW n \in Nat, NEW m \in Nat, NEW f, NEW g, SplitsShort(f, n), SplitsShort(g, m),
         NEW d \in Str, Len(d) <= n, Len(d) <= m
  PROVE  f[d] = g[d]
<1> DEFINE bad == {k \in Nat : \E e \in Str : /\ Len(e) = k /\ Len(e) <= n /\ Len(e) <= m
                                              /\ f[e] # g[e]}
<1>1. bad = {}
  <2> SUFFICES ASSUME bad # {} PROVE FALSE
    OBVIOUS
  <2>1. PICK k \in bad : \A j \in bad : k <= j
    <3>1. bad \in SUBSET Nat
      OBVIOUS
    <3> HIDE DEF bad
    <3> QED
      BY <3>1, SomeLeast
  <2>2. PICK e \in Str : Len(e) = k /\ Len(e) <= n /\ Len(e) <= m /\ f[e] # g[e]
    BY <2>1
  <2>3. \A c \in Str : Len(c) < Len(e) => f[c] = g[c] /\ f[c] \in Seq(Str)
    <3> TAKE c \in Str
    <3> HAVE Len(c) < Len(e)
    <3>1. Len(c) \in Nat /\ Len(c) <= n /\ Len(c) <= m /\ ~(k <= Len(c)) /\ k \in Nat
      BY <2>1, <2>2, LenProperties DEF Str
    <3>2. Len(c) \notin bad
      BY <2>1, <3>1
    <3>3. f[c] = g[c]
      BY <3>1, <3>2
    <3> QED
      BY <3>1, <3>3 DEF SplitsShort, ShortStrings
  <2>4. f[e] = SplitOf(f, e) /\ g[e] = SplitOf(g, e)
    BY <2>2 DEF SplitsShort, IsSplit, ShortStrings
  <2> QED
    BY <2>2, <2>3, <2>4, SplitOfRest
<1> QED
  BY <1>1, LenProperties DEF Str

(* SplitEvents satisfies its equation.                                       *)
LEMMA SplitIs ==
  SplitEvents = [d \in Str |-> SplitOf(SplitEvents, d)] /\ SplitEvents \in [Str -> Seq(Str)]
<1> DEFINE short(n) == CHOOSE f : SplitsShort(f, n)
           F == [d \in Str |-> short(Len(d))[d]]
<1>1. \A n \in Nat : SplitsShort(short(n), n)
  BY ShortSplitsExist
<1>2. \A d \in Str : F[d] = short(Len(d))[d] /\ Len(d) \in Nat
  BY LenProperties DEF Str
<1>3. F = [d \in Str |-> F[d]]
  OBVIOUS
<1> HIDE DEF short, F
<1>4. ASSUME NEW d \in Str
      PROVE  /\ F[d] = SplitOf(F, d) /\ F[d] \in Seq(Str)
  <2> DEFINE f == short(Len(d))
  <2>1. SplitsShort(f, Len(d)) /\ Len(d) \in Nat
    BY <1>1, <1>2
  <2>2. F[d] = f[d] /\ f[d] = SplitOf(f, d) /\ f[d] \in Seq(Str)
    <3> HIDE DEF f
    <3>1. d \in ShortStrings(Len(d))
      BY <2>1 DEF ShortStrings
    <3>2. f[d] = SplitOf(f, d) /\ f[d] \in Seq(Str)
      BY <2>1, <3>1 DEF SplitsShort, IsSplit
    <3> QED
      BY <1>2, <3>2 DEF f
  <2> HIDE DEF f
  <2>3. \A e \in Str : Len(e) < Len(d) => f[e] = F[e] /\ f[e] \in Seq(Str)
    <3> TAKE e \in Str
    <3> HAVE Len(e) < Len(d)
    <3>1. Len(e) \in Nat /\ Len(e) <= Len(e) /\ Len(e) <= Len(d)
      BY <1>2, <2>1
    <3>2. SplitsShort(short(Len(e)), Len(e))
      BY <1>1, <3>1
    <3>3. f[e] = short(Len(e))[e]
      BY <2>1, <3>1, <3>2, ShortSplitsAgree
    <3>4. f[e] \in Seq(Str)
      <4>1. e \in ShortStrings(Len(d))
        BY <3>1 DEF ShortStrings
      <4> QED
        BY <2>1, <4>1 DEF SplitsShort
    <3> QED
      BY <1>2, <3>3, <3>4
  <2>4. SplitOf(f, d) = SplitOf(F, d)
    BY <2>3, SplitOfRest
  <2> QED
    BY <2>2, <2>4
<1>5. F = [d \in Str |-> SplitOf(F, d)] /\ F \in [Str -> Seq(Str)]
  BY <1>3, <1>4
<1>6. SplitEvents = CHOOSE f : f = [d \in Str |-> SplitOf(f, d)]
  BY DEF SplitEvents, SplitOf, Str
<1> DEFINE Is(f) == f = [d \in Str |-> SplitOf(f, d)]
<1>7. Is(SplitEvents)
  <2>1. Is(F)
    BY <1>5
  <2>2. SplitEvents = CHOOSE f : Is(f)
    BY <1>6
  <2> HIDE DEF Is
  <2> QED
    BY <2>1, <2>2
<1>8. SplitEvents \in [Str -> Seq(Str)]
  <2> DEFINE bad == {k \in Nat : \E e \in Str : Len(e) = k /\ SplitEvents[e] \notin Seq(Str)}
  <2>1. bad = {}
    <3> SUFFICES ASSUME bad # {} PROVE FALSE
      OBVIOUS
    <3>1. PICK k \in bad : \A j \in bad : k <= j
      <4>1. bad \in SUBSET Nat
        OBVIOUS
      <4> HIDE DEF bad
      <4> QED
        BY <4>1, SomeLeast
    <3>2. PICK e \in Str : Len(e) = k /\ SplitEvents[e] \notin Seq(Str)
      BY <3>1
    <3>3. \A c \in Str : Len(c) < Len(e) => SplitEvents[c] \in Seq(Str)
      BY <1>2, <3>1, <3>2
    <3>4. SplitOf(SplitEvents, e) \in Seq(Str)
      BY <3>3, SplitOfRest
    <3>5. SplitEvents[e] = SplitOf(SplitEvents, e)
      BY <1>7
    <3> QED
      BY <3>2, <3>4, <3>5
  <2>2. \A d \in Str : SplitEvents[d] \in Seq(Str)
    BY <1>2, <2>1
  <2> QED
    BY <1>7, <2>2
<1> QED
  BY <1>7, <1>8

(* The events E of the bytes D are complete and R is what follows them,      *)
(* whatever comes next.                                                      *)
Parsed(D, E, R) ==
  /\ D \in Str /\ E \in Seq(Str) /\ R \in Str /\ NoSeparator(R)
  /\ \A x \in Str : SplitEvents[D \o x] = E \o SplitEvents[R \o x]

LEMMA NothingParsed == Parsed(<<>>, <<>>, <<>>)
<1>1. <<>> \in Str /\ <<>> \in Seq(Str)
  BY EmptySeq DEF Str
<1>2. NoSeparator(<<>>)
  <2>1. Len(<<>>) = 0
    OBVIOUS
  <2> QED
    BY <2>1 DEF NoSeparator, SeparatorAt
<1>3. \A x \in Str : SplitEvents[<<>> \o x] = <<>> \o SplitEvents[<<>> \o x]
  <2> TAKE x \in Str
  <2>1. <<>> \o x = x
    BY ConcatEmptySeq DEF Str
  <2>2. SplitEvents[x] \in Seq(Str)
    BY SplitIs
  <2> QED
    BY <2>1, <2>2, ConcatEmptySeq
<1> QED
  BY <1>1, <1>2, <1>3 DEF Parsed

LEMMA StrJoins ==
  ASSUME NEW s \in Str, NEW t \in Str
  PROVE  s \o t \in Str
  BY ConcatProperties DEF Str

LEMMA StrAssociates ==
  ASSUME NEW s \in Str, NEW t \in Str, NEW u \in Str
  PROVE  (s \o t) \o u = s \o (t \o u)
  BY ConcatAssociative DEF Str

(* Bytes without a separator prolong what follows the events.                *)
LEMMA ParsedGrows ==
  ASSUME NEW D, NEW E, NEW R, Parsed(D, E, R), NEW d \in Str, NoSeparator(R \o d)
  PROVE  Parsed(D \o d, E, R \o d)
<1>1. D \in Str /\ E \in Seq(Str) /\ R \in Str
  BY DEF Parsed
<1>2. D \o d \in Str /\ R \o d \in Str
  BY <1>1, StrJoins
<1>3. ASSUME NEW x \in Str PROVE SplitEvents[(D \o d) \o x] = E \o SplitEvents[(R \o d) \o x]
  <2>1. d \o x \in Str
    BY StrJoins
  <2>2. SplitEvents[D \o (d \o x)] = E \o SplitEvents[R \o (d \o x)]
    BY <2>1 DEF Parsed
  <2>3. (D \o d) \o x = D \o (d \o x)
    BY <1>1, StrAssociates
  <2>4. (R \o d) \o x = R \o (d \o x)
    BY <1>1, StrAssociates
  <2> QED
    BY <2>2, <2>3, <2>4
<1> QED
  BY <1>1, <1>2, <1>3 DEF Parsed

(* The first separator after them ends the next event.                       *)
LEMMA ParsedEvent ==
  ASSUME NEW D, NEW E, NEW R, Parsed(D, E, R), NEW d \in Str,
         NEW p \in Nat, NEW n \in {2, 4}, FirstAt(R \o d, p, n)
  PROVE  LET k == p + n - Len(R) IN
         /\ k \in 1 .. Len(d)
         /\ Take(R \o d, p) \in Str /\ Len(Take(R \o d, p)) = p
         /\ Parsed(D \o Take(d, k), Append(E, Take(R \o d, p)), <<>>)
<1> DEFINE k == p + n - Len(R)
           c == Take(d, k)
           y == Drop(d, k)
           event == Take(R \o d, p)
           s == R \o c
<1>1. D \in Str /\ E \in Seq(Str) /\ R \in Str /\ NoSeparator(R)
  BY DEF Parsed
<1>2. k \in 1 .. Len(d) /\ FirstAt(s, p, n)
  BY <1>1, FirstAcrossJoin
<1>3. c \in Str /\ Len(c) = k /\ y \in Str /\ d = c \o y
  <2>1. k \in 0 .. Len(d)
    BY <1>2
  <2> HIDE DEF k
  <2> QED
    BY <2>1, Pieces DEF Str
<1>4. s \in Str /\ Len(s) = p + n /\ Len(R) \in Nat
  <2>1. s \in Str /\ Len(s) = Len(R) + Len(c) /\ Len(R) \in Nat
    BY <1>1, <1>3, Joined DEF Str
  <2> QED
    BY <1>3, <2>1
<1>5. p \in 0 .. Len(s) /\ p + n \in 0 .. Len(s)
  BY <1>4
<1>6. R \o d = s \o y
  <2> HIDE DEF c, y
  <2>1. (R \o c) \o y = R \o (c \o y)
    BY <1>1, <1>3, StrAssociates
  <2> QED
    BY <1>3, <2>1
<1> HIDE DEF k, y
<1>7. event = Take(s, p) /\ event \in Str /\ Len(event) = p
  <2> HIDE DEF s
  <2>1. \A i \in 0 .. Len(s) : Take(s \o y, i) = Take(s, i)
    BY <1>3, <1>4, TakeDropJoined DEF Str
  <2>2. Take(s, p) \in Str /\ Len(Take(s, p)) = p
    BY <1>4, <1>5, Pieces DEF Str
  <2> QED
    BY <1>5, <1>6, <2>1, <2>2
<1> HIDE DEF c, event
<1>8. ASSUME NEW x \in Str PROVE SplitEvents[s \o x] = <<event>> \o SplitEvents[x]
  <2> HIDE DEF s
  <2>1. s \o x \in Str
    BY <1>4, StrJoins
  <2>2. NextEventBoundary(s \o x) = <<p, n>>
    <3>1. FirstAt(s \o x, p, n)
      BY <1>2, <1>4, FirstExtends
    <3> QED
      BY <2>1, <3>1, NextIsFirst
  <2>3. Take(s \o x, p) = event
    BY <1>4, <1>5, <1>7, TakeDropJoined DEF Str
  <2>4. Drop(s \o x, p + n) = x
    BY <1>4, TakeDropJoined DEF Str
  <2>5. SplitEvents[s \o x] = SplitOf(SplitEvents, s \o x)
    BY <2>1, SplitIs
  <2> QED
    BY <2>2, <2>3, <2>4, <2>5 DEF SplitOf
<1>9. ASSUME NEW x \in Str
      PROVE  SplitEvents[(D \o c) \o x] = Append(E, event) \o SplitEvents[<<>> \o x]
  <2>1. c \o x \in Str /\ (D \o c) \o x = D \o (c \o x) /\ s \o x = R \o (c \o x)
    <3>1. c \o x \in Str
      BY <1>3, StrJoins
    <3>2. D \in Str /\ R \in Str /\ c \in Str
      BY <1>1, <1>3
    <3>3. (D \o c) \o x = D \o (c \o x)
      BY <3>2, StrAssociates
    <3>4. (R \o c) \o x = R \o (c \o x)
      BY <3>2, StrAssociates
    <3> QED
      BY <3>1, <3>3, <3>4
  <2>2. SplitEvents[D \o (c \o x)] = E \o SplitEvents[R \o (c \o x)]
    BY <2>1 DEF Parsed
  <2> HIDE DEF s
  <2>3. SplitEvents[(D \o c) \o x] = E \o (<<event>> \o SplitEvents[x])
    BY <1>8, <2>1, <2>2
  <2>4. <<>> \o x = x /\ SplitEvents[x] \in Seq(Str) /\ <<event>> \in Seq(Str)
    BY <1>7, SplitIs, ConcatEmptySeq DEF Str
  <2>5. E \o (<<event>> \o SplitEvents[x]) = (E \o <<event>>) \o SplitEvents[x]
    <3> DEFINE u == <<event>>
               v == SplitEvents[x]
    <3>1. u \in Seq(Str) /\ v \in Seq(Str)
      BY <2>4
    <3> HIDE DEF u, v
    <3>2. (E \o u) \o v = E \o (u \o v)
      BY <1>1, <3>1, ConcatAssociative
    <3> QED
      BY <3>2 DEF u, v
  <2>6. E \o <<event>> = Append(E, event)
    BY <1>1, <1>7, AppendIsConcat
  <2> QED
    BY <2>3, <2>4, <2>5, <2>6
<1>10. Append(E, event) \in Seq(Str)
  BY <1>1, <1>7, AppendProperties
<1>11. D \o c \in Str
  BY <1>1, <1>3, StrJoins
<1>12. <<>> \in Str /\ NoSeparator(<<>>)
  BY NothingParsed DEF Parsed
<1> HIDE DEF s
<1>13. Parsed(D \o c, Append(E, event), <<>>)
  BY <1>9, <1>10, <1>11, <1>12 DEF Parsed
<1> QED
  BY <1>2, <1>7, <1>13 DEF k, c, event

(* At the end, what follows the events is the last one.                      *)
LEMMA ParsedEnd ==
  ASSUME NEW D, NEW E, NEW R, Parsed(D, E, R)
  PROVE  SplitEvents[D] = Append(E, R)
<1>1. D \in Str /\ E \in Seq(Str) /\ R \in Str /\ NoSeparator(R) /\ <<>> \in Str
  BY EmptySeq DEF Parsed, Str
<1>2. D \o <<>> = D /\ R \o <<>> = R
  BY <1>1, ConcatEmptySeq DEF Str
<1>3. SplitEvents[D] = E \o SplitEvents[R]
  BY <1>1, <1>2 DEF Parsed
<1>4. SplitEvents[R] = <<R>>
  <2>1. NextEventBoundary(R) = <<>>
    BY <1>1, NextIsFirst
  <2>2. SplitEvents[R] = SplitOf(SplitEvents, R)
    BY <1>1, SplitIs
  <2> QED
    BY <2>1, <2>2 DEF SplitOf
<1> QED
  BY <1>1, <1>3, <1>4, AppendIsConcat

(* What is seen of no events, of an event that need not be seen, and of one  *)
(* that is.                                                                  *)
LEMMA NothingShown == ShowsEvents(<<>>, <<>>)
<1> DEFINE m == [i \in {} |-> i]
<1>1. DOMAIN <<>> = {}
  OBVIOUS
<1>2. m \in [{} -> {}]
  OBVIOUS
<1> QED
  BY <1>1, <1>2 DEF ShowsEvents

LEMMA ShownUnseen ==
  ASSUME NEW seen \in Seq(Str), NEW E \in Seq(Str), NEW e \in Str, ShowsEvents(seen, E),
         e = <<>> \/ ~(Len(e) <= MaxPending - BoundaryTail)
  PROVE  ShowsEvents(seen, Append(E, e))
<1>1. PICK m \in [DOMAIN seen -> DOMAIN E] :
        /\ \A i, j \in DOMAIN seen : i < j => m[i] < m[j]
        /\ \A i \in DOMAIN seen : /\ seen[i] = E[m[i]]
                                  /\ seen[i] # <<>> /\ Len(seen[i]) <= MaxPending
        /\ \A k \in DOMAIN E :
              E[k] # <<>> /\ Len(E[k]) <= MaxPending - BoundaryTail =>
                 \E i \in DOMAIN seen : m[i] = k
  BY DEF ShowsEvents
<1> DEFINE F == Append(E, e)
<1>2. /\ DOMAIN E = 1 .. Len(E) /\ Len(E) \in Nat /\ DOMAIN F = 1 .. Len(E) + 1
      /\ F[Len(E) + 1] = e /\ \A i \in 1 .. Len(E) : F[i] = E[i]
  BY AppendProperties, LenProperties
<1> HIDE DEF F
<1>3. m \in [DOMAIN seen -> DOMAIN F]
  BY <1>2
<1>4. \A i \in DOMAIN seen : seen[i] = F[m[i]]
  BY <1>1, <1>2
<1>5. \A k \in DOMAIN F :
        F[k] # <<>> /\ Len(F[k]) <= MaxPending - BoundaryTail => \E i \in DOMAIN seen : m[i] = k
  BY <1>1, <1>2
<1> QED
  BY <1>1, <1>3, <1>4, <1>5 DEF ShowsEvents, F

LEMMA ShownSeen ==
  ASSUME NEW seen \in Seq(Str), NEW E \in Seq(Str), NEW e \in Str, ShowsEvents(seen, E),
         e # <<>>, Len(e) <= MaxPending
  PROVE  ShowsEvents(Append(seen, e), Append(E, e))
<1>1. PICK m \in [DOMAIN seen -> DOMAIN E] :
        /\ \A i, j \in DOMAIN seen : i < j => m[i] < m[j]
        /\ \A i \in DOMAIN seen : /\ seen[i] = E[m[i]]
                                  /\ seen[i] # <<>> /\ Len(seen[i]) <= MaxPending
        /\ \A k \in DOMAIN E :
              E[k] # <<>> /\ Len(E[k]) <= MaxPending - BoundaryTail =>
                 \E i \in DOMAIN seen : m[i] = k
  BY DEF ShowsEvents
<1> DEFINE F == Append(E, e)
           G == Append(seen, e)
           g == [i \in 1 .. Len(seen) + 1 |-> IF i = Len(seen) + 1 THEN Len(E) + 1 ELSE m[i]]
<1>2. /\ DOMAIN E = 1 .. Len(E) /\ Len(E) \in Nat /\ DOMAIN F = 1 .. Len(E) + 1
      /\ F[Len(E) + 1] = e /\ \A i \in 1 .. Len(E) : F[i] = E[i]
  BY AppendProperties, LenProperties
<1>3. /\ DOMAIN seen = 1 .. Len(seen) /\ Len(seen) \in Nat /\ DOMAIN G = 1 .. Len(seen) + 1
      /\ G[Len(seen) + 1] = e /\ \A i \in 1 .. Len(seen) : G[i] = seen[i]
  BY AppendProperties, LenProperties
<1>4. /\ \A i \in 1 .. Len(seen) : g[i] = m[i] /\ m[i] \in 1 .. Len(E)
      /\ g[Len(seen) + 1] = Len(E) + 1 /\ DOMAIN g = DOMAIN G
  BY <1>2, <1>3
<1>5. g \in [DOMAIN G -> DOMAIN F]
  BY <1>2, <1>3
<1> HIDE DEF F, G, g
<1>6. ASSUME NEW i \in DOMAIN G, NEW j \in DOMAIN G, i < j PROVE g[i] < g[j]
  <2>1. i \in 1 .. Len(seen) /\ g[i] = m[i] /\ m[i] \in 1 .. Len(E)
    BY <1>3, <1>4, <1>6
  <2>2. CASE j = Len(seen) + 1
    BY <1>2, <1>4, <2>1, <2>2
  <2>3. CASE j # Len(seen) + 1
    <3>1. j \in 1 .. Len(seen)
      BY <1>3, <2>3
    <3>2. g[j] = m[j]
      BY <1>4, <3>1
    <3>3. m[i] < m[j]
      BY <1>1, <1>3, <1>6, <2>1, <3>1
    <3> QED
      BY <2>1, <3>2, <3>3
  <2> QED
    BY <2>2, <2>3
<1>7. \A i \in DOMAIN G : G[i] = F[g[i]] /\ G[i] # <<>> /\ Len(G[i]) <= MaxPending
  BY <1>1, <1>2, <1>3, <1>4
<1>8. \A k \in DOMAIN F :
        F[k] # <<>> /\ Len(F[k]) <= MaxPending - BoundaryTail => \E i \in DOMAIN G : g[i] = k
  <2> TAKE k \in DOMAIN F
  <2> HAVE F[k] # <<>> /\ Len(F[k]) <= MaxPending - BoundaryTail
  <2>1. CASE k = Len(E) + 1
    <3>1. Len(seen) + 1 \in DOMAIN G
      BY <1>3
    <3> QED
      BY <1>4, <2>1, <3>1
  <2>2. CASE k # Len(E) + 1
    <3>1. k \in DOMAIN E /\ F[k] = E[k]
      BY <1>2, <2>2
    <3>2. PICK i \in DOMAIN seen : m[i] = k
      BY <1>1, <3>1
    <3>3. i \in DOMAIN G /\ g[i] = k
      BY <1>3, <1>4, <3>2
    <3> QED
      BY <3>3
  <2> QED
    BY <2>1, <2>2
<1> QED
  BY <1>5, <1>6, <1>7, <1>8 DEF ShowsEvents, F, G

-----------------------------------------------------------------------------
(* What an observer has seen.                                                *)

Observers == [pending : Str, discarding : BOOLEAN, tail : Str, seen : Seq(Str)]

TailAt(s) == IF Len(s) <= BoundaryTail THEN 0 ELSE Len(s) - BoundaryTail

(* The last three bytes of a string.                                         *)
LastBytes(s) == Drop(s, TailAt(s))

LEMMA DropTwice ==
  ASSUME NEW s \in Str, NEW k \in 0 .. Len(s), NEW j \in 0 .. Len(s) - k
  PROVE  Drop(Drop(s, k), j) = Drop(s, k + j)
<1> DEFINE t == Drop(s, k)
           u == Drop(t, j)
           v == Drop(s, k + j)
<1>1. Len(s) \in Nat /\ k \in Nat /\ j \in Nat /\ k + j \in 0 .. Len(s)
  BY LenProperties DEF Str
<1>2. /\ t \in Str /\ Len(t) = Len(s) - k
      /\ \A i \in 1 .. Len(s) - k : t[i] = s[k + i]
  BY Pieces DEF Str
<1>3. /\ v \in Str /\ Len(v) = Len(s) - (k + j)
      /\ \A i \in 1 .. Len(s) - (k + j) : v[i] = s[k + j + i]
  BY <1>1, Pieces DEF Str
<1>4. /\ u \in Str /\ Len(u) = Len(t) - j
      /\ \A i \in 1 .. Len(t) - j : u[i] = t[j + i]
  <2>1. j \in 0 .. Len(t)
    BY <1>2
  <2> HIDE DEF t
  <2> QED
    BY <1>2, <2>1, Pieces DEF Str
<1> HIDE DEF t, u, v
<1>5. Len(u) = Len(v) /\ Len(u) \in Nat
  BY <1>1, <1>2, <1>3, <1>4
<1>6. ASSUME NEW i \in 1 .. Len(u) PROVE u[i] = v[i]
  <2>1. j + i \in 1 .. Len(s) - k /\ i \in 1 .. Len(t) - j /\ i \in 1 .. Len(s) - (k + j)
    BY <1>1, <1>2, <1>4, <1>5
  <2>2. t[j + i] = s[k + (j + i)] /\ k + (j + i) = k + j + i
    BY <1>1, <1>2, <2>1
  <2> QED
    BY <1>3, <1>4, <2>1, <2>2
<1>7. u = v
  BY <1>3, <1>4, <1>5, <1>6, SeqEqual DEF Str
<1> QED
  BY <1>7 DEF t, u, v

LEMMA DropNone ==
  ASSUME NEW s \in Str
  PROVE  Drop(s, 0) = s
<1>1. SubSeq(s, 1, Len(s)) = s
  BY SubSeqFull DEF Str
<1> QED
  BY <1>1 DEF Drop

LEMMA TailIsThere ==
  ASSUME NEW s \in Str
  PROVE  /\ TailAt(s) \in 0 .. Len(s) /\ Len(s) \in Nat
         /\ TailAt(s) = 0 \/ TailAt(s) <= Len(s) - BoundaryTail
         /\ LastBytes(s) \in Str /\ Len(LastBytes(s)) = Len(s) - TailAt(s)
<1>1. Len(s) \in Nat
  BY LenProperties DEF Str
<1>2. TailAt(s) \in 0 .. Len(s) /\ (TailAt(s) = 0 \/ TailAt(s) <= Len(s) - BoundaryTail)
  BY <1>1 DEF TailAt, BoundaryTail
<1>3. LastBytes(s) \in Str /\ Len(LastBytes(s)) = Len(s) - TailAt(s)
  BY <1>2, Pieces DEF Str, LastBytes
<1> QED
  BY <1>1, <1>2, <1>3

(* joinedSuffix keeps the last bytes of everything before.                   *)
LEMMA SuffixIs ==
  ASSUME NEW r \in Str, NEW d \in Str
  PROVE  /\ JoinedSuffix(r, d) = LastBytes(r \o d)
         /\ JoinedSuffix(LastBytes(r), d) = LastBytes(r \o d)
<1> DEFINE k == TailAt(r)
           t == LastBytes(r)
           j == r \o d
<1>1. ASSUME NEW s \in Str PROVE JoinedSuffix(s, d) = LastBytes(s \o d)
  <2>1. s \o d \in Str
    BY StrJoins
  <2>2. Len(s \o d) \in Nat /\ 0 \in 0 .. Len(s \o d)
    BY <2>1, LenProperties DEF Str
  <2>3. Drop(s \o d, 0) = s \o d
    BY <2>1, DropNone
  <2> QED
    BY <2>3 DEF JoinedSuffix, LastBytes, TailAt
<1>2. /\ k \in 0 .. Len(r) /\ Len(r) \in Nat /\ t \in Str /\ t = Drop(r, k)
      /\ Len(t) = Len(r) - k
  BY TailIsThere DEF LastBytes
<1>3. j \in Str /\ Len(j) = Len(r) + Len(d) /\ Len(d) \in Nat
  BY Joined DEF Str
<1>4. t \o d = Drop(j, k) /\ t \o d \in Str /\ Len(t \o d) = Len(t) + Len(d)
  <2>1. Drop(j, k) = Drop(r, k) \o d
    BY <1>2, TakeDropJoined DEF Str
  <2> HIDE DEF t, j
  <2> QED
    BY <1>2, <2>1, Joined DEF Str
<1>5. LastBytes(t \o d) = LastBytes(j)
  <2> DEFINE i == TailAt(t \o d)
  <2>1. i \in 0 .. Len(j) - k /\ k \in 0 .. Len(j) /\ k + i = TailAt(j)
    <3> HIDE DEF t, j
    <3>1. Len(t \o d) = Len(j) - k
      BY <1>2, <1>3, <1>4
    <3>2. k = IF Len(r) <= BoundaryTail THEN 0 ELSE Len(r) - BoundaryTail
      BY DEF TailAt
    <3>3. i = IF Len(j) - k <= BoundaryTail THEN 0 ELSE Len(j) - k - BoundaryTail
      BY <3>1 DEF TailAt
    <3>4. TailAt(j) = IF Len(j) <= BoundaryTail THEN 0 ELSE Len(j) - BoundaryTail
      BY DEF TailAt
    <3>5. k \in 0 .. Len(r)
      BY <1>2
    <3>6. Len(r) \in Nat /\ Len(d) \in Nat /\ Len(j) = Len(r) + Len(d)
      BY <1>2, <1>3
    <3> DEFINE h == TailAt(j)
               m == Len(j)
    <3>7. h = IF m <= BoundaryTail THEN 0 ELSE m - BoundaryTail
      BY <3>4
    <3> HIDE DEF k, i, h, m
    <3>8. k + i = h
      <4>1. CASE Len(r) <= 3
        BY <3>2, <3>3, <3>6, <3>7, <4>1 DEF BoundaryTail, m
      <4>2. CASE ~(Len(r) <= 3)
        BY <3>2, <3>3, <3>6, <3>7, <4>2 DEF BoundaryTail, m
      <4> QED
        BY <4>1, <4>2
    <3>9. k \in Nat /\ k <= m /\ m \in Nat
      BY <3>2, <3>6 DEF BoundaryTail, m
    <3>10. i \in 0 .. m - k
      <4>1. i = IF m - k <= BoundaryTail THEN 0 ELSE m - k - BoundaryTail
        BY <3>3 DEF m
      <4> QED
        BY <3>9, <4>1 DEF BoundaryTail
    <3>11. k \in 0 .. m
      BY <3>9
    <3> QED
      BY <3>8, <3>10, <3>11 DEF h, m
  <2>2. Drop(Drop(j, k), i) = Drop(j, k + i)
    <3> HIDE DEF k, i, j
    <3> QED
      BY <1>3, <2>1, DropTwice
  <2> QED
    BY <1>4, <2>1, <2>2 DEF LastBytes
<1> QED
  BY <1>1, <1>2, <1>5

(* What an observer keeps of the bytes that follow the events it has seen.   *)
Holds(o, R) ==
  IF o.discarding
  THEN o.pending = <<>> /\ Len(R) > MaxPending /\ o.tail = LastBytes(R)
  ELSE o.pending = R /\ Len(R) <= MaxPending

Follows(o, D) ==
  /\ o \in Observers
  /\ \E E, R : Parsed(D, E, R) /\ ShowsEvents(o.seen, E) /\ Holds(o, R)

(* An observer after the next event.                                         *)
LEMMA EventFollows ==
  ASSUME NEW D, NEW E, NEW R, Parsed(D, E, R), NEW d \in Str,
         NEW p \in Nat, NEW n \in {2, 4}, FirstAt(R \o d, p, n),
         NEW o \in Observers, ShowsEvents(o.seen, E), NEW v \in Observers,
         ~v.discarding, v.pending = <<>>,
         \/ v.seen = o.seen /\ (p = 0 \/ ~(p <= MaxPending - BoundaryTail))
         \/ v.seen = Append(o.seen, Take(R \o d, p)) /\ p # 0 /\ p <= MaxPending
  PROVE  Follows(v, D \o Take(d, p + n - Len(R)))
<1> DEFINE event == Take(R \o d, p)
           C == D \o Take(d, p + n - Len(R))
<1>1. event \in Str /\ Len(event) = p /\ Parsed(C, Append(E, event), <<>>)
  BY ParsedEvent
<1>2. E \in Seq(Str) /\ o.seen \in Seq(Str)
  BY DEF Parsed, Observers
<1> HIDE DEF event
<1>3. p = 0 <=> event = <<>>
  BY <1>1, EmptySeq DEF Str
<1>4. ShowsEvents(v.seen, Append(E, event))
  <2>1. CASE v.seen = o.seen /\ (p = 0 \/ ~(p <= MaxPending - BoundaryTail))
    BY <1>1, <1>2, <1>3, <2>1, ShownUnseen
  <2>2. CASE v.seen = Append(o.seen, event) /\ p # 0 /\ p <= MaxPending
    BY <1>1, <1>2, <1>3, <2>2, ShownSeen
  <2> QED
    BY <2>1, <2>2 DEF event
<1>5. Holds(v, <<>>)
  <2>1. Len(<<>>) <= MaxPending
    BY StreamsAssumption
  <2> QED
    BY <2>1 DEF Holds
<1> HIDE DEF C
<1>6. Follows(v, C)
  BY <1>1, <1>4, <1>5 DEF Follows
<1> QED
  BY <1>6 DEF C

(* An observer that is shown an event unless it is too long.                 *)
LEMMA ShownUnlessLong ==
  ASSUME NEW o \in Observers, NEW e \in Str
  PROVE  LET v == IF Len(e) > MaxPending THEN o ELSE ProcessEvent(o, e) IN
         /\ v \in Observers /\ v.discarding = o.discarding /\ v.pending = o.pending
         /\ \/ v.seen = o.seen /\ (Len(e) = 0 \/ ~(Len(e) <= MaxPending - BoundaryTail))
            \/ v.seen = Append(o.seen, e) /\ Len(e) # 0 /\ Len(e) <= MaxPending
<1>1. Len(e) \in Nat /\ (Len(e) = 0 <=> e = <<>>) /\ MaxPending \in Nat
  BY LenProperties, EmptySeq, StreamsAssumption DEF Str
<1>2. CASE Len(e) > MaxPending
  BY <1>1, <1>2 DEF BoundaryTail
<1>3. CASE e = <<>>
  BY <1>1, <1>3 DEF ProcessEvent
<1>4. CASE ~(Len(e) > MaxPending) /\ e # <<>>
  <2>1. o.seen \in Seq(Str)
    BY DEF Observers
  <2>2. Append(o.seen, e) \in Seq(Str)
    BY <2>1, AppendProperties
  <2>3. ProcessEvent(o, e) = [o EXCEPT !.seen = Append(o.seen, e)]
    BY <1>4 DEF ProcessEvent
  <2>4. /\ ProcessEvent(o, e) \in Observers /\ ProcessEvent(o, e).seen = Append(o.seen, e)
        /\ ProcessEvent(o, e).discarding = o.discarding
        /\ ProcessEvent(o, e).pending = o.pending
    BY <2>2, <2>3 DEF Observers
  <2> QED
    BY <1>1, <1>4, <2>4
<1> QED
  BY <1>2, <1>3, <1>4

(* A round of the loop takes some bytes and the observer follows them.       *)
RoundIsRight(o, data, D, v, rest) ==
  /\ rest \in Str /\ Len(rest) < Len(data) /\ (rest = <<>> \/ v.pending = <<>>)
  /\ \E c \in Str : data = c \o rest /\ Follows(v, D \o c)

LEMMA RoundToTheEnd ==
  ASSUME NEW D, NEW E, NEW R, Parsed(D, E, R), NEW data \in Str, data # <<>>,
         NoSeparator(R \o data), NEW o, ShowsEvents(o.seen, E), NEW v \in Observers,
         v.seen = o.seen, Holds(v, R \o data)
  PROVE  RoundIsRight(o, data, D, v, <<>>)
<1>1. <<>> \in Str /\ Len(<<>>) < Len(data) /\ data = data \o <<>>
  <2>1. data \o <<>> = data
    BY ConcatEmptySeq DEF Str
  <2>2. Len(data) \in Nat /\ Len(data) # 0 /\ Len(<<>>) = 0
    BY EmptySeq, LenProperties DEF Str
  <2> QED
    BY <2>1, <2>2, EmptySeq DEF Str
<1>2. Parsed(D \o data, E, R \o data)
  BY ParsedGrows
<1>3. Follows(v, D \o data)
  BY <1>2 DEF Follows
<1> QED
  BY <1>1, <1>3 DEF RoundIsRight

LEMMA RoundOverEvent ==
  ASSUME NEW D, NEW E, NEW R, Parsed(D, E, R), NEW data \in Str,
         NEW p \in Nat, NEW n \in {2, 4}, FirstAt(R \o data, p, n),
         NEW o \in Observers, ShowsEvents(o.seen, E), NEW v \in Observers,
         ~v.discarding, v.pending = <<>>,
         \/ v.seen = o.seen /\ (p = 0 \/ ~(p <= MaxPending - BoundaryTail))
         \/ v.seen = Append(o.seen, Take(R \o data, p)) /\ p # 0 /\ p <= MaxPending
  PROVE  RoundIsRight(o, data, D, v, Drop(data, p + n - Len(R)))
<1> DEFINE k == p + n - Len(R)
<1>1. Follows(v, D \o Take(data, k))
  BY EventFollows
<1>2. k \in 1 .. Len(data) /\ k \in 0 .. Len(data) /\ Len(data) \in Nat
  BY ParsedEvent, LenProperties DEF Str
<1> HIDE DEF k
<1>3. /\ Take(data, k) \in Str /\ Drop(data, k) \in Str /\ Len(Drop(data, k)) = Len(data) - k
      /\ data = Take(data, k) \o Drop(data, k)
  BY <1>2, Pieces DEF Str
<1>4. Len(Drop(data, k)) < Len(data)
  BY <1>2, <1>3
<1>5. RoundIsRight(o, data, D, v, Drop(data, k))
  BY <1>1, <1>3, <1>4 DEF RoundIsRight
<1> QED
  BY <1>5 DEF k

LEMMA RoundFollows ==
  ASSUME NEW D, NEW o, Follows(o, D), NEW data \in Str, data # <<>>, o.pending = <<>>
  PROVE  RoundIsRight(o, data, D, Round(o, data).obs, Round(o, data).data)
<1>1. PICK E, R : Parsed(D, E, R) /\ ShowsEvents(o.seen, E) /\ Holds(o, R)
  BY DEF Follows
<1>2. o \in Observers /\ R \in Str /\ NoSeparator(R) /\ R \o data \in Str
  BY <1>1, StrJoins DEF Follows, Parsed
<1>3. Len(R \o data) = Len(R) + Len(data) /\ Len(R) \in Nat /\ Len(data) \in Nat
  BY <1>2, Joined DEF Str
<1>4. CASE o.discarding
  <2> DEFINE k == TailAt(R)
             b == NextJoinedEventBoundary(o.tail, data)
  <2>1. /\ o.tail = Drop(R, k) /\ o.tail = LastBytes(R) /\ Len(R) > MaxPending
        /\ o.pending = <<>>
    BY <1>1, <1>4 DEF Holds, LastBytes
  <2>2. /\ k \in 0 .. Len(R) /\ (k = 0 \/ k <= Len(R) - BoundaryTail)
        /\ Len(o.tail) = Len(R) - k
    BY <1>2, <2>1, TailIsThere
  <2>3. CASE NoSeparator(R \o data)
    <3> DEFINE v == [o EXCEPT !.tail = JoinedSuffix(o.tail, data)]
    <3>1. b = <<>>
      <4> HIDE DEF k
      <4>1. NextJoinedEventBoundary(Drop(R, k), data) = <<>>
        BY <1>2, <2>2, <2>3, JoinedIsFirst
      <4> QED
        BY <2>1, <4>1
    <3>2. Round(o, data) = [obs |-> v, data |-> <<>>]
      BY <1>4, <3>1 DEF Round
    <3>3. JoinedSuffix(o.tail, data) = LastBytes(R \o data)
      BY <1>2, <2>1, SuffixIs
    <3>4. LastBytes(R \o data) \in Str
      BY <1>2, TailIsThere
    <3>5. /\ v \in Observers /\ v.seen = o.seen /\ v.discarding /\ v.pending = <<>>
          /\ v.tail = LastBytes(R \o data)
      BY <1>2, <1>4, <2>1, <3>3, <3>4 DEF Observers
    <3> HIDE DEF v
    <3>6. Holds(v, R \o data)
      <4>1. Len(R \o data) > MaxPending
        BY <1>3, <2>1, StreamsAssumption
      <4> QED
        BY <3>5, <4>1 DEF Holds
    <3>7. RoundIsRight(o, data, D, v, <<>>)
      BY <1>1, <2>3, <3>5, <3>6, RoundToTheEnd
    <3> QED
      BY <3>2, <3>7
  <2>4. ASSUME NEW p \in Nat, NEW n \in {2, 4}, FirstAt(R \o data, p, n)
        PROVE  RoundIsRight(o, data, D, Round(o, data).obs, Round(o, data).data)
    <3> DEFINE v == [o EXCEPT !.discarding = FALSE, !.tail = <<>>]
    <3>1. b = <<p - k, n>> /\ DataOffsetAfterBoundary(Len(o.tail), b) = p + n - Len(R)
      <4> HIDE DEF k
      <4>1. /\ NextJoinedEventBoundary(Drop(R, k), data) = <<p - k, n>>
            /\ DataOffsetAfterBoundary(Len(R) - k, <<p - k, n>>) = p + n - Len(R)
        BY <1>2, <2>2, <2>4, JoinedIsFirst
      <4> QED
        BY <2>1, <2>2, <4>1
    <3>2. Round(o, data) = [obs |-> v, data |-> Drop(data, p + n - Len(R))]
      BY <1>4, <3>1 DEF Round
    <3>3. v \in Observers /\ v.seen = o.seen /\ ~v.discarding /\ v.pending = <<>>
      BY <1>2, <2>1, EmptySeq DEF Observers, Str
    <3> HIDE DEF v
    <3>4. ~(p <= MaxPending - BoundaryTail)
      <4>1. Len(R) - BoundaryTail <= p
        BY <1>2, <2>4, FirstAcrossJoin
      <4> QED
        BY <1>3, <2>1, <4>1, StreamsAssumption DEF BoundaryTail
    <3>5. RoundIsRight(o, data, D, v, Drop(data, p + n - Len(R)))
      BY <1>1, <1>2, <2>4, <3>3, <3>4, RoundOverEvent
    <3> QED
      BY <3>2, <3>5
  <2> QED
    BY <1>2, <2>3, <2>4, NextIsFirst
<1>5. CASE ~o.discarding
  <2> DEFINE b == NextEventBoundary(data)
  <2>1. R = <<>> /\ R \o data = data /\ Len(R) = 0
    <3>1. R = <<>>
      BY <1>1, <1>5 DEF Holds
    <3>2. <<>> \o data = data
      BY ConcatEmptySeq DEF Str
    <3> QED
      BY <3>1, <3>2
  <2>2. CASE NoSeparator(data)
    <3> DEFINE v == SavePending(o, data)
    <3>1. b = <<>>
      BY <2>2, NextIsFirst
    <3>2. Round(o, data) = [obs |-> v, data |-> <<>>]
      BY <1>5, <3>1 DEF Round
    <3>3. v \in Observers /\ v.seen = o.seen /\ Holds(v, data)
      <4>1. CASE Len(data) > MaxPending
        <5>1. JoinedSuffix(<<>>, data) = LastBytes(data) /\ LastBytes(data) \in Str
          <6>1. JoinedSuffix(R, data) = LastBytes(R \o data)
            BY <1>2, SuffixIs
          <6> QED
            BY <2>1, <6>1, TailIsThere
        <5>2. v = [o EXCEPT !.pending = <<>>, !.discarding = TRUE, !.tail = LastBytes(data)]
          BY <4>1, <5>1 DEF SavePending, StartDiscarding
        <5>3. /\ v \in Observers /\ v.seen = o.seen /\ v.discarding /\ v.pending = <<>>
              /\ v.tail = LastBytes(data)
          BY <1>2, <5>1, <5>2, EmptySeq DEF Observers, Str
        <5> QED
          BY <4>1, <5>3 DEF Holds
      <4>2. CASE ~(Len(data) > MaxPending)
        <5>1. v = [o EXCEPT !.pending = data]
          BY <4>2 DEF SavePending
        <5>2. v \in Observers /\ v.seen = o.seen /\ ~v.discarding /\ v.pending = data
          BY <1>2, <1>5, <5>1 DEF Observers
        <5> QED
          BY <1>3, <4>2, <5>2, StreamsAssumption DEF Holds
      <4> QED
        BY <4>1, <4>2
    <3> HIDE DEF v
    <3>4. RoundIsRight(o, data, D, v, <<>>)
      BY <1>1, <2>1, <2>2, <3>3, RoundToTheEnd
    <3> QED
      BY <3>2, <3>4
  <2>3. ASSUME NEW p \in Nat, NEW n \in {2, 4}, FirstAt(data, p, n)
        PROVE  RoundIsRight(o, data, D, Round(o, data).obs, Round(o, data).data)
    <3> DEFINE e == Take(data, p)
               v == IF Len(e) > MaxPending THEN o ELSE ProcessEvent(o, e)
    <3>1. b = <<p, n>>
      BY <2>3, NextIsFirst
    <3>2. e \in Str /\ Len(e) = p
      <4>1. FirstAt(R \o data, p, n)
        BY <2>1, <2>3
      <4>2. Take(R \o data, p) \in Str /\ Len(Take(R \o data, p)) = p
        BY <1>1, <4>1, ParsedEvent
      <4> QED
        BY <2>1, <4>2
    <3>3. Round(o, data) = [obs |-> v, data |-> Drop(data, p + n)]
      BY <1>5, <3>1, <3>2 DEF Round
    <3> HIDE DEF e
    <3>4. /\ v \in Observers /\ v.discarding = o.discarding /\ v.pending = o.pending
          /\ \/ v.seen = o.seen /\ (p = 0 \/ ~(p <= MaxPending - BoundaryTail))
             \/ v.seen = Append(o.seen, e) /\ p # 0 /\ p <= MaxPending
      BY <1>2, <3>2, ShownUnlessLong
    <3> HIDE DEF v
    <3>5. p + n - Len(R) = p + n
      BY <2>1
    <3>6. RoundIsRight(o, data, D, v, Drop(data, p + n - Len(R)))
      BY <1>1, <1>2, <1>5, <2>1, <2>3, <3>4, RoundOverEvent DEF e
    <3> QED
      BY <3>3, <3>5, <3>6
  <2> QED
    BY <2>2, <2>3, NextIsFirst
<1> QED
  BY <1>4, <1>5

(* The rounds of the loop of ProcessData.                                    *)
IsAfter(f, o, data, n) ==
  f = [m \in 0 .. n |-> IF m = 0 THEN [obs |-> o, data |-> data]
                        ELSE Round(f[m - 1].obs, f[m - 1].data)]

LEMMA RoundsExist ==
  ASSUME NEW o, NEW data, NEW n \in Nat
  PROVE  \E f : IsAfter(f, o, data, n)
<1> DEFINE none == {k \in Nat : ~ \E f : IsAfter(f, o, data, k)}
<1>1. none = {}
  <2> SUFFICES ASSUME none # {} PROVE FALSE
    OBVIOUS
  <2>1. PICK k \in none : \A j \in none : k <= j
    <3>1. none \in SUBSET Nat
      OBVIOUS
    <3> HIDE DEF none
    <3> QED
      BY <3>1, SomeLeast
  <2>2. CASE k = 0
    <3> DEFINE f == [m \in 0 .. 0 |-> [obs |-> o, data |-> data]]
    <3>1. IsAfter(f, o, data, 0)
      BY DEF IsAfter
    <3> HIDE DEF f
    <3> QED
      BY <2>1, <2>2, <3>1
  <2>3. CASE k # 0
    <3>1. k - 1 \in Nat /\ k - 1 \notin none /\ k \in Nat
      BY <2>1, <2>3
    <3>2. PICK f : IsAfter(f, o, data, k - 1)
      BY <3>1
    <3> DEFINE g == [m \in 0 .. k |-> IF m = 0 THEN [obs |-> o, data |-> data]
                                      ELSE Round(f[m - 1].obs, f[m - 1].data)]
    <3>3. \A m \in 0 .. k - 1 : f[m] = g[m]
      <4> TAKE m \in 0 .. k - 1
      <4>1. f[m] = IF m = 0 THEN [obs |-> o, data |-> data]
                   ELSE Round(f[m - 1].obs, f[m - 1].data)
        BY <3>2 DEF IsAfter
      <4>2. m \in 0 .. k
        BY <3>1
      <4> QED
        BY <4>1, <4>2
    <3>4. \A m \in 0 .. k : m # 0 => f[m - 1] = g[m - 1]
      <4> TAKE m \in 0 .. k
      <4> HAVE m # 0
      <4>1. m - 1 \in 0 .. k - 1
        BY <3>1
      <4> HIDE DEF g
      <4> QED
        BY <3>3, <4>1
    <3>5. IsAfter(g, o, data, k)
      <4>1. g = [m \in 0 .. k |-> IF m = 0 THEN [obs |-> o, data |-> data]
                                  ELSE Round(g[m - 1].obs, g[m - 1].data)]
        BY <3>4
      <4> HIDE DEF g
      <4> QED
        BY <4>1 DEF IsAfter
    <3> HIDE DEF g
    <3> QED
      BY <2>1, <3>5
  <2> QED
    BY <2>2, <2>3
<1> QED
  BY <1>1

(* The loop takes all bytes of a chunk.                                      *)
LEMMA ProcessDataFollows ==
  ASSUME NEW D \in Str, NEW o, Follows(o, D), NEW data \in Str, data = <<>> \/ o.pending = <<>>
  PROVE  Follows(ProcessData(o, data), D \o data)
<1> DEFINE L == Len(data)
           after == CHOOSE f : IsAfter(f, o, data, L)
           taken(n) == \E c \in Str : /\ after[n].data \in Str /\ data = c \o after[n].data
                                      /\ Follows(after[n].obs, D \o c)
                                      /\ after[n].data = <<>> \/ after[n].obs.pending = <<>>
                                      /\ Len(after[n].data) <= L - n
           bad == {n \in 0 .. L : ~taken(n)}
<1>1. L \in Nat
  BY LenProperties DEF Str
<1>2. IsAfter(after, o, data, L)
  <2> HIDE DEF L
  <2> QED
    BY <1>1, RoundsExist
<1>3. ProcessData(o, data) = after[L].obs
  BY DEF ProcessData, IsAfter
<1> HIDE DEF after
<1>4. after[0] = [obs |-> o, data |-> data]
  BY <1>1, <1>2 DEF IsAfter
<1>5. ASSUME NEW n \in 0 .. L, n # 0 PROVE after[n] = Round(after[n - 1].obs, after[n - 1].data)
  BY <1>2, <1>5 DEF IsAfter
<1>6. taken(0)
  <2>1. <<>> \in Str /\ <<>> \o data = data /\ D \o <<>> = D
    BY EmptySeq, ConcatEmptySeq DEF Str
  <2>2. after[0].data = data /\ after[0].obs = o /\ L <= L - 0
    BY <1>1, <1>4
  <2> HIDE DEF L
  <2>3. Follows(after[0].obs, D \o <<>>) /\ (data = <<>> \/ after[0].obs.pending = <<>>)
    BY <2>1, <2>2
  <2>4. Len(after[0].data) <= L - 0
    BY <2>2 DEF L
  <2> QED
    BY <2>1, <2>2, <2>3, <2>4
<1>7. ASSUME NEW n \in 0 .. L, n # 0, taken(n - 1) PROVE taken(n)
  <2> DEFINE v == after[n - 1].obs
             rest == after[n - 1].data
             w == after[n].obs
             last == after[n].data
  <2>1. PICK c \in Str : /\ rest \in Str /\ data = c \o rest /\ Follows(v, D \o c)
                         /\ rest = <<>> \/ v.pending = <<>>
                         /\ Len(rest) <= L - (n - 1)
    BY <1>7
  <2>2. after[n] = Round(v, rest)
    BY <1>5, <1>7
  <2>3. CASE rest = <<>>
    <3>1. after[n] = [obs |-> v, data |-> <<>>]
      BY <2>2, <2>3 DEF Round
    <3>2. w = v /\ last = rest /\ Len(rest) = 0
      BY <2>3, <3>1
    <3>3. Len(last) <= L - n
      BY <1>1, <3>2
    <3> HIDE DEF v, rest, w, last
    <3>4. \E h \in Str : /\ last \in Str /\ data = h \o last /\ Follows(w, D \o h)
                         /\ last = <<>> \/ w.pending = <<>>
                         /\ Len(last) <= L - n
      BY <2>1, <3>2, <3>3
    <3> QED
      BY <3>4 DEF w, last
  <2>4. CASE rest # <<>>
    <3>1. RoundIsRight(v, rest, D \o c, w, last)
      <4> HIDE DEF v, rest
      <4>1. RoundIsRight(v, rest, D \o c, Round(v, rest).obs, Round(v, rest).data)
        BY <2>1, <2>4, RoundFollows
      <4> QED
        BY <2>2, <4>1
    <3> HIDE DEF v, rest, w, last
    <3>2. PICK e \in Str : rest = e \o last /\ Follows(w, (D \o c) \o e)
      BY <3>1 DEF RoundIsRight
    <3>3. last \in Str /\ Len(last) < Len(rest) /\ (last = <<>> \/ w.pending = <<>>)
      BY <3>1 DEF RoundIsRight
    <3>4. Len(last) <= L - n
      <4>1. Len(last) \in Nat /\ Len(rest) \in Nat
        BY <2>1, <3>3, LenProperties DEF Str
      <4> QED
        BY <1>1, <2>1, <3>3, <4>1
    <3>5. c \o e \in Str
      BY StrJoins
    <3>6. data = (c \o e) \o last
      <4>1. (c \o e) \o last = c \o (e \o last)
        BY <3>3, StrAssociates
      <4> QED
        BY <2>1, <3>2, <4>1
    <3>7. Follows(w, D \o (c \o e))
      <4>1. (D \o c) \o e = D \o (c \o e)
        BY StrAssociates
      <4> QED
        BY <3>2, <4>1
    <3>8. \E h \in Str : /\ last \in Str /\ data = h \o last /\ Follows(w, D \o h)
                         /\ last = <<>> \/ w.pending = <<>>
                         /\ Len(last) <= L - n
      BY <3>3, <3>4, <3>5, <3>6, <3>7
    <3> QED
      BY <3>8 DEF w, last
  <2> QED
    BY <2>3, <2>4
<1>8. bad = {}
  <2> HIDE DEF taken
  <2> SUFFICES ASSUME bad # {} PROVE FALSE
    OBVIOUS
  <2>1. PICK n \in bad : \A j \in bad : n <= j
    <3>1. bad \in SUBSET Nat
      BY <1>1
    <3> HIDE DEF bad
    <3> QED
      BY <3>1, SomeLeast
  <2>2. n \in 0 .. L /\ ~taken(n) /\ n # 0
    BY <1>6, <2>1
  <2>3. n - 1 \in 0 .. L /\ ~(n <= n - 1)
    BY <1>1, <2>2
  <2>4. taken(n - 1)
    BY <2>1, <2>3
  <2> QED
    BY <1>7, <2>2, <2>4
<1>9. taken(L)
  <2> HIDE DEF taken
  <2> QED
    BY <1>1, <1>8
<1>10. PICK c \in Str : /\ after[L].data \in Str /\ data = c \o after[L].data
                        /\ Follows(after[L].obs, D \o c)
                        /\ Len(after[L].data) <= L - L
  BY <1>9
<1>11. after[L].data = <<>>
  <2>1. Len(after[L].data) = 0
    <3>1. Len(after[L].data) \in Nat
      BY <1>10, LenProperties DEF Str
    <3> HIDE DEF L
    <3> QED
      BY <1>1, <1>10, <3>1
  <2> QED
    BY <1>10, <2>1, EmptySeq DEF Str
<1>12. data = c
  <2>1. c \o <<>> = c
    BY ConcatEmptySeq DEF Str
  <2> QED
    BY <1>10, <1>11, <2>1
<1> QED
  BY <1>3, <1>10, <1>12

(* A chunk of any length.                                                    *)
LEMMA ProcessChunkFollows ==
  ASSUME NEW D \in Str, NEW o, Follows(o, D), NEW data \in Str
  PROVE  Follows(ProcessChunk(o, data), D \o data)
<1>1. CASE o.pending = <<>>
  <2>1. ProcessChunk(o, data) = ProcessData(o, data)
    BY <1>1 DEF ProcessChunk
  <2> QED
    BY <1>1, <2>1, ProcessDataFollows
<1>2. CASE o.pending # <<>>
  <2> DEFINE b == NextJoinedEventBoundary(o.pending, data)
             joined == o.pending \o data
  <2>1. PICK E, R : Parsed(D, E, R) /\ ShowsEvents(o.seen, E) /\ Holds(o, R)
    BY DEF Follows
  <2>2. ~o.discarding /\ o.pending = R /\ Len(R) <= MaxPending
    BY <1>2, <2>1 DEF Holds
  <2>3. /\ o \in Observers /\ E \in Seq(Str) /\ R \in Str /\ NoSeparator(R)
        /\ R \o data \in Str /\ Len(R) \in Nat /\ 0 \in 0 .. Len(R) /\ Drop(R, 0) = R
    BY <2>1, DropNone, StrJoins, LenProperties DEF Follows, Parsed, Str
  <2>4. CASE NoSeparator(R \o data)
    <3>1. b = <<>>
      <4>1. NextJoinedEventBoundary(Drop(R, 0), data) = <<>>
        BY <2>3, <2>4, JoinedIsFirst
      <4> QED
        BY <2>2, <2>3, <4>1
    <3>2. Parsed(D \o data, E, R \o data)
      BY <2>1, <2>4, ParsedGrows
    <3>3. CASE Len(R \o data) > MaxPending
      <4> DEFINE v == [o EXCEPT !.pending = <<>>, !.discarding = TRUE,
                                !.tail = LastBytes(R \o data)]
      <4>1. ProcessChunk(o, data) = v
        <5>1. JoinedSuffix(o.pending, data) = LastBytes(R \o data)
          BY <2>2, <2>3, SuffixIs
        <5> QED
          BY <1>2, <2>2, <3>1, <3>3, <5>1 DEF ProcessChunk, StartDiscarding
      <4>2. LastBytes(R \o data) \in Str
        BY <2>3, TailIsThere
      <4>3. /\ v \in Observers /\ v.seen = o.seen /\ v.discarding /\ v.pending = <<>>
            /\ v.tail = LastBytes(R \o data)
        BY <2>3, <4>2, EmptySeq DEF Observers, Str
      <4> HIDE DEF v
      <4>4. Follows(v, D \o data)
        BY <2>1, <3>2, <3>3, <4>3 DEF Follows, Holds
      <4> QED
        BY <4>1, <4>4
    <3>4. CASE ~(Len(R \o data) > MaxPending)
      <4> DEFINE v == [o EXCEPT !.pending = R \o data]
      <4>1. ProcessChunk(o, data) = v
        BY <1>2, <2>2, <3>1, <3>4 DEF ProcessChunk
      <4>2. v \in Observers /\ v.seen = o.seen /\ ~v.discarding /\ v.pending = R \o data
        BY <2>2, <2>3 DEF Observers
      <4>3. Len(R \o data) <= MaxPending
        <5>1. Len(R \o data) \in Nat
          BY <2>3, LenProperties DEF Str
        <5> QED
          BY <3>4, <5>1, StreamsAssumption
      <4> HIDE DEF v
      <4>4. Follows(v, D \o data)
        BY <2>1, <3>2, <4>2, <4>3 DEF Follows, Holds
      <4> QED
        BY <4>1, <4>4
    <3> QED
      BY <3>3, <3>4
  <2>5. ASSUME NEW p \in Nat, NEW n \in {2, 4}, FirstAt(R \o data, p, n)
        PROVE  Follows(ProcessChunk(o, data), D \o data)
    <3> DEFINE e == Take(R \o data, p)
               u == [o EXCEPT !.pending = <<>>]
               v == IF Len(e) > MaxPending THEN u ELSE ProcessEvent(u, e)
               k == p + n - Len(R)
               rest == Drop(data, k)
               c == Take(data, k)
    <3>1. b = <<p, n>> /\ DataOffsetAfterBoundary(Len(o.pending), b) = k
      <4>1. /\ NextJoinedEventBoundary(Drop(R, 0), data) = <<p - 0, n>>
            /\ DataOffsetAfterBoundary(Len(R) - 0, <<p - 0, n>>) = p + n - Len(R)
        BY <2>3, <2>5, JoinedIsFirst
      <4>2. p - 0 = p /\ Len(R) - 0 = Len(R)
        BY <2>3
      <4> QED
        BY <2>2, <2>3, <4>1, <4>2
    <3>2. e \in Str /\ Len(e) = p /\ k \in 0 .. Len(data)
      <4>1. e \in Str /\ Len(e) = p /\ k \in 1 .. Len(data)
        BY <2>1, <2>5, ParsedEvent
      <4> HIDE DEF k
      <4> QED
        BY <4>1
    <3>3. ProcessChunk(o, data) = ProcessData(v, rest)
      BY <1>2, <2>2, <3>1, <3>2 DEF ProcessChunk
    <3>4. u \in Observers /\ ~u.discarding /\ u.pending = <<>> /\ u.seen = o.seen
      BY <2>2, <2>3, EmptySeq DEF Observers, Str
    <3> HIDE DEF e, u
    <3>5. /\ v \in Observers /\ v.discarding = u.discarding /\ v.pending = u.pending
          /\ \/ v.seen = u.seen /\ (p = 0 \/ ~(p <= MaxPending - BoundaryTail))
             \/ v.seen = Append(u.seen, e) /\ p # 0 /\ p <= MaxPending
      BY <3>2, <3>4, ShownUnlessLong
    <3> HIDE DEF v
    <3>6. Follows(v, D \o c)
      BY <2>1, <2>3, <2>5, <3>4, <3>5, EventFollows DEF e
    <3>7. c \in Str /\ rest \in Str /\ data = c \o rest
      <4> HIDE DEF k
      <4> QED
        BY <3>2, Pieces DEF Str
    <3> HIDE DEF c, rest
    <3>8. D \o c \in Str /\ (D \o c) \o rest = D \o data
      <4>1. (D \o c) \o rest = D \o (c \o rest)
        BY <3>7, StrAssociates
      <4>2. D \o c \in Str
        BY <3>7, StrJoins
      <4> QED
        BY <3>7, <4>1, <4>2
    <3>9. Follows(ProcessData(v, rest), (D \o c) \o rest)
      BY <3>4, <3>5, <3>6, <3>7, <3>8, ProcessDataFollows
    <3> QED
      BY <3>3, <3>8, <3>9
  <2> QED
    BY <2>3, <2>4, <2>5, NextIsFirst
<1> QED
  BY <1>1, <1>2

(* The marker is a string of bytes.                                          *)
LEMMA MarkerIsStr ==
  ASSUME NEW w
  PROVE  SynthesizeDoneSuffix(w) \in Str
<1>1. /\ <<>> \in Str /\ <<"LF">> \in Str /\ LFLF \in Str /\ DoneLine \in Str /\ Len(DoneLine) = 2
  BY DEF LFLF, DoneLine, Str, Bytes
<1>2. DoneMarker \in Str /\ <<"LF">> \o DoneMarker \in Str /\ LFLF \o DoneMarker \in Str
  BY <1>1, StrJoins DEF DoneMarker
<1>3. ASSUME IsDoneLinePrefix(w.line) PROVE Drop(DoneLine, Len(w.line)) \o LFLF \in Str
  <2>1. PICK n \in 0 .. Len(DoneLine) : w.line = Take(DoneLine, n)
    BY <1>3 DEF IsDoneLinePrefix
  <2>2. Len(w.line) = n
    <3>1. Len(Take(DoneLine, n)) = n
      BY <1>1, Pieces DEF Str
    <3> QED
      BY <2>1, <3>1
  <2>3. Drop(DoneLine, n) \in Str
    BY <1>1, Pieces DEF Str
  <2> QED
    BY <1>1, <2>2, <2>3, StrJoins
<1> QED
  BY <1>1, <1>2, <1>3 DEF SynthesizeDoneSuffix

-----------------------------------------------------------------------------
(* The stream.                                                               *)

(* While a stream is open its observer follows the delivered bytes.          *)
StreamsIInv ==
  /\ stream \in Str /\ pos \in 0 .. Len(stream) /\ marker \in Str
  /\ mode \in {"reading", "eof", "closed"}
  /\ mode = "reading" => marker = <<>>
  /\ mode # "closed" => Follows(obs, Delivered)
  /\ ChunkingIsInvisible

LEMMA StreamsInitially == SSEInit => StreamsIInv
<1> SUFFICES ASSUME SSEInit PROVE StreamsIInv
  OBVIOUS
<1>1. /\ stream \in Str /\ pos = 0 /\ marker = <<>> /\ mode = "reading" /\ obs = ObserverInit
      /\ <<>> \in Str /\ <<>> \in Seq(Str) /\ Len(stream) \in Nat /\ Len(<<>>) = 0
  BY StreamsAssumption, EmptySeq, LenProperties DEF SSEInit, Str
<1>2. Delivered = <<>>
  <2>1. Take(stream, 0) = <<>>
    BY <1>1, SubSeqEmpty DEF Take
  <2>2. <<>> \o <<>> = <<>>
    BY <1>1, ConcatEmptySeq DEF Str
  <2> QED
    BY <1>1, <2>1, <2>2 DEF Delivered
<1>3. /\ obs \in Observers /\ ~obs.discarding /\ obs.pending = <<>> /\ obs.seen = <<>>
  BY <1>1 DEF ObserverInit, Observers
<1>4. Holds(obs, <<>>)
  BY <1>1, <1>3, StreamsAssumption DEF Holds
<1>5. Follows(obs, Delivered)
  BY <1>2, <1>3, <1>4, NothingParsed, NothingShown DEF Follows
<1> QED
  BY <1>1, <1>5 DEF StreamsIInv, ChunkingIsInvisible

LEMMA ReadKeeps ==
  ASSUME StreamsIInv, Read
  PROVE  StreamsIInv'
<1>1. PICK n \in 1 .. Len(stream) - pos :
        /\ pos' = pos + n
        /\ obs' = ProcessChunk(obs, SubSeq(stream, pos + 1, pos + n))
  BY DEF Read
<1> DEFINE s == Take(stream, pos)
           chunk == SubSeq(stream, pos + 1, pos + n)
<1>2. /\ stream \in Str /\ pos \in 0 .. Len(stream) /\ marker = <<>> /\ mode = "reading"
      /\ stream' = stream /\ marker' = marker /\ mode' = mode /\ Follows(obs, Delivered)
  BY DEF StreamsIInv, Read
<1>3. /\ Len(stream) \in Nat /\ pos + n \in 0 .. Len(stream) /\ n \in Nat /\ n >= 1 /\ pos \in Nat
  BY <1>1, <1>2, LenProperties DEF Str
<1>4. s \in Str /\ Take(stream, pos + n) \in Str /\ Take(stream, pos + n) = s \o chunk
      /\ chunk \in Str
  <2>1. s \in Str /\ Take(stream, pos + n) \in Str
    BY <1>2, <1>3, Pieces DEF Str
  <2>2. \A i \in pos + 1 .. pos + n : stream[i] \in Bytes
    BY <1>2, <1>3, ElementOfSeq DEF Str
  <2>3. chunk \in Str
    BY <1>3, <2>2, SubSeqProperties DEF Str
  <2>4. SubSeq(stream, 1, pos) \o SubSeq(stream, pos + 1, pos + n) = SubSeq(stream, 1, pos + n)
    <3>1. 1 \in 1 .. Len(stream) + 1 /\ pos \in 1 - 1 .. Len(stream) /\ pos + n \in pos .. Len(stream)
      BY <1>3
    <3> QED
      BY <1>2, <3>1, ConcatAdjacentSubSeq DEF Str
  <2> QED
    BY <2>1, <2>3, <2>4 DEF Take
<1> HIDE DEF s, chunk
<1>5. Delivered = s /\ Delivered' = s \o chunk
  <2>1. s \o <<>> = s /\ (s \o chunk) \o <<>> = s \o chunk
    BY <1>4, ConcatEmptySeq DEF Str
  <2>2. Delivered = Take(stream, pos) \o marker
    BY DEF Delivered
  <2>3. Delivered' = Take(stream, pos + n) \o marker
    BY <1>1, <1>2 DEF Delivered
  <2> QED
    BY <1>2, <1>4, <2>1, <2>2, <2>3 DEF s
<1>6. Follows(obs', Delivered')
  <2>1. Follows(ProcessChunk(obs, chunk), s \o chunk)
    BY <1>2, <1>4, <1>5, ProcessChunkFollows
  <2> QED
    BY <1>1, <1>5, <2>1 DEF chunk
<1> QED
  BY <1>1, <1>2, <1>3, <1>6, EmptySeq DEF StreamsIInv, ChunkingIsInvisible, Str

LEMMA ReadMarkerKeeps ==
  ASSUME StreamsIInv, ReadMarker
  PROVE  StreamsIInv'
<1>1. /\ stream \in Str /\ pos \in 0 .. Len(stream) /\ marker = <<>> /\ Follows(obs, Delivered)
      /\ stream' = stream /\ pos' = pos /\ mode' = "eof"
      /\ marker' = SynthesizeDoneSuffix(wrap) /\ obs' = ProcessChunk(obs, marker')
  BY DEF StreamsIInv, ReadMarker
<1>2. marker' \in Str
  BY <1>1, MarkerIsStr
<1> DEFINE s == Take(stream, pos)
<1>3. s \in Str /\ s \o <<>> = s
  BY <1>1, Pieces, ConcatEmptySeq DEF Str
<1>4. Delivered = s /\ Delivered' = s \o marker'
  BY <1>1, <1>3 DEF Delivered
<1> HIDE DEF s
<1>5. Follows(obs', Delivered')
  BY <1>1, <1>2, <1>3, <1>4, ProcessChunkFollows
<1> QED
  BY <1>1, <1>2, <1>5 DEF StreamsIInv, ChunkingIsInvisible

LEMMA CloseStreamKeeps ==
  ASSUME StreamsIInv, CloseStream
  PROVE  StreamsIInv'
<1> DEFINE u == [obs EXCEPT !.pending = <<>>]
<1>1. /\ stream' = stream /\ pos' = pos /\ marker' = marker /\ mode' = "closed"
      /\ obs' = ProcessEvent(u, obs.pending) /\ Follows(obs, Delivered)
  BY DEF StreamsIInv, CloseStream
<1>2. PICK E, R : Parsed(Delivered, E, R) /\ ShowsEvents(obs.seen, E) /\ Holds(obs, R)
  BY <1>1 DEF Follows
<1>3. obs \in Observers /\ obs.seen \in Seq(Str) /\ E \in Seq(Str) /\ R \in Str
      /\ Len(R) \in Nat /\ (R = <<>> <=> Len(R) = 0)
  BY <1>1, <1>2, LenProperties, EmptySeq DEF Follows, Observers, Parsed, Str
<1>4. SplitEvents[Delivered] = Append(E, R)
  BY <1>2, ParsedEnd
<1>5. u.seen = obs.seen
  BY <1>3 DEF Observers
<1>6. ShowsEvents(obs'.seen, Append(E, R))
  <2>1. CASE obs.discarding
    <3>1. obs.pending = <<>> /\ Len(R) > MaxPending
      BY <1>2, <2>1 DEF Holds
    <3>2. obs' = u
      BY <1>1, <3>1 DEF ProcessEvent
    <3>3. ~(Len(R) <= MaxPending - BoundaryTail)
      BY <1>3, <3>1, StreamsAssumption DEF BoundaryTail
    <3> QED
      BY <1>2, <1>3, <1>5, <3>2, <3>3, ShownUnseen
  <2>2. CASE ~obs.discarding /\ R = <<>>
    <3>1. obs' = u
      BY <1>1, <1>2, <2>2 DEF Holds, ProcessEvent
    <3> QED
      BY <1>2, <1>3, <1>5, <2>2, <3>1, ShownUnseen
  <2>3. CASE ~obs.discarding /\ R # <<>>
    <3>1. obs.pending = R /\ Len(R) <= MaxPending
      BY <1>2, <2>3 DEF Holds
    <3>2. obs' = [u EXCEPT !.seen = Append(u.seen, R)]
      BY <1>1, <2>3, <3>1 DEF ProcessEvent
    <3>3. obs'.seen = Append(obs.seen, R)
      BY <1>3, <1>5, <3>2 DEF Observers
    <3> QED
      BY <1>2, <1>3, <2>3, <3>1, <3>3, ShownSeen
  <2> QED
    BY <2>1, <2>2, <2>3
<1>7. Delivered' = Delivered
  BY <1>1 DEF Delivered
<1> QED
  BY <1>1, <1>4, <1>6, <1>7 DEF StreamsIInv, ChunkingIsInvisible

(* The stream, its observer and the marker have their types, and until it is *)
(* closed the observer has seen the events that are complete and keeps what  *)
(* follows them, or its last bytes (ObservedSSEStream, processChunk).        *)
THEOREM StreamsInvariance == SSESpec => []StreamsIInv
<1>1. SSEInit => StreamsIInv
  BY StreamsInitially
<1>2. StreamsIInv /\ [SSENext]_sseVars => StreamsIInv'
  <2> SUFFICES ASSUME StreamsIInv, [SSENext]_sseVars PROVE StreamsIInv'
    OBVIOUS
  <2>1. CASE Read
    BY <2>1, ReadKeeps
  <2>2. CASE ReadMarker
    BY <2>2, ReadMarkerKeeps
  <2>3. CASE CloseStream
    BY <2>3, CloseStreamKeeps
  <2>4. CASE UNCHANGED sseVars
    BY <2>4 DEF sseVars, StreamsIInv, ChunkingIsInvisible, Delivered
  <2> QED
    BY <2>1, <2>2, <2>3, <2>4 DEF SSENext
<1> QED
  BY <1>1, <1>2, PTL DEF SSESpec

(* Whatever the bytes and the chunks, the observers of a closed stream saw   *)
(* every event that fits the buffer with its separator, once and in order,   *)
(* and none that does not fit it (processChunk, startDiscarding, Close).     *)
THEOREM ChunksAreInvisible == SSESpec => []ChunkingIsInvisible
<1>1. StreamsIInv => ChunkingIsInvisible
  BY DEF StreamsIInv
<1> QED
  BY <1>1, StreamsInvariance, PTL
=============================================================================
