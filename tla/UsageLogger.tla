---------------------------- MODULE UsageLogger -----------------------------
(***************************************************************************)
(* The buffered usage logger (internal/usage/logger.go).  Request          *)
(* goroutines call Write, one goroutine runs flushLoop, and shutdown calls *)
(* Close; they share the closed flag, the writes WaitGroup, the buffer and *)
(* the done channel, and nothing but those orders them.                    *)
(*                                                                         *)
(* The order of entries in the buffer and in a batch is left open, so both *)
(* are sets.  The WaitGroup is the set of the writers registered with it.  *)
(***************************************************************************)
EXTENDS Naturals, FiniteSets

CONSTANTS
  Entries,              \* the entries written, each by a goroutine of its own
  BufferSize,           \* Config.BufferSize, the channel's capacity
  BatchFlushThreshold,  \* entries after which flushLoop writes a batch
  MaxEntriesPerBatch    \* maxEntriesPerBatch: the rows of one INSERT of the store

ASSUME LoggerAssumption ==
  /\ BufferSize \in Nat \ {0}
  /\ BatchFlushThreshold \in Nat \ {0}
  /\ MaxEntriesPerBatch \in Nat \ {0}

VARIABLES
  pc,            \* where each Write call is
  closed,        \* Logger.closed
  writes,        \* Logger.writes: the calls that added themselves
  buffer,        \* Logger.buffer
  done,          \* Logger.done is closed
  loop,          \* where flushLoop is
  batch,         \* flushLoop's local batch
  closer,        \* where Close is
  live,          \* the last live event published for each entry
  stored,        \* entries the store has a row of
  storeClosed    \* store.Close returned

writers == <<pc, writes, live>>
vars == <<pc, closed, writes, buffer, done, loop, batch, closer, live, stored, storeClosed>>

Init ==
  /\ pc = [e \in Entries |-> "idle"]
  /\ closed = FALSE
  /\ writes = {}
  /\ buffer = {}
  /\ done = FALSE
  /\ loop = "select"
  /\ batch = {}
  /\ closer = "idle"
  /\ live = [e \in Entries |-> "none"]
  /\ stored = {}
  /\ storeClosed = FALSE

-----------------------------------------------------------------------------
(* Write.                                                                   *)

(* The first look at closed: a closed logger refuses the entry.             *)
CheckClosed(e) ==
  /\ pc[e] = "idle"
  /\ pc' = [pc EXCEPT ![e] = IF closed THEN "returned" ELSE "checked"]
  /\ UNCHANGED <<closed, writes, buffer, done, loop, batch, closer, live, stored, storeClosed>>

(* writes.Add(1).                                                           *)
Register(e) ==
  /\ pc[e] = "checked"
  /\ pc' = [pc EXCEPT ![e] = "registered"]
  /\ writes' = writes \cup {e}
  /\ UNCHANGED <<closed, buffer, done, loop, batch, closer, live, stored, storeClosed>>

MayWrite == ~closed

LeaveWrites(e) == writes' = writes \ {e}

(* The second look, and the event that announces the entry.                 *)
Recheck(e) ==
  /\ pc[e] = "registered"
  /\ IF MayWrite
       THEN /\ pc' = [pc EXCEPT ![e] = "publishing"]
            /\ live' = [live EXCEPT ![e] = "completed"]
            /\ UNCHANGED writes
       ELSE /\ pc' = [pc EXCEPT ![e] = "returned"]
            /\ LeaveWrites(e)
            /\ UNCHANGED live
  /\ UNCHANGED <<closed, buffer, done, loop, batch, closer, stored, storeClosed>>

(* Mutant of Dropped: a full buffer swallows the entry without a word.      *)
DropSilently(e) == UNCHANGED live

Dropped(e) == live' = [live EXCEPT ![e] = "failed"]

(* The non-blocking send, and the deferred writes.Done().                   *)
Send(e) ==
  /\ pc[e] = "publishing"
  /\ IF Cardinality(buffer) < BufferSize
       THEN buffer' = buffer \cup {e} /\ UNCHANGED live
       ELSE Dropped(e) /\ UNCHANGED buffer
  /\ pc' = [pc EXCEPT ![e] = "returned"]
  /\ writes' = writes \ {e}
  /\ UNCHANGED <<closed, done, loop, batch, closer, stored, storeClosed>>

-----------------------------------------------------------------------------
(* flushLoop.                                                               *)

Receive(e, next) ==
  /\ e \in buffer
  /\ buffer' = buffer \ {e}
  /\ batch' = batch \cup {e}
  /\ loop' = next
  /\ UNCHANGED <<closed, done, closer, stored, storeClosed, writers>>

(* select: an entry arrived; at the threshold the batch is written.         *)
Collect(e) ==
  /\ loop = "select"
  /\ Receive(e, IF Cardinality(batch \cup {e}) >= BatchFlushThreshold THEN "flush" ELSE "select")

(* Mutant of TickerFlushes: the ticker only writes full batches.            *)
FullBatchesOnly == Cardinality(batch) >= BatchFlushThreshold

TickerFlushes == batch # {}

(* select: the ticker fired.                                                *)
Tick ==
  /\ loop = "select"
  /\ TickerFlushes
  /\ loop' = "flush"
  /\ UNCHANGED <<closed, buffer, done, batch, closer, stored, storeClosed, writers>>

(* select: done is closed.                                                  *)
SeeDone ==
  /\ loop = "select"
  /\ done
  /\ loop' = "drain"
  /\ UNCHANGED <<closed, buffer, done, batch, closer, stored, storeClosed, writers>>

Drain(e) == loop = "drain" /\ Receive(e, "drain")

Drained == buffer = {}

(* The default branch of the drain: the last batch is written, if any.      *)
DrainComplete ==
  /\ loop = "drain"
  /\ Drained
  /\ loop' = IF batch = {} THEN "storeFlush" ELSE "finalFlush"
  /\ UNCHANGED <<closed, buffer, done, batch, closer, stored, storeClosed, writers>>

Publish(entries, event) ==
  live' = [e \in Entries |-> IF e \in entries THEN event ELSE live[e]]

(* The entries of the batch that WriteBatch has not inserted yet.           *)
Writing == loop \in {"flush", "finalFlush"}
Unwritten == batch \ stored

(* WriteBatch inserts the batch in chunks, each by a statement of its own   *)
(* and in no transaction: another goroutine runs between two of them, and   *)
(* what is inserted stays whatever becomes of the rest.                     *)
InsertChunk(chunk) ==
  /\ Writing
  /\ chunk # {}
  /\ \/ Cardinality(chunk) = MaxEntriesPerBatch
     \/ Cardinality(chunk) < MaxEntriesPerBatch /\ chunk = Unwritten
  /\ stored' = stored \cup chunk
  /\ UNCHANGED <<closed, buffer, done, loop, batch, closer, storeClosed, writers>>

(* Mutant of Written: the loop over the chunks ends after the first.        *)
FirstChunkWritten == batch \cap stored # {}

Written == Unwritten = {}

(* Mutant of WriteFailed: a failed batch is not reported.                   *)
LoseBatch == UNCHANGED live

(* A statement fails: the whole batch is reported failed, the chunks that   *)
(* were inserted before included.                                           *)
WriteFailed == Publish(batch, "failed")

(* The end of flushBatch: either way the batch is gone, it is not retried.  *)
FlushBatch ==
  /\ Writing
  /\ \/ Written /\ Publish(batch, "flushed")
     \/ ~Written /\ WriteFailed
  /\ batch' = {}
  /\ loop' = IF loop = "flush" THEN "select" ELSE "storeFlush"
  /\ UNCHANGED <<closed, buffer, done, closer, stored, storeClosed, pc, writes>>

(* store.Flush, whose error is only logged, and the end of the goroutine.   *)
FlushStore ==
  /\ loop = "storeFlush"
  /\ loop' = "stopped"
  /\ UNCHANGED <<closed, buffer, done, batch, closer, stored, storeClosed, writers>>

-----------------------------------------------------------------------------
(* Close.  A second call finds closed set and returns: no step of its own.  *)

CloseBegins ==
  /\ ~closed
  /\ closed' = TRUE
  /\ closer' = "waitWrites"
  /\ UNCHANGED <<buffer, done, loop, batch, stored, storeClosed, writers>>

WritesDone == writes = {}

(* writes.Wait() returns and done is closed.                                *)
CloseDone ==
  /\ closer = "waitWrites"
  /\ WritesDone
  /\ done' = TRUE
  /\ closer' = "waitLoop"
  /\ UNCHANGED <<closed, buffer, loop, batch, stored, storeClosed, writers>>

(* wg.Wait() returns and the store is closed.                               *)
CloseStore ==
  /\ closer = "waitLoop"
  /\ loop = "stopped"
  /\ storeClosed' = TRUE
  /\ closer' = "returned"
  /\ UNCHANGED <<closed, buffer, done, loop, batch, stored, writers>>

-----------------------------------------------------------------------------
Write(e) == CheckClosed(e) \/ Register(e) \/ Recheck(e) \/ Send(e)

FlushLoop ==
  \/ \E e \in Entries : Collect(e) \/ Drain(e)
  \/ Tick
  \/ SeeDone
  \/ DrainComplete
  \/ \E chunk \in SUBSET Unwritten : InsertChunk(chunk)
  \/ FlushBatch
  \/ FlushStore

Close == CloseBegins \/ CloseDone \/ CloseStore

Next == (\E e \in Entries : Write(e)) \/ FlushLoop \/ Close

Spec == Init /\ [][Next]_vars

(* A call that started goes on (Write never blocks); flushLoop runs, its    *)
(* ticker fires and the store's calls have deadlines; Close goes on once    *)
(* what it waits for has happened.  Nobody is obliged to call either.       *)
LoggerFairness ==
  /\ \A e \in Entries : WF_vars(Register(e) \/ Recheck(e) \/ Send(e))
  /\ WF_vars(FlushLoop)
  /\ WF_vars(CloseDone \/ CloseStore)

-----------------------------------------------------------------------------
(* Properties.                                                              *)

TypeOK ==
  /\ pc \in [Entries -> {"idle", "checked", "registered", "publishing", "returned"}]
  /\ live \in [Entries -> {"none", "completed", "failed", "flushed"}]
  /\ writes \subseteq Entries
  /\ buffer \subseteq Entries
  /\ batch \subseteq Entries
  /\ stored \subseteq Entries
  /\ closed \in BOOLEAN /\ done \in BOOLEAN /\ storeClosed \in BOOLEAN
  /\ loop \in {"select", "flush", "drain", "finalFlush", "storeFlush", "stopped"}
  /\ closer \in {"idle", "waitWrites", "waitLoop", "returned"}

(* Once done is closed no Write is past its second check, so the drain      *)
(* cannot miss an entry that is still to be sent: the double check around   *)
(* writes.Add(1) is what makes draining by a default branch sound.          *)
NoSendAfterDone == done => \A e \in Entries : pc[e] # "publishing"

(* An entry that was announced is in the buffer or in the batch, and in one *)
(* of them only, until it is reported flushed or failed.  Reported flushed, *)
(* it is stored.  A stored entry was reported, or is in the batch that is   *)
(* being inserted: as a batch is inserted in chunks and reported as a whole,*)
(* an entry reported failed may be stored all the same.                     *)
Held(e) == e \in buffer \cup batch
EveryEntryAccountedFor ==
  \A e \in Entries :
    /\ pc[e] = "returned" /\ live[e] = "completed" <=> Held(e)
    /\ buffer \cap batch = {}
    /\ live[e] = "flushed" => e \in stored
    /\ e \in stored => live[e] \in {"flushed", "failed"} \/ (Writing /\ e \in batch)

(* When Close has closed the store nothing is left that would be written to *)
(* it, and the goroutine that writes has ended.                             *)
NothingPendingAfterClose ==
  storeClosed => loop = "stopped" /\ buffer = {} /\ batch = {}

(* The ticker leaves no entry behind, even if the logger is never closed    *)
(* and the batch never fills.                                               *)
EntriesAreSettled == \A e \in Entries : Held(e) ~> ~Held(e)

(* The logger implements what UsageDelivery promises.                       *)
FateOf(e) ==
  CASE live[e] = "flushed" -> "flushed"
    [] live[e] = "failed" -> "failed"
    [] live[e] = "completed" /\ pc[e] = "returned" -> "pending"
    [] live[e] = "none" /\ pc[e] = "returned" -> "refused"
    [] OTHER -> "new"

Delivery == INSTANCE UsageDelivery WITH
  fate <- [e \in Entries |-> FateOf(e)], rows <- stored, closing <- closed,
  storeClosed <- storeClosed

ImplementsDelivery == Delivery!Spec
=============================================================================
