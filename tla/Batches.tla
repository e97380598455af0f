------------------------------- MODULE Batches -------------------------------
(***************************************************************************)
(* One native batch: its creation (internal/gateway/batch_orchestrator.go: *)
(* provider selection, input-file rewriting, submission, persistence and   *)
(* rollback) and the Get, Cancel and Results calls that read the stored    *)
(* record, ask the provider and write the whole record back, with nothing  *)
(* that keeps two calls apart.  The provider works on the batch meanwhile, *)
(* and the gateway may restart: calls are lost, the record is not.         *)
(***************************************************************************)
EXTENDS Naturals, Sequences, FiniteSets, Nil

CONSTANTS
  Providers,      \* provider types with native batches
  FileProviders,  \* those that also keep uploaded files
  HintProviders,  \* those that keep endpoint hints and answer 404 for results
                  \* that are not ready (Anthropic)
  BatchItems,     \* the custom ids of the batch
  BatchCalls      \* concurrent API calls on the stored batch

Terminal == {"completed", "failed", "cancelled", "expired"}
Statuses == Terminal \cup {"in_progress", "cancelling"}

(* A request names a file, perhaps with metadata.provider, or carries items *)
(* whose models resolve to a provider, or to none.                          *)
MaxInline == 2
Requests ==
  [source : {"file"}, hint : Providers \cup {None}, models : {<<>>}]
    \cup [source : {"inline"}, hint : {None},
          models : UNION {[1 .. n -> Providers \cup {None}] : n \in 0 .. MaxInline}]

VARIABLES
  request,    \* the body of POST /v1/batches
  holders,    \* the providers that know the request's input file
  mapping,    \* the file store's provider for it, or None
  creating,   \* where Create is
  provider,   \* the selected provider type, or None
  rewritten,  \* the rewritten input file at the provider
  upstream,   \* the provider's own status of the batch, or "none"
  finished,   \* the items the provider has answered
  hints,      \* the provider adapter holds the batch's endpoint hints in memory
  row,        \* the stored batch, or None
  call,       \* call[c]: what c does and its copy of the stored batch
  usage,      \* the rows of the usage table that come from this batch
  given       \* what no retry will clean up: a deletion or cancellation that
              \* failed, or a creation that was cut off

batchVars ==
  <<request, holders, mapping, creating, provider, rewritten, upstream,
          finished, hints, row, call, usage, given>>

createVars == <<request, holders, mapping, creating, provider>>

Idle == [op |-> "none", at |-> "idle", copy |-> None]

BatchInit ==
  /\ request \in Requests
  /\ holders \in SUBSET FileProviders
  /\ mapping \in FileProviders \cup {None}
  /\ request.source = "inline" => holders = {} /\ mapping = None
  /\ creating = "select"
  /\ provider = None
  /\ rewritten = "none"
  /\ upstream = "none"
  /\ finished = {}
  /\ hints = FALSE
  /\ row = None
  /\ call = [c \in BatchCalls |-> Idle]
  /\ usage = {}
  /\ given = {}

-----------------------------------------------------------------------------
(* Create: which provider.                                                  *)

(* batchInputFileProviderResolver: the file store first, then the only file *)
(* provider that has batches, then whoever knows the file; none or several  *)
(* is an error.                                                             *)
FileProvider ==
  CASE request.hint # None -> request.hint
    [] request.hint = None /\ mapping # None -> mapping
    [] OTHER ->
         IF Cardinality(FileProviders) = 1
           THEN CHOOSE p \in FileProviders : TRUE
           ELSE IF Cardinality(holders) = 1
                  THEN CHOOSE p \in holders : TRUE
                  ELSE None

(* Every item resolves, and all to one provider.                            *)
InlineProvider ==
  IF \E p \in Providers : /\ request.models # <<>>
                          /\ \A i \in DOMAIN request.models : request.models[i] = p
    THEN request.models[1]
    ELSE None

Selection == IF request.source = "file" THEN FileProvider ELSE InlineProvider

CreationFails ==
  /\ creating' = "failed"
  /\ UNCHANGED <<request, holders, mapping, provider>>

(* A selection error, the workflow policy or the budget ends the request.   *)
Refuse ==
  /\ creating = "select"
  /\ CreationFails
  /\ UNCHANGED <<rewritten, upstream, finished, hints, row, call, usage, given>>

Select ==
  /\ creating = "select"
  /\ Selection # None
  /\ provider' = Selection
  /\ creating' = "prepare"
  /\ UNCHANGED <<request, holders, mapping, rewritten, upstream, finished, hints,
                 row, call, usage, given>>

(* RewriteBatchSource: a file is downloaded and, when resolving its models  *)
(* changed a line, uploaded again; inline items are rewritten in place.  An *)
(* item that does not decode or is not allowed fails the request.           *)
Prepare ==
  /\ creating = "prepare"
  /\ \/ CreationFails /\ UNCHANGED rewritten
     \/ /\ request.source = "file" => provider \in holders
        /\ \/ rewritten' = "none"
           \/ request.source = "file" /\ rewritten' = "present"
        /\ creating' = "submit"
        /\ UNCHANGED <<request, holders, mapping, provider>>
  /\ UNCHANGED <<upstream, finished, hints, row, call, usage, given>>

-----------------------------------------------------------------------------
(* Create: submission, persistence, rollback.                               *)

(* The provider accepts the batch and names it. *)
Submit ==
  /\ creating = "submit"
  /\ upstream' = "in_progress"
  /\ hints' = (provider \in HintProviders)
  /\ creating' = "store"
  /\ UNCHANGED <<request, holders, mapping, provider, rewritten, finished, row,
                 call, usage, given>>

(* The call fails, perhaps after the provider took the batch, or the answer *)
(* has no id: there is nothing to cancel by.                                *)
SubmitFails ==
  /\ creating = "submit"
  /\ \/ UNCHANGED <<upstream, given>>
     \/ upstream' = "in_progress" /\ given' = given \cup {"batch"}
  /\ creating' = "rollback"
  /\ UNCHANGED <<request, holders, mapping, provider, rewritten, finished, hints,
                 row, call, usage>>

Store ==
  /\ creating = "store"
  /\ row' = [status |-> "in_progress", file |-> rewritten = "present",
             logged |-> FALSE, results |-> FALSE]
  /\ hints' = FALSE
  /\ creating' = "created"
  /\ UNCHANGED <<request, holders, mapping, provider, rewritten, upstream,
                 finished, call, usage, given>>

StoreBatchFails ==
  /\ creating = "store"
  /\ creating' = "rollback stored"
  /\ UNCHANGED <<request, holders, mapping, provider, rewritten, upstream,
                 finished, hints, row, call, usage, given>>

(* rollbackPreparedBatch: delete the rewritten file and drop the hints ...  *)
RollBackFile ==
  /\ creating \in {"rollback", "rollback stored"}
  /\ \/ rewritten = "none" /\ UNCHANGED <<rewritten, given>>
     \/ rewritten = "present" /\ rewritten' = "deleted" /\ UNCHANGED given
     \/ rewritten = "present" /\ given' = given \cup {"file"} /\ UNCHANGED rewritten
  /\ hints' = (hints /\ creating = "rollback")
  /\ creating' = IF creating = "rollback" THEN "failed" ELSE "rollback batch"
  /\ UNCHANGED <<request, holders, mapping, provider, upstream, finished, row,
                 call, usage>>

CancelledBy(status) == IF status = "in_progress" THEN "cancelling" ELSE status

(* Mutant of RollBackBatch: the provider is not told.                       *)
ForgetBatch ==
  /\ creating = "rollback batch"
  /\ creating' = "failed"
  /\ UNCHANGED <<request, holders, mapping, provider, rewritten, upstream,
                 finished, hints, row, call, usage, given>>

(* ... and cancel the batch; failures are only logged.                      *)
RollBackBatch ==
  /\ creating = "rollback batch"
  /\ \/ upstream' = CancelledBy(upstream) /\ UNCHANGED given
     \/ given' = given \cup {"batch"} /\ UNCHANGED upstream
  /\ creating' = "failed"
  /\ UNCHANGED <<request, holders, mapping, provider, rewritten, finished, hints,
                 row, call, usage>>

-----------------------------------------------------------------------------
(* Calls on the stored batch.                                               *)

Leaves(c) == call' = [call EXCEPT ![c] = Idle]

Goes(c, place, copy) == call' = [call EXCEPT ![c] = [@ EXCEPT !.at = place, !.copy = copy]]

(* requireStoredBatch. *)
Read(c, op) ==
  /\ call[c] = Idle
  /\ row # None
  /\ call' = [call EXCEPT ![c] = [op |-> op, at |-> "ask", copy |-> row]]
  /\ UNCHANGED <<createVars, rewritten, upstream, finished, hints, row, usage, given>>

(* Mutant of MergeStoredBatchFromUpstream: a cancellation is taken for done. *)
MergeEagerly(copy, status) ==
  [copy EXCEPT !.status = IF status = "cancelling" THEN "cancelled" ELSE status]

(* A sparse answer leaves the stored status.                                *)
MergeStoredBatchFromUpstream(copy, status) ==
  IF status = None THEN copy ELSE [copy EXCEPT !.status = status]

IsTerminalBatchStatus(status) == status \in Terminal

(* The rewritten file of a batch that has ended is cleaned up first.        *)
Continues(c, copy) ==
  Goes(c, IF IsTerminalBatchStatus(copy.status) /\ copy.file THEN "clean" ELSE "write", copy)

(* The provider's error is the client's answer; nothing is written.         *)
ProviderFails(c) ==
  /\ call[c].at \in {"ask", "recheck"}
  /\ Leaves(c)
  /\ UNCHANGED <<createVars, rewritten, upstream, finished, hints, row, usage, given>>

GetAnswers(c) ==
  /\ call[c].at = "ask" /\ call[c].op = "get"
  /\ \E status \in {upstream, None} :
       Continues(c, MergeStoredBatchFromUpstream(call[c].copy, status))
  /\ UNCHANGED <<createVars, rewritten, upstream, finished, hints, row, usage, given>>

CancelAnswers(c) ==
  /\ call[c].at = "ask" /\ call[c].op = "cancel"
  /\ upstream' = CancelledBy(upstream)
  /\ Continues(c, MergeStoredBatchFromUpstream(call[c].copy, upstream'))
  /\ UNCHANGED <<createVars, rewritten, finished, hints, row, usage, given>>

(* Mutant of deterministicBatchUsageID: an id of the call, as a new UUID.   *)
FreshUsageID(item, c) == <<item, c>>

deterministicBatchUsageID(item, c) == item

(* LogBatchUsageFromBatchResults: one entry per answered item, unless the   *)
(* copy says it was done.  The usage log may drop entries; the table        *)
(* ignores an id it has.                                                    *)
LogUsage(c) ==
  IF call[c].copy.logged
    THEN UNCHANGED usage
    ELSE \E kept \in SUBSET finished :
           usage' = usage \cup {[item |-> i, id |-> deterministicBatchUsageID(i, c)] : i \in kept}

(* The results of a batch that has ended.  Without items there is nothing   *)
(* to log or to store.                                                      *)
ResultsAnswer(c) ==
  /\ call[c].at = "ask" /\ call[c].op = "results"
  /\ upstream \in Terminal
  /\ LogUsage(c)
  /\ LET copy == IF finished = {} THEN call[c].copy
                 ELSE [call[c].copy EXCEPT !.results = TRUE, !.logged = TRUE]
     IN IF finished = {} /\ ~(IsTerminalBatchStatus(copy.status) /\ copy.file)
          THEN Leaves(c)
          ELSE Continues(c, copy)
  /\ UNCHANGED <<createVars, rewritten, upstream, finished, hints, row, given>>

(* Results that are not ready: 409, or a 404 that IsNativeBatchResultsPending *)
(* asks the provider about.                                                 *)
ResultsPending(c) ==
  /\ call[c].at = "ask" /\ call[c].op = "results"
  /\ upstream \notin Terminal
  /\ IF provider \in HintProviders THEN Goes(c, "recheck", call[c].copy) ELSE Leaves(c)
  /\ UNCHANGED <<createVars, rewritten, upstream, finished, hints, row, usage, given>>

Recheck(c) ==
  /\ call[c].at = "recheck"
  /\ IF upstream \in Terminal
       THEN Leaves(c)
       ELSE Goes(c, "write", MergeStoredBatchFromUpstream(call[c].copy, upstream))
  /\ UNCHANGED <<createVars, rewritten, upstream, finished, hints, row, usage, given>>

CleanedCopy(copy, deleted) == [copy EXCEPT !.file = ~deleted]

(* cleanupStoredBatchRewrittenInputFile: only a deletion that worked clears *)
(* the id, and deleting a file again does not.                              *)
Clean(c) ==
  /\ call[c].at = "clean"
  /\ \E deleted \in BOOLEAN :
       /\ deleted => rewritten = "present"
       /\ rewritten' = IF deleted THEN "deleted" ELSE rewritten
       /\ IF call[c].op = "results" /\ finished = {} /\ ~deleted
            THEN Leaves(c)
            ELSE Goes(c, "write", CleanedCopy(call[c].copy, deleted))
  /\ UNCHANGED <<createVars, upstream, finished, hints, row, usage, given>>

(* Update replaces the record, or fails.                                    *)
Write(c) ==
  /\ call[c].at = "write"
  /\ row' \in {row, call[c].copy}
  /\ Leaves(c)
  /\ UNCHANGED <<createVars, rewritten, upstream, finished, hints, usage, given>>

-----------------------------------------------------------------------------
(* The provider, and the process.                                           *)

ItemFinishes ==
  /\ upstream \in {"in_progress", "cancelling"}
  /\ \E i \in BatchItems \ finished : finished' = finished \cup {i}
  /\ UNCHANGED <<createVars, rewritten, upstream, hints, row, call, usage, given>>

BatchEnds ==
  /\ \/ upstream = "in_progress" /\ upstream' \in {"completed", "failed", "expired"}
     \/ upstream = "cancelling" /\ upstream' \in {"completed", "cancelled"}
  /\ UNCHANGED <<createVars, rewritten, finished, hints, row, call, usage, given>>

(* The process ends and starts again: calls and the adapter's hints are     *)
(* lost, and so is a creation in progress with what it had made upstream.   *)
Restart ==
  /\ call' = [c \in BatchCalls |-> Idle]
  /\ hints' = FALSE
  /\ IF creating \in {"created", "failed"}
       THEN UNCHANGED <<creating, given>>
       ELSE /\ creating' = "failed"
            /\ given' = {"batch", "file"}
  /\ UNCHANGED <<request, holders, mapping, provider, rewritten, upstream, finished,
                 row, usage>>

BatchNext ==
  \/ Refuse \/ Select \/ Prepare \/ Submit \/ SubmitFails \/ Store \/ StoreBatchFails
  \/ RollBackFile \/ RollBackBatch
  \/ \E c \in BatchCalls :
       \/ \E op \in {"get", "cancel", "results"} : Read(c, op)
       \/ ProviderFails(c) \/ GetAnswers(c) \/ CancelAnswers(c) \/ ResultsAnswer(c)
       \/ ResultsPending(c) \/ Recheck(c) \/ Clean(c) \/ Write(c)
  \/ ItemFinishes \/ BatchEnds \/ Restart

BatchSpec == BatchInit /\ [][BatchNext]_batchVars

-----------------------------------------------------------------------------
(* Properties.                                                              *)

(* However many Results calls overlap, repeat after a stale record was      *)
(* written back, or run again after a restart, an item of the batch is in   *)
(* the usage table once (batch_usage.go:34, 119).                           *)
UsageStoredOnce ==
  \A u, v \in usage : u.item = v.item => u = v

(* The store calls a batch ended only when the provider does, and the same  *)
(* way, whatever stale copies were written in between; until then the batch *)
(* keeps its rewritten input file (batch_orchestrator.go:307, 386, 462).    *)
StoredEndIsTrue ==
  row # None =>
    /\ row.status \in Terminal => row.status = upstream
    /\ upstream \notin Terminal => rewritten # "deleted"

(* After Create nothing is left over: a batch the gateway does not know is  *)
(* being cancelled, a rewritten file is deleted or named by the record, the *)
(* adapter holds no hints, unless a clean-up failed or was cut off; and the *)
(* items of a submitted inline batch are all of its provider                *)
(* (batch_orchestrator.go:157-171, 208-214, 249-255).                       *)
NothingIsLeftOver ==
  /\ creating = "failed" =>
       /\ upstream # "in_progress" \/ "batch" \in given
       /\ rewritten # "present" \/ "file" \in given
       /\ ~hints
  /\ creating = "created" =>
       /\ rewritten = "present" => row.file
       /\ ~hints
       /\ request.source = "inline" =>
             \A i \in DOMAIN request.models : request.models[i] = provider
=============================================================================
