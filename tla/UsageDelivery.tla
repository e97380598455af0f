--------------------------- MODULE UsageDelivery ----------------------------
(***************************************************************************)
(* What the usage logger promises to those who write entries and to the    *)
(* dashboard: every entry offered before the logger closes is reported     *)
(* flushed, and then it is stored, or reported failed, never both; an      *)
(* entry that was refused or dropped is never stored; only a closing       *)
(* logger refuses one; and the store is closed when nothing is pending any *)
(* more, and used no more.  It does not promise that a failed batch left   *)
(* nothing behind: rows inserted before the failure stay.  The logger      *)
(* itself is UsageLogger.                                                  *)
(***************************************************************************)
CONSTANT Entries

VARIABLES
  fate,          \* fate[e]: what the dashboard was told of entry e
  rows,          \* the entries the store has a row of
  closing,       \* the logger refuses new entries
  storeClosed    \* the store has been released

vars == <<fate, rows, closing, storeClosed>>

Fates == {"new", "pending", "flushed", "failed", "refused"}

Init ==
  /\ fate = [e \in Entries |-> "new"]
  /\ rows = {}
  /\ closing = FALSE
  /\ storeClosed = FALSE

(* An entry is taken, dropped and reported because the buffer is full, or   *)
(* refused because the logger is closing.                                   *)
Offer(e) ==
  /\ fate[e] = "new"
  /\ \/ ~storeClosed /\ fate' = [fate EXCEPT ![e] = "pending"]
     \/ ~storeClosed /\ fate' = [fate EXCEPT ![e] = "failed"]
     \/ closing /\ fate' = [fate EXCEPT ![e] = "refused"]
  /\ UNCHANGED <<rows, closing, storeClosed>>

(* Some pending entries, a part of a batch, are inserted.                   *)
Insert(chunk) ==
  /\ \A e \in chunk : fate[e] = "pending"
  /\ ~storeClosed
  /\ rows' = rows \cup chunk
  /\ UNCHANGED <<fate, closing, storeClosed>>

(* A batch of pending entries is reported: flushed when every one of them   *)
(* is stored, failed as a whole when one is not.                            *)
Settle(batch) ==
  /\ \A e \in batch : fate[e] = "pending"
  /\ ~storeClosed
  /\ LET report == IF batch \subseteq rows THEN "flushed" ELSE "failed"
     IN  fate' = [e \in Entries |-> IF e \in batch THEN report ELSE fate[e]]
  /\ UNCHANGED <<rows, closing, storeClosed>>

BeginClose ==
  /\ closing' = TRUE
  /\ UNCHANGED <<fate, rows, storeClosed>>

CloseStore ==
  /\ closing
  /\ \A e \in Entries : fate[e] # "pending"
  /\ storeClosed' = TRUE
  /\ UNCHANGED <<fate, rows, closing>>

Next ==
  \/ \E e \in Entries : Offer(e)
  \/ \E batch \in SUBSET Entries : Insert(batch) \/ Settle(batch)
  \/ BeginClose
  \/ CloseStore

Spec == Init /\ [][Next]_vars
=============================================================================
