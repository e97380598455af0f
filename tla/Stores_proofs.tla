---------------------------- MODULE Stores_proofs ----------------------------
(* Machine-checked proofs about what clients come back to: a conversation,   *)
(* for any sets of turns and updates, over either store; the in-memory       *)
(* stores themselves, for any sizes, bounds and callers; a native batch and  *)
(* an object that a provider keeps, for any providers, items, and number of  *)
(* concurrent calls; a list read page by page, whatever entries it has.      *)
EXTENDS Conversations, MemoryStore, Batches, NativeObjects, Listings,
        SequenceTheorems, FiniteSetTheorems, TLAPS

-----------------------------------------------------------------------------
(* The conversation.                                                         *)

(* Whoever holds the mutex in the middle of AppendItems has written its      *)
(* input as the last item of the living conversation.                        *)
HalfAppended ==
  appending # None =>
    /\ inMemory
    /\ appending \in Turns /\ pc[appending] = "appending"
    /\ current # Gone
    /\ Len(items[current]) > 0
    /\ items[current][Len(items[current])] = <<appending, "input">>

(* SQLite has neither pointers to clone nor an append in two steps.          *)
RowsAtOnce ==
  /\ ~inMemory => appending = None
  /\ \A c \in Clients : pc[c] = "cloning" => inMemory /\ held[c] \in Objects

ConversationIInv ==
  /\ TypeOK
  /\ HalfAppended
  /\ RowsAtOnce
  /\ OnlyUpdatesLose
  /\ RowsAreWhole

-----------------------------------------------------------------------------
(* Sequences of items.                                                       *)

(* What is in a history stays in it when it is extended.                     *)
LEMMA HasExtended ==
  ASSUME NEW s \in Seq(Items), NEW added \in Seq(Items), NEW t, Has(s, t)
  PROVE  Has(s \o added, t)
<1>1. PICK i \in 1 .. Len(s) - 1 : s[i] = <<t, "input">> /\ s[i + 1] = <<t, "output">>
  BY DEF Has
<1>2. /\ i \in 1 .. Len(s \o added) - 1
      /\ (s \o added)[i] = s[i] /\ (s \o added)[i + 1] = s[i + 1]
  BY <1>1, ConcatProperties
<1> QED
  BY <1>1, <1>2 DEF Has

(* The exchange that was just appended is there.                             *)
LEMMA HasAppended ==
  ASSUME NEW s \in Seq(Items), NEW t \in Turns
  PROVE  Has(s \o <<<<t, "input">>, <<t, "output">>>>, t)
<1> DEFINE added == <<<<t, "input">>, <<t, "output">>>>
           i == Len(s) + 1
<1>1. added \in Seq(Items) /\ Len(added) = 2 /\ added[1] = <<t, "input">> /\ added[2] = <<t, "output">>
  BY DEF Items
<1> HIDE DEF added
<1>2. Len(s \o added) = Len(s) + 2 /\ (s \o added)[i] = added[1] /\ (s \o added)[i + 1] = added[2]
  <2>1. /\ Len(s \o added) = Len(s) + Len(added)
        /\ \A j \in 1 .. Len(s) + Len(added) :
             (s \o added)[j] = IF j <= Len(s) THEN s[j] ELSE added[j - Len(s)]
    BY <1>1, ConcatProperties
  <2>2. Len(s) \in Nat
    OBVIOUS
  <2> QED
    BY <1>1, <2>1, <2>2
<1>3. i \in 1 .. Len(s \o added) - 1
  BY <1>2
<1> QED
  BY <1>1, <1>2, <1>3 DEF Has, added

(* An output that follows its input makes the exchange.                      *)
LEMMA HasCompleted ==
  ASSUME NEW s \in Seq(Items), NEW t \in Turns, Len(s) > 0, s[Len(s)] = <<t, "input">>
  PROVE  Has(Append(s, <<t, "output">>), t)
<1> DEFINE new == Append(s, <<t, "output">>)
<1>1. <<t, "output">> \in Items
  BY DEF Items
<1>2. Len(new) = Len(s) + 1 /\ new[Len(s)] = s[Len(s)] /\ new[Len(s) + 1] = <<t, "output">>
  BY <1>1
<1>3. Len(s) \in 1 .. Len(new) - 1
  BY <1>2
<1> QED
  BY <1>2, <1>3 DEF Has

(* Whole histories stay whole when an exchange is appended at once.          *)
LEMMA WholeExtended ==
  ASSUME NEW s \in Seq(Items), NEW t \in Turns, Whole(s)
  PROVE  Whole(s \o <<<<t, "input">>, <<t, "output">>>>)
<1> DEFINE added == <<<<t, "input">>, <<t, "output">>>>
           new == s \o added
<1>1. added \in Seq(Items) /\ Len(added) = 2 /\ added[1] = <<t, "input">> /\ added[2] = <<t, "output">>
  BY DEF Items
<1> HIDE DEF added
<1>2. Len(new) = Len(s) + 2 /\ new[Len(s) + 1] = added[1] /\ new[Len(s) + 2] = added[2]
  <2>1. /\ Len(s \o added) = Len(s) + Len(added)
        /\ \A j \in 1 .. Len(s) + Len(added) :
             (s \o added)[j] = IF j <= Len(s) THEN s[j] ELSE added[j - Len(s)]
    BY <1>1, ConcatProperties
  <2>2. Len(s) \in Nat
    OBVIOUS
  <2> QED
    BY <1>1, <2>1, <2>2
<1>3. \A i \in 1 .. Len(s) : new[i] = s[i]
  BY <1>1, ConcatProperties
<1> HIDE DEF new
<1>4. PICK half \in Nat : Len(s) = 2 * half
  BY DEF Whole
<1>5. Len(s) \div 2 = half /\ Len(new) \div 2 = half + 1 /\ Len(new) % 2 = 0
  BY <1>2, <1>4
<1>6. ASSUME NEW i \in 1 .. half + 1
      PROVE  \E q \in Turns : new[2 * i - 1] = <<q, "input">> /\ new[2 * i] = <<q, "output">>
  <2>1. CASE i = half + 1
    BY <1>1, <1>2, <1>4, <2>1
  <2>2. CASE i \in 1 .. half
    <3>1. 2 * i - 1 \in 1 .. Len(s) /\ 2 * i \in 1 .. Len(s)
      BY <1>4, <2>2
    <3> QED
      BY <1>3, <1>5, <2>2, <3>1 DEF Whole
  <2> QED
    BY <2>1, <2>2
<1>7. Whole(new)
  BY <1>5, <1>6 DEF Whole
<1> QED
  BY <1>7 DEF new, added

-----------------------------------------------------------------------------
(* The steps.                                                                *)

(* Who is who.                                                               *)
LEMMA Names ==
  /\ Turns \subseteq Clients /\ Updaters \subseteq Clients /\ Updaters \subseteq Objects
  /\ Gone \notin Objects /\ None \notin Turns /\ Turns \cap Updaters = {}
  /\ Created \in Objects
  BY ConversationAssumption DEF Clients, Objects

(* The conversation begins empty and unread.                                 *)
LEMMA ConversationInitIInv == Init => ConversationIInv
<1> SUFFICES ASSUME Init PROVE ConversationIInv
  OBVIOUS
<1>1. << >> \in Seq(Items) /\ Whole(<< >>)
  BY DEF Whole
<1>2. TypeOK
  BY <1>1, Names DEF Init, TypeOK
<1>3. HalfAppended /\ RowsAtOnce /\ OnlyUpdatesLose
  BY Names DEF Init, HalfAppended, RowsAtOnce, OnlyUpdatesLose, Recorded
<1>4. RowsAreWhole
  BY <1>1 DEF Init, RowsAreWhole
<1> QED
  BY <1>2, <1>3, <1>4 DEF ConversationIInv

(* Get changes only what its caller has seen, and a caller that has updated  *)
(* does not read again.                                                      *)
LEMMA ReadSteps ==
  ASSUME ConversationIInv, NEW c \in Clients, GetRow(c) \/ GetPointer(c) \/ Clone(c)
  PROVE  ConversationIInv'
<1> USE Names DEF ConversationIInv
<1>1. TypeOK'
  <2>1. CASE GetRow(c)
    BY <2>1 DEF GetRow, Goto, TypeOK
  <2>2. CASE GetPointer(c)
    BY <2>2 DEF GetPointer, NoPointer, Goto, TypeOK
  <2>3. CASE Clone(c)
    <3>1. <<<<Junk, Junk>>>> \in Seq(Items)
      BY DEF Items
    <3>2. CloneReads(c) \subseteq Seq(Items)
      <4>1. items[held[c]] \in Seq(Items)
        BY <2>3 DEF Clone, TypeOK, RowsAtOnce
      <4>2. CloneReads(c) \subseteq {items[held[c]], <<<<Junk, Junk>>>>}
        BY Zenon DEF CloneReads
      <4> QED
        BY <3>1, <4>1, <4>2
    <3> QED
      BY <2>3, <3>2 DEF Clone, Goto, TypeOK
  <2> QED
    BY <2>1, <2>2, <2>3
<1>2. /\ UNCHANGED <<inMemory, current, items, appending>>
      /\ pc[c] \in {"idle", "cloning"} /\ pc'[c] \in {"notfound", "loaded", "cloning"}
      /\ \A d \in Clients : d # c => pc'[d] = pc[d] /\ seen'[d] = seen[d]
  BY DEF GetRow, GetPointer, Clone, Goto, TypeOK
<1>3. HalfAppended'
  BY <1>2 DEF HalfAppended
<1>4. RowsAtOnce'
  BY <1>2 DEF RowsAtOnce, GetRow, GetPointer, NoPointer, Clone, Goto, TypeOK
<1>5. OnlyUpdatesLose'
  <2>1. Recorded' = Recorded
    BY <1>2 DEF Recorded
  <2>2. \A u \in Updaters : pc[u] = "updated" => pc'[u] = "updated" /\ seen'[u] = seen[u]
    BY <1>2
  <2> QED
    BY <1>2, <2>1, <2>2 DEF OnlyUpdatesLose
<1>6. RowsAreWhole'
  <2>1. ASSUME ~inMemory PROVE GetRow(c) /\ (current # Gone => Whole(items[current]))
    BY <2>1 DEF RowsAtOnce, RowsAreWhole, GetPointer, Clone, TypeOK
  <2> QED
    BY <1>2, <2>1 DEF RowsAreWhole, GetRow, TypeOK
<1> QED
  BY <1>1, <1>3, <1>4, <1>5, <1>6

(* A call that ends without a write, and a deletion.                         *)
LEMMA QuietSteps ==
  ASSUME ConversationIInv,
         \/ \E c \in Clients : StoreFails(c)
         \/ \E t \in Turns : ModelFails(t)
         \/ Delete
  PROVE  ConversationIInv'
<1> USE Names DEF ConversationIInv
<1>1. CASE Delete
  BY <1>1 DEF Delete, Free, TypeOK, HalfAppended, RowsAtOnce, OnlyUpdatesLose, RowsAreWhole
<1>2. ASSUME NEW c \in Clients, StoreFails(c) \/ ModelFails(c)
      PROVE  ConversationIInv'
  <2>1. TypeOK'
    BY <1>2 DEF StoreFails, ModelFails, Goto, TypeOK
  <2>2. /\ UNCHANGED <<inMemory, current, items, appending, held, seen>>
        /\ pc[c] = "loaded" /\ pc'[c] \in {"failed", "unrecorded"}
        /\ \A d \in Clients : d # c => pc'[d] = pc[d]
    BY <1>2 DEF StoreFails, ModelFails, Goto, TypeOK
  <2>3. Recorded' = Recorded
    BY <2>2 DEF Recorded
  <2>4. \A u \in Updaters : pc[u] = "updated" => pc'[u] = "updated"
    BY <2>2
  <2>5. OnlyUpdatesLose'
    BY <2>2, <2>3, <2>4 DEF OnlyUpdatesLose
  <2>6. HalfAppended' /\ RowsAtOnce' /\ RowsAreWhole'
    BY <2>2 DEF HalfAppended, RowsAtOnce, RowsAreWhole
  <2> QED
    BY <2>1, <2>5, <2>6
<1> QED
  BY <1>1, <1>2

(* Extending the living conversation loses nothing of it.                    *)
LEMMA ExtendedLosesNothing ==
  ASSUME TypeOK, OnlyUpdatesLose, current # Gone, NEW t \in Turns, NEW added \in Seq(Items),
         UNCHANGED <<current, seen>>,
         items' = [items EXCEPT ![current] = @ \o added],
         \A d \in Clients : d # t => pc'[d] = pc[d],
         pc'[t] = "recorded" => Has(items'[current], t)
  PROVE  OnlyUpdatesLose'
<1> SUFFICES ASSUME NEW q \in Recorded', ~Has(items'[current], q)
             PROVE  \E u \in Updaters : pc'[u] = "updated" /\ ~Has(seen[u], q)
  BY DEF OnlyUpdatesLose
<1>1. current \in Objects /\ items[current] \in Seq(Items)
  BY DEF TypeOK
<1>2. items'[current] = items[current] \o added
  BY <1>1 DEF TypeOK
<1>3. q # t /\ q \in Recorded
  BY Names DEF Recorded
<1>4. ~Has(items[current], q)
  BY <1>1, <1>2, HasExtended
<1> QED
  BY <1>3, <1>4, Names DEF OnlyUpdatesLose

(* AppendItems on SQLite: one step, and the exchange is there, whole.        *)
LEMMA AppendRowStep ==
  ASSUME ConversationIInv, NEW t \in Turns, AppendRow(t)
  PROVE  ConversationIInv'
<1> USE Names DEF ConversationIInv
<1> DEFINE added == <<<<t, "input">>, <<t, "output">>>>
<1>1. /\ current \in Objects /\ current # Gone /\ items[current] \in Seq(Items) /\ ~inMemory
      /\ added \in Seq(Items) /\ items[current] \o added \in Seq(Items)
  BY DEF AppendRow, TypeOK, Items
<1>2. /\ items' = [items EXCEPT ![current] = @ \o added]
      /\ UNCHANGED <<inMemory, current, appending, held, seen>>
      /\ pc'[t] = "recorded" /\ \A d \in Clients : d # t => pc'[d] = pc[d]
  BY DEF AppendRow, Extend, Goto, TypeOK
<1>3. Has(items[current] \o added, t)
  BY <1>1, HasAppended
<1>4. ~inMemory => Whole(items[current] \o added)
  BY <1>1, WholeExtended DEF RowsAreWhole
<1> HIDE DEF added
<1>5. TypeOK'
  BY <1>1, <1>2 DEF AppendRow, Goto, TypeOK
<1>6. items'[current] = items[current] \o added
  BY <1>1, <1>2 DEF TypeOK
<1>7. OnlyUpdatesLose'
  BY <1>1, <1>2, <1>3, <1>6, ExtendedLosesNothing
<1>8. HalfAppended' /\ RowsAtOnce'
  BY <1>1, <1>2 DEF HalfAppended, RowsAtOnce
<1>9. RowsAreWhole'
  BY <1>1, <1>2, <1>4 DEF RowsAreWhole, TypeOK
<1> QED
  BY <1>5, <1>7, <1>8, <1>9

(* AppendItems in memory: the input is written under the mutex ...           *)
LEMMA AppendInputStep ==
  ASSUME ConversationIInv, NEW t \in Turns, AppendInput(t)
  PROVE  ConversationIInv'
<1> USE Names DEF ConversationIInv
<1> DEFINE added == <<<<t, "input">>>>
<1>1. /\ current \in Objects /\ current # Gone /\ items[current] \in Seq(Items) /\ inMemory
      /\ added \in Seq(Items) /\ Len(added) = 1 /\ added[1] = <<t, "input">>
      /\ items[current] \o added \in Seq(Items)
  BY DEF AppendInput, TypeOK, Items
<1>2. /\ items' = [items EXCEPT ![current] = @ \o added]
      /\ UNCHANGED <<inMemory, current, held, seen>> /\ appending' = t
      /\ pc'[t] = "appending" /\ \A d \in Clients : d # t => pc'[d] = pc[d]
  BY DEF AppendInput, Extend, Goto, TypeOK
<1> HIDE DEF added
<1>3. TypeOK'
  BY <1>1, <1>2 DEF AppendInput, Goto, TypeOK
<1>4. items'[current] = items[current] \o added
  BY <1>1, <1>2 DEF TypeOK
<1>5. Len(items'[current]) = Len(items[current]) + 1
      /\ items'[current][Len(items[current]) + 1] = <<t, "input">>
  <2>1. /\ Len(items[current] \o added) = Len(items[current]) + Len(added)
        /\ \A j \in 1 .. Len(items[current]) + Len(added) :
             (items[current] \o added)[j] =
               IF j <= Len(items[current]) THEN items[current][j] ELSE added[j - Len(items[current])]
    BY <1>1, ConcatProperties
  <2>2. Len(items[current]) \in Nat
    BY <1>1
  <2> QED
    BY <1>1, <1>4, <2>1, <2>2
<1>6. HalfAppended'
  <2>1. Len(items[current]) \in Nat
    BY <1>1
  <2> QED
    BY <1>1, <1>2, <1>5, <2>1 DEF HalfAppended
<1>7. OnlyUpdatesLose'
  BY <1>1, <1>2, ExtendedLosesNothing
<1>8. RowsAtOnce' /\ RowsAreWhole'
  BY <1>1, <1>2 DEF RowsAtOnce, RowsAreWhole
<1> QED
  BY <1>3, <1>6, <1>7, <1>8

(* ... and then its output, which completes the exchange.                    *)
LEMMA AppendOutputStep ==
  ASSUME ConversationIInv, NEW t \in Turns, AppendOutput(t)
  PROVE  ConversationIInv'
<1> USE Names DEF ConversationIInv
<1> DEFINE added == <<<<t, "output">>>>
<1>1. /\ current \in Objects /\ current # Gone /\ items[current] \in Seq(Items) /\ inMemory
      /\ Len(items[current]) > 0 /\ items[current][Len(items[current])] = <<t, "input">>
      /\ <<t, "output">> \in Items /\ added \in Seq(Items)
  BY DEF AppendOutput, HalfAppended, TypeOK, Items
<1>2. Append(items[current], <<t, "output">>) = items[current] \o added
  BY <1>1, AppendIsConcat
<1>3. /\ items' = [items EXCEPT ![current] = @ \o added]
      /\ UNCHANGED <<inMemory, current, held, seen>> /\ appending' = None
      /\ pc'[t] = "recorded" /\ \A d \in Clients : d # t => pc'[d] = pc[d]
  BY <1>2 DEF AppendOutput, Goto, TypeOK
<1>4. Has(items[current] \o added, t)
  BY <1>1, <1>2, HasCompleted
<1>5. items[current] \o added \in Seq(Items)
  BY <1>1, ConcatProperties
<1> HIDE DEF added
<1>6. TypeOK'
  BY <1>1, <1>3, <1>5 DEF AppendOutput, Goto, TypeOK
<1>7. items'[current] = items[current] \o added
  BY <1>1, <1>3 DEF TypeOK
<1>8. OnlyUpdatesLose'
  BY <1>1, <1>3, <1>4, <1>7, ExtendedLosesNothing
<1>9. HalfAppended' /\ RowsAtOnce' /\ RowsAreWhole'
  BY <1>1, <1>3 DEF HalfAppended, RowsAtOnce, RowsAreWhole
<1> QED
  BY <1>6, <1>8, <1>9

(* UpdateConversation: the snapshot becomes the living conversation, and     *)
(* what it does not hold is lost by this update.                             *)
LEMMA UpdateStep ==
  ASSUME ConversationIInv, NEW u \in Updaters, Update(u)
  PROVE  ConversationIInv'
<1> USE Names DEF ConversationIInv
<1>1. CASE ~ Updatable
  <2>1. /\ UNCHANGED <<inMemory, current, items, appending, held, seen>> /\ current = Gone
        /\ appending = None /\ pc'[u] = "notfound"
        /\ \A d \in Clients : d # u => pc'[d] = pc[d]
    BY <1>1 DEF Update, Updatable, Free, Goto, TypeOK
  <2>2. TypeOK'
    BY <1>1 DEF Update, Goto, TypeOK
  <2>3. HalfAppended' /\ RowsAtOnce' /\ RowsAreWhole' /\ OnlyUpdatesLose'
    BY <2>1 DEF HalfAppended, RowsAtOnce, RowsAreWhole, OnlyUpdatesLose
  <2> QED
    BY <2>2, <2>3
<1>2. CASE Updatable
  <2>1. /\ current # Gone /\ current' = u /\ items' = [items EXCEPT ![u] = seen[u]]
        /\ UNCHANGED <<inMemory, appending, held, seen>> /\ appending = None
        /\ pc'[u] = "updated" /\ \A d \in Clients : d # u => pc'[d] = pc[d]
    BY <1>2 DEF Update, Updatable, Free, Goto, TypeOK
  <2>2. TypeOK'
    BY <1>2 DEF Update, Goto, TypeOK
  <2>3. items'[u] = seen[u]
    BY <2>1 DEF TypeOK
  <2>4. OnlyUpdatesLose'
    BY <2>1, <2>3 DEF OnlyUpdatesLose
  <2>5. HalfAppended' /\ RowsAtOnce'
    BY <2>1 DEF HalfAppended, RowsAtOnce
  <2>6. RowsAreWhole'
    BY <2>1, <2>3 DEF RowsAreWhole, TypeOK
  <2> QED
    BY <2>2, <2>4, <2>5, <2>6
<1> QED
  BY <1>1, <1>2

(* The inductive invariant holds in every reachable state.                   *)
THEOREM ConversationInvariance == Spec => []ConversationIInv
<1>1. ConversationIInv /\ [Next]_vars => ConversationIInv'
  <2> SUFFICES ASSUME ConversationIInv, [Next]_vars PROVE ConversationIInv'
    OBVIOUS
  <2>1. CASE UNCHANGED vars
    BY <2>1 DEF vars, ConversationIInv, TypeOK, HalfAppended, RowsAtOnce, OnlyUpdatesLose,
                RowsAreWhole, Recorded
  <2> QED
    BY <2>1, ReadSteps, QuietSteps, AppendRowStep, AppendInputStep, AppendOutputStep, UpdateStep
    DEF Next
<1> QED
  BY ConversationInitIInv, <1>1, PTL DEF Spec

(* Turns that end at once keep each other's exchanges: one only disappears   *)
(* through a metadata update whose snapshot did not hold it whole; and on    *)
(* SQLite nobody is ever given half an exchange (AppendItems, Get, Update).  *)
THEOREM TurnsKeepExchanges == Spec => []ExchangesAreKept
<1>1. ConversationIInv => ExchangesAreKept
  BY DEF ConversationIInv, ExchangesAreKept
<1> QED
  BY ConversationInvariance, <1>1, PTL

-----------------------------------------------------------------------------
(* The batch.                                                                *)

Records == [status : Statuses, file : BOOLEAN, logged : BOOLEAN, results : BOOLEAN]

(* Once a call has begun its copy is a record, never the empty row.          *)
CallStates ==
  [op : {"none"}, at : {"idle"}, copy : {None}]
    \cup [op : {"get", "cancel", "results"}, at : {"ask", "recheck", "clean", "write"},
          copy : Records]

BatchTypeOK ==
  /\ request \in Requests
  /\ creating \in {"select", "prepare", "submit", "store", "rollback", "rollback stored",
                   "rollback batch", "created", "failed"}
  /\ rewritten \in {"none", "present", "deleted"}
  /\ upstream \in Statuses \cup {"none"}
  /\ finished \in SUBSET BatchItems
  /\ hints \in BOOLEAN
  /\ row \in Records \cup {None}
  /\ call \in [BatchCalls -> CallStates]
  /\ given \in SUBSET {"batch", "file"}

(* A row of the usage table is named by its item alone.                      *)
UsageNamedByItem == \A u \in usage : u = [item |-> u.item, id |-> u.item]

(* What holds of the record holds of every copy that may be written over it: *)
(* an end in it is the provider's, and it names the rewritten file for as    *)
(* long as there is one.                                                     *)
IsTrue(copy) ==
  /\ copy.status \in Terminal => copy.status = upstream
  /\ rewritten = "present" => copy.file = TRUE

RecordsAreTrue ==
  /\ row # None => creating = "created" /\ IsTrue(row)
  /\ creating = "created" => row \in Records /\ IsTrue(row)
  /\ \A c \in BatchCalls : call[c].at # "idle" =>
       /\ creating = "created" /\ IsTrue(call[c].copy)
       /\ call[c].at = "clean" => call[c].copy.status \in Terminal

(* The file of a batch that was created goes only after the batch has ended. *)
FileIsKept ==
  creating = "created" /\ upstream \notin Terminal => rewritten # "deleted"

(* What each place of Create leaves to the clean-up that may follow.         *)
CreationIsTidy ==
  /\ creating \in {"select", "prepare", "submit"} => upstream = "none" /\ ~hints
  /\ creating \in {"select", "prepare"} => rewritten = "none"
  /\ creating \in {"submit", "store"} => rewritten # "deleted"
  /\ creating \in {"store", "created"} => upstream # "none"
  /\ creating = "rollback" => upstream # "in_progress" \/ "batch" \in given
  /\ creating \in {"rollback", "rollback batch", "created", "failed"} => ~hints
  /\ creating \in {"rollback batch", "failed"} => rewritten # "present" \/ "file" \in given
  /\ creating = "failed" => upstream # "in_progress" \/ "batch" \in given

(* Beyond the selection, the items of an inline batch are its provider's.    *)
ItemsAreTheProviders ==
  creating \notin {"select", "failed"} /\ request.source = "inline" =>
    \A i \in DOMAIN request.models : request.models[i] = provider

BatchIInv ==
  /\ BatchTypeOK
  /\ UsageNamedByItem
  /\ RecordsAreTrue
  /\ FileIsKept
  /\ CreationIsTidy
  /\ ItemsAreTheProviders

(* Before its creation a batch has nothing to be wrong about.                *)
LEMMA BatchBegins == BatchInit => BatchIInv
<1> SUFFICES ASSUME BatchInit PROVE BatchIInv
  OBVIOUS
<1> USE DEF BatchInit, Idle
<1>1. BatchTypeOK
  <2>1. call \in [BatchCalls -> CallStates]
    BY DEF CallStates
  <2> QED
    BY <2>1 DEF BatchTypeOK
<1>2. UsageNamedByItem /\ RecordsAreTrue /\ FileIsKept /\ CreationIsTidy /\ ItemsAreTheProviders
  BY DEF UsageNamedByItem, RecordsAreTrue, FileIsKept, CreationIsTidy, ItemsAreTheProviders
<1> QED
  BY <1>1, <1>2 DEF BatchIInv

(* The provider of an inline batch is that of every item.                    *)
LEMMA SelectionSuitsItems ==
  ASSUME BatchTypeOK, request.source = "inline", Selection # None
  PROVE  \A i \in DOMAIN request.models : request.models[i] = Selection
<1>1. PICK p \in Providers : \A i \in DOMAIN request.models : request.models[i] = p
  BY DEF Selection, InlineProvider
<1>2. Selection = request.models[1]
  BY DEF Selection, InlineProvider
<1>3. PICK n \in 0 .. MaxInline : request.models \in [1 .. n -> Providers \cup {None}]
  BY DEF BatchTypeOK, Requests, MaxInline
<1>4. DOMAIN request.models = 1 .. n /\ n \in Nat
  BY <1>3 DEF MaxInline
<1>5. ASSUME NEW i \in DOMAIN request.models PROVE request.models[i] = Selection
  <2>1. 1 \in DOMAIN request.models
    BY <1>4, <1>5
  <2> QED
    BY <1>1, <1>2, <2>1
<1> QED
  BY <1>5

(* A creation goes on, or fails before there is a record.                    *)
LEMMA CreationKeeps ==
  ASSUME BatchIInv,
         \/ Refuse \/ Select \/ Prepare \/ Submit \/ SubmitFails \/ Store
         \/ StoreBatchFails \/ RollBackFile \/ RollBackBatch
  PROVE  BatchIInv'
<1> USE DEF BatchIInv, BatchTypeOK, Statuses, Terminal
<1> USE DEF UsageNamedByItem, RecordsAreTrue, IsTrue, FileIsKept, CreationIsTidy,
            ItemsAreTheProviders
<1>1. CASE Refuse
  BY <1>1 DEF Refuse, CreationFails
<1>2. CASE Select
  BY <1>2, SelectionSuitsItems DEF Select
<1>3. CASE Prepare
  BY <1>3 DEF Prepare, CreationFails
<1>4. CASE Submit
  BY <1>4 DEF Submit
<1>5. CASE SubmitFails
  BY <1>5 DEF SubmitFails
<1>6. CASE Store
  BY <1>6 DEF Store, Records
<1>7. CASE StoreBatchFails
  BY <1>7 DEF StoreBatchFails
<1>8. CASE RollBackFile
  BY <1>8 DEF RollBackFile
<1>9. CASE RollBackBatch
  BY <1>9 DEF RollBackBatch, CancelledBy
<1> QED
  BY <1>1, <1>2, <1>3, <1>4, <1>5, <1>6, <1>7, <1>8, <1>9

(* A call that leaves, or goes on with a record, keeps its type.             *)
LEMMA CallMoves ==
  ASSUME NEW c \in BatchCalls, call \in [BatchCalls -> CallStates],
         \/ Leaves(c)
         \/ /\ call[c].at # "idle"
            /\ \E place \in {"ask", "recheck", "clean", "write"}, copy \in Records :
                 Goes(c, place, copy)
  PROVE  /\ call' \in [BatchCalls -> CallStates]
         /\ \A d \in BatchCalls : d # c => call'[d] = call[d]
<1>1. CASE Leaves(c)
  BY <1>1 DEF Leaves, Idle, CallStates
<1>2. CASE \E place \in {"ask", "recheck", "clean", "write"}, copy \in Records :
             call[c].at # "idle" /\ Goes(c, place, copy)
  <2>1. PICK place \in {"ask", "recheck", "clean", "write"}, copy \in Records : Goes(c, place, copy)
    BY <1>2
  <2>2. [call[c] EXCEPT !.at = place, !.copy = copy] \in CallStates
    BY <1>2 DEF CallStates
  <2> QED
    BY <2>1, <2>2 DEF Goes
<1> QED
  BY <1>1, <1>2

(* Where a call is and what it carries after it went on.                     *)
LEMMA CallGoes ==
  ASSUME NEW c \in BatchCalls, call \in [BatchCalls -> CallStates], call[c].at # "idle",
         NEW place \in {"ask", "recheck", "clean", "write"}, NEW copy \in Records,
         Goes(c, place, copy)
  PROVE  /\ call' \in [BatchCalls -> CallStates]
         /\ \A d \in BatchCalls : d # c => call'[d] = call[d]
         /\ call'[c].at = place /\ call'[c].copy = copy
<1>1. call'[c] = [call[c] EXCEPT !.at = place, !.copy = copy]
  BY DEF Goes
<1>2. call[c] \in CallStates
  OBVIOUS
<1>3. call'[c].at = place /\ call'[c].copy = copy
  BY <1>1, <1>2 DEF CallStates
<1> QED
  BY <1>3, CallMoves

(* A call cleans up only for a copy that says the batch has ended.           *)
LEMMA CallContinues ==
  ASSUME NEW c \in BatchCalls, call \in [BatchCalls -> CallStates], call[c].at # "idle",
         NEW copy \in Records, Continues(c, copy)
  PROVE  /\ call' \in [BatchCalls -> CallStates]
         /\ \A d \in BatchCalls : d # c => call'[d] = call[d]
         /\ call'[c].copy = copy
         /\ call'[c].at = "clean" => copy.status \in Terminal
<1>1. CASE IsTerminalBatchStatus(copy.status) /\ copy.file
  <2>1. Goes(c, "clean", copy)
    BY <1>1 DEF Continues
  <2> QED
    BY <1>1, <2>1, CallGoes DEF IsTerminalBatchStatus
<1>2. CASE ~(IsTerminalBatchStatus(copy.status) /\ copy.file)
  <2>1. Goes(c, "write", copy)
    BY <1>2 DEF Continues
  <2> QED
    BY <2>1, CallGoes
<1> QED
  BY <1>1, <1>2

(* ... or after it left.                                                     *)
LEMMA CallLeaves ==
  ASSUME NEW c \in BatchCalls, call \in [BatchCalls -> CallStates], Leaves(c)
  PROVE  /\ call' \in [BatchCalls -> CallStates]
         /\ \A d \in BatchCalls : d # c => call'[d] = call[d]
         /\ call'[c].at = "idle"
BY CallMoves DEF Leaves, Idle

(* What a call carries while it is not idle.                                 *)
LEMMA CallCarries ==
  ASSUME BatchIInv, NEW c \in BatchCalls, call[c].at # "idle"
  PROVE  /\ call[c].copy \in Records /\ IsTrue(call[c].copy)
         /\ creating = "created" /\ row \in Records /\ IsTrue(row)
         /\ call[c].op \in {"get", "cancel", "results"}
BY DEF BatchIInv, BatchTypeOK, CallStates, RecordsAreTrue

(* A copy merged with the provider's status is a true one.                   *)
LEMMA MergedIsTrue ==
  ASSUME NEW copy \in Records, NEW status,
         status # None => status \in Statuses
  PROVE  LET merged == MergeStoredBatchFromUpstream(copy, status) IN
         /\ merged \in Records
         /\ merged.status = IF status = None THEN copy.status ELSE status
         /\ merged.file = copy.file
BY DEF MergeStoredBatchFromUpstream, Records

(* A copy or a record that stays true by what the step does.                 *)
StaysTrue(copy) ==
  /\ copy.status \in Terminal => copy.status = upstream'
  /\ rewritten' = "present" => copy.file = TRUE

(* What the steps of the calls have in common: they change the record by     *)
(* copies that are true of the batch, and remove the file of a batch that    *)
(* has ended.                                                                *)
LEMMA CallStepKeeps ==
  ASSUME BatchIInv, NEW c \in BatchCalls, creating = "created",
         request' = request, creating' = creating, provider' = provider,
         finished' = finished, hints' = hints, given' = given,
         upstream \in Terminal => upstream' = upstream,
         upstream' \in Statuses,
         rewritten' = rewritten \/ (upstream \in Terminal /\ rewritten' = "deleted"),
         row' \in Records, row' # row => StaysTrue(row'),
         call' \in [BatchCalls -> CallStates],
         \A d \in BatchCalls : d # c => call'[d] = call[d],
         call'[c].at # "idle" => StaysTrue(call'[c].copy),
         call'[c].at = "clean" => call'[c].copy.status \in Terminal,
         UsageNamedByItem'
  PROVE  BatchIInv'
<1>1. BatchTypeOK'
  BY DEF BatchIInv, BatchTypeOK
<1>2. ASSUME NEW copy, IsTrue(copy) PROVE StaysTrue(copy)
  BY <1>2 DEF IsTrue, StaysTrue
<1>3. StaysTrue(row')
  BY <1>2 DEF BatchIInv, RecordsAreTrue
<1>4. ASSUME NEW d \in BatchCalls, call'[d].at # "idle"
      PROVE  /\ StaysTrue(call'[d].copy)
             /\ call'[d].at = "clean" => call'[d].copy.status \in Terminal
  BY <1>2, <1>4 DEF BatchIInv, RecordsAreTrue
<1>5. RecordsAreTrue'
  BY <1>3, <1>4 DEF RecordsAreTrue, IsTrue, StaysTrue
<1>6. FileIsKept'
  BY DEF BatchIInv, FileIsKept
<1>7. CreationIsTidy'
  BY DEF BatchIInv, CreationIsTidy, Statuses, Terminal
<1>8. ItemsAreTheProviders'
  BY DEF BatchIInv, ItemsAreTheProviders
<1> QED
  BY <1>1, <1>5, <1>6, <1>7, <1>8 DEF BatchIInv

(* The steps of a call: its copy of the record stays true of the batch.      *)
LEMMA CallKeeps ==
  ASSUME BatchIInv, NEW c \in BatchCalls,
         \/ \E op \in {"get", "cancel", "results"} : Read(c, op)
         \/ ProviderFails(c) \/ GetAnswers(c) \/ CancelAnswers(c) \/ ResultsAnswer(c)
         \/ ResultsPending(c) \/ Recheck(c) \/ Clean(c) \/ Write(c)
  PROVE  BatchIInv'
<1> DEFINE Settled == /\ row \in Records /\ creating = "created" /\ IsTrue(row)
                      /\ upstream \in Statuses
           Begun == /\ Settled /\ call[c].at # "idle"
                    /\ call[c].copy \in Records /\ IsTrue(call[c].copy)
<1> USE DEF StaysTrue, IsTrue
<1>a. call \in [BatchCalls -> CallStates]
  BY DEF BatchIInv, BatchTypeOK
<1>b. creating = "created" => Settled
  BY DEF BatchIInv, BatchTypeOK, RecordsAreTrue, CreationIsTidy
<1>c. call[c].at # "idle" => Begun
  BY <1>b, CallCarries
<1>d. usage' = usage => UsageNamedByItem'
  BY DEF BatchIInv, UsageNamedByItem
<1> HIDE DEF Settled, Begun
<1>1. ASSUME NEW op \in {"get", "cancel", "results"}, Read(c, op) PROVE BatchIInv'
  <2>1. Settled
    BY <1>1, <1>b DEF Read, BatchIInv, RecordsAreTrue
  <2>2. [op |-> op, at |-> "ask", copy |-> row] \in CallStates
    BY <2>1 DEF CallStates, Settled
  <2>3. /\ call' \in [BatchCalls -> CallStates]
        /\ \A d \in BatchCalls : d # c => call'[d] = call[d]
        /\ call'[c].at = "ask" /\ call'[c].copy = row
    BY <1>1, <1>a, <2>2 DEF Read
  <2> QED
    BY <1>1, <1>d, <2>1, <2>3, CallStepKeeps DEF Read, Settled, createVars
<1>2. CASE ProviderFails(c)
  BY <1>2, <1>a, <1>c, <1>d, CallLeaves, CallStepKeeps DEF ProviderFails, Begun, Settled, createVars
<1>3. CASE GetAnswers(c)
  <2>1. PICK status \in {upstream, None} :
          Continues(c, MergeStoredBatchFromUpstream(call[c].copy, status))
    BY <1>3 DEF GetAnswers
  <2>2. Begun
    BY <1>3, <1>c DEF GetAnswers
  <2> DEFINE copy == MergeStoredBatchFromUpstream(call[c].copy, status)
  <2>3. copy \in Records /\ IsTrue(copy)
    BY <2>2, MergedIsTrue DEF Begun, Settled, createVars
  <2>4. Continues(c, copy)
    BY <2>1
  <2> HIDE DEF copy
  <2>5. /\ call' \in [BatchCalls -> CallStates]
        /\ \A d \in BatchCalls : d # c => call'[d] = call[d]
        /\ call'[c].copy = copy
        /\ call'[c].at = "clean" => copy.status \in Terminal
    BY <1>a, <2>2, <2>3, <2>4, CallContinues DEF Begun
  <2> QED
    BY <1>3, <1>d, <2>2, <2>3, <2>5, CallStepKeeps DEF GetAnswers, Begun, Settled, createVars
<1>4. CASE CancelAnswers(c)
  <2>1. Begun
    BY <1>4, <1>c DEF CancelAnswers
  <2> DEFINE copy == MergeStoredBatchFromUpstream(call[c].copy, upstream')
  <2>2. upstream' \in Statuses /\ (upstream \in Terminal => upstream' = upstream)
    BY <1>4, <2>1 DEF CancelAnswers, CancelledBy, Begun, Settled, Statuses, Terminal
  <2>3. copy \in Records /\ StaysTrue(copy)
    BY <1>4, <2>1, <2>2, MergedIsTrue DEF CancelAnswers, Begun
  <2>4. Continues(c, copy)
    BY <1>4 DEF CancelAnswers
  <2> HIDE DEF copy
  <2>5. /\ call' \in [BatchCalls -> CallStates]
        /\ \A d \in BatchCalls : d # c => call'[d] = call[d]
        /\ call'[c].copy = copy
        /\ call'[c].at = "clean" => copy.status \in Terminal
    BY <1>a, <2>1, <2>3, <2>4, CallContinues DEF Begun
  <2> QED
    BY <1>4, <1>d, <2>1, <2>2, <2>3, <2>5, CallStepKeeps DEF CancelAnswers, Begun, Settled, createVars
<1>5. CASE ResultsAnswer(c)
  <2>1. Begun
    BY <1>5, <1>c DEF ResultsAnswer
  <2> DEFINE copy == IF finished = {} THEN call[c].copy
                     ELSE [call[c].copy EXCEPT !.results = TRUE, !.logged = TRUE]
  <2>2. copy \in Records /\ IsTrue(copy)
    BY <2>1 DEF Begun, Records
  <2>3. UsageNamedByItem'
    BY <1>5 DEF ResultsAnswer, LogUsage, deterministicBatchUsageID, BatchIInv, UsageNamedByItem
  <2>4. Leaves(c) \/ Continues(c, copy)
    BY <1>5 DEF ResultsAnswer
  <2> HIDE DEF copy
  <2>5. CASE Leaves(c)
    BY <1>5, <1>a, <2>1, <2>3, <2>5, CallLeaves, CallStepKeeps DEF ResultsAnswer, Begun, Settled, createVars
  <2>6. CASE Continues(c, copy)
    <3>1. /\ call' \in [BatchCalls -> CallStates]
          /\ \A d \in BatchCalls : d # c => call'[d] = call[d]
          /\ call'[c].copy = copy
          /\ call'[c].at = "clean" => copy.status \in Terminal
      BY <1>a, <2>1, <2>2, <2>6, CallContinues DEF Begun
    <3> QED
      BY <1>5, <2>1, <2>2, <2>3, <3>1, CallStepKeeps DEF ResultsAnswer, Begun, Settled, createVars
  <2> QED
    BY <2>4, <2>5, <2>6
<1>6. CASE ResultsPending(c)
  <2>1. Begun
    BY <1>6, <1>c DEF ResultsPending
  <2>2. CASE Leaves(c)
    BY <1>6, <1>a, <1>d, <2>1, <2>2, CallLeaves, CallStepKeeps DEF ResultsPending, Begun, Settled, createVars
  <2>3. CASE Goes(c, "recheck", call[c].copy)
    <3>1. /\ call' \in [BatchCalls -> CallStates]
          /\ \A d \in BatchCalls : d # c => call'[d] = call[d]
          /\ call'[c].at = "recheck" /\ call'[c].copy = call[c].copy
      BY <1>a, <2>1, <2>3, CallGoes DEF Begun
    <3> QED
      BY <1>6, <1>d, <2>1, <3>1, CallStepKeeps DEF ResultsPending, Begun, Settled, createVars
  <2> QED
    BY <1>6, <2>2, <2>3 DEF ResultsPending
<1>7. CASE Recheck(c)
  <2>1. Begun
    BY <1>7, <1>c DEF Recheck
  <2> DEFINE copy == MergeStoredBatchFromUpstream(call[c].copy, upstream)
  <2>2. copy \in Records /\ IsTrue(copy)
    BY <2>1, MergedIsTrue DEF Begun, Settled, createVars
  <2>3. Leaves(c) \/ Goes(c, "write", copy)
    BY <1>7 DEF Recheck
  <2> HIDE DEF copy
  <2>4. CASE Leaves(c)
    BY <1>7, <1>a, <1>d, <2>1, <2>4, CallLeaves, CallStepKeeps DEF Recheck, Begun, Settled, createVars
  <2>5. CASE Goes(c, "write", copy)
    <3>1. /\ call' \in [BatchCalls -> CallStates]
          /\ \A d \in BatchCalls : d # c => call'[d] = call[d]
          /\ call'[c].at = "write" /\ call'[c].copy = copy
      BY <1>a, <2>1, <2>2, <2>5, CallGoes DEF Begun
    <3> QED
      BY <1>7, <1>d, <2>1, <2>2, <3>1, CallStepKeeps DEF Recheck, Begun, Settled, createVars
  <2> QED
    BY <2>3, <2>4, <2>5
<1>8. CASE Clean(c)
  <2>1. PICK deleted \in BOOLEAN :
          /\ deleted => rewritten = "present"
          /\ rewritten' = IF deleted THEN "deleted" ELSE rewritten
          /\ Leaves(c) \/ Goes(c, "write", CleanedCopy(call[c].copy, deleted))
    BY <1>8 DEF Clean
  <2>2. Begun /\ upstream \in Terminal
    BY <1>8, <1>c DEF Clean, Begun, BatchIInv, RecordsAreTrue
  <2> DEFINE copy == CleanedCopy(call[c].copy, deleted)
  <2>3. copy \in Records /\ (copy.status \in Terminal => copy.status = upstream)
    BY <2>2 DEF CleanedCopy, Records, Begun
  <2>4. rewritten' = "present" => copy.file = TRUE
    BY <2>1, <2>2 DEF CleanedCopy, Records, Begun
  <2>5. Leaves(c) \/ Goes(c, "write", copy)
    BY <2>1
  <2> HIDE DEF copy
  <2>6. CASE Leaves(c)
    BY <1>8, <1>a, <1>d, <2>1, <2>2, <2>6, CallLeaves, CallStepKeeps DEF Clean, Begun, Settled, createVars
  <2>7. CASE Goes(c, "write", copy)
    <3>1. /\ call' \in [BatchCalls -> CallStates]
          /\ \A d \in BatchCalls : d # c => call'[d] = call[d]
          /\ call'[c].at = "write" /\ call'[c].copy = copy
      BY <1>a, <2>2, <2>3, <2>7, CallGoes DEF Begun
    <3> QED
      BY <1>8, <1>d, <2>1, <2>2, <2>3, <2>4, <3>1, CallStepKeeps DEF Clean, Begun, Settled, createVars
  <2> QED
    BY <2>5, <2>6, <2>7
<1>9. CASE Write(c)
  BY <1>9, <1>a, <1>c, <1>d, CallLeaves, CallStepKeeps DEF Write, Begun, Settled, createVars
<1> QED
  BY <1>1, <1>2, <1>3, <1>4, <1>5, <1>6, <1>7, <1>8, <1>9

(* The provider works on, and the process may restart.                       *)
LEMMA SurroundingsKeep ==
  ASSUME BatchIInv, ItemFinishes \/ BatchEnds \/ Restart
  PROVE  BatchIInv'
<1> USE DEF BatchIInv, BatchTypeOK, Statuses, Terminal
<1> USE DEF UsageNamedByItem, RecordsAreTrue, IsTrue, FileIsKept, CreationIsTidy,
            ItemsAreTheProviders
<1>1. CASE ItemFinishes
  BY <1>1 DEF ItemFinishes, createVars
<1>2. CASE BatchEnds
  <2>1. upstream \in {"in_progress", "cancelling"} /\ upstream' \in Terminal
    BY <1>2 DEF BatchEnds
  <2>2. UNCHANGED <<creating, request, provider, rewritten, finished, hints, row, call, given, usage>>
    BY <1>2 DEF BatchEnds, createVars
  <2>3. (UsageNamedByItem /\ FileIsKept /\ CreationIsTidy /\ ItemsAreTheProviders)'
    BY <2>1, <2>2
  <2>4. \A copy : IsTrue(copy) => IsTrue(copy)'
    BY <2>1, <2>2
  <2>5. RecordsAreTrue'
    BY <2>2, <2>4
  <2> QED
    BY <1>2, <2>1, <2>2, <2>3, <2>5 DEF BatchEnds, createVars
<1>3. CASE Restart
  <2>1. call' \in [BatchCalls -> CallStates] /\ \A c \in BatchCalls : call'[c].at = "idle"
    BY <1>3 DEF Restart, Idle, CallStates
  <2> QED
    BY <1>3, <2>1 DEF Restart
<1> QED
  BY <1>1, <1>2, <1>3

(* The invariant of a batch: its creation, the calls on it, and what the     *)
(* provider and a restart do between two of their steps keep it.             *)
THEOREM BatchInvariance == BatchSpec => []BatchIInv
<1>1. BatchIInv /\ [BatchNext]_batchVars => BatchIInv'
  <2> SUFFICES ASSUME BatchIInv, [BatchNext]_batchVars PROVE BatchIInv'
    OBVIOUS
  <2>1. CASE UNCHANGED batchVars
    <3> USE <2>1 DEF batchVars, BatchIInv
    <3>1. BatchTypeOK' /\ UsageNamedByItem' /\ ItemsAreTheProviders'
      BY DEF BatchTypeOK, UsageNamedByItem, ItemsAreTheProviders
    <3>2. RecordsAreTrue'
      BY DEF RecordsAreTrue, IsTrue
    <3>3. FileIsKept' /\ CreationIsTidy'
      BY DEF FileIsKept, CreationIsTidy
    <3> QED
      BY <3>1, <3>2, <3>3
  <2>2. CASE BatchNext
    BY <2>2, CreationKeeps, CallKeeps, SurroundingsKeep DEF BatchNext
  <2> QED
    BY <2>1, <2>2
<1> QED
  BY <1>1, BatchBegins, PTL DEF BatchSpec

(* However many Results calls overlap or are repeated with a stale copy of   *)
(* the record, also after a restart, an item is in the usage table once:     *)
(* UsageStoredOnce (batch_usage.go), for any items and any number of calls.  *)
THEOREM ItemsCostOnce == BatchSpec => []UsageStoredOnce
<1>1. BatchIInv => UsageStoredOnce
  BY DEF BatchIInv, UsageNamedByItem, UsageStoredOnce
<1> QED
  BY <1>1, BatchInvariance, PTL

(* The stored batch ends when and how the provider ended it, and keeps its   *)
(* input file until then: StoredEndIsTrue (batch_orchestrator.go), whatever  *)
(* stale copies concurrent calls write over the record.                      *)
THEOREM StoredEndsAreReal == BatchSpec => []StoredEndIsTrue
<1>1. BatchIInv => StoredEndIsTrue
  BY DEF BatchIInv, RecordsAreTrue, IsTrue, FileIsKept, StoredEndIsTrue
<1> QED
  BY <1>1, BatchInvariance, PTL

(* A creation that ended, well or badly, left nothing over but what a        *)
(* clean-up failed on: NothingIsLeftOver (batch_orchestrator.go), at         *)
(* whatever step it failed or was cut off.                                   *)
THEOREM CreationsEndTidily == BatchSpec => []NothingIsLeftOver
<1>1. BatchIInv => NothingIsLeftOver
  BY DEF BatchIInv, RecordsAreTrue, IsTrue, CreationIsTidy, ItemsAreTheProviders,
         NothingIsLeftOver
<1> QED
  BY <1>1, BatchInvariance, PTL

-----------------------------------------------------------------------------
(* The object of a provider.                                                 *)

Mappings == [provider : ProviderSet, status : {"active", "cancelled"}]

ClientStates ==
  [op : ResponseOps \cup FileOps \cup {None},
   at : {"ready", "explicit", "probe", "recorded", "forget", "unmap", "drop", "update",
         "answered"},
   named : BOOLEAN, copy : Mappings \cup {None}, ask : 0 .. Len(Candidates) + 1,
   error : BOOLEAN, answer : {None, "ok", "notfound", "error"}]

ObjectTypeOK ==
  /\ kind \in {"response", "file"}
  /\ holds \in [ProviderSet -> {"active", "cancelled", "absent"}]
  /\ record \in Mappings \cup {None}
  /\ client \in [NativeCalls -> ClientStates]

(* No provider comes to hold what it did not, and only those that keep       *)
(* objects do.                                                               *)
OneHolder ==
  /\ \A p, q \in ProviderSet : holds[p] # "absent" /\ holds[q] # "absent" => p = q
  /\ \A p \in ProviderSet : holds[p] # "absent" => p \in Supporting

(* A response is nowhere but at the provider its record names.               *)
AtItsProvider(stored) ==
  \A p \in ProviderSet : holds[p] # "absent" => p = stored.provider

(* What a call has established by the place it has reached: where it looks,  *)
(* whom it need not ask any more, and what its answer says.                  *)
Knows(state) ==
  /\ state.at \in {"explicit", "recorded", "update"} => state.copy \in Mappings
  /\ state.at = "explicit" => state.named = TRUE
  /\ state.at # "answered" => state.answer = None
  /\ state.at = "probe" =>
       /\ state.ask # 0
       /\ state.error = TRUE \/ \A i \in 1 .. state.ask - 1 : holds[Candidates[i]] = "absent"
  /\ state.at \in {"forget", "unmap"} => kind = "file"
  /\ state.at \in {"unmap", "drop"} => HeldNowhere
  /\ state.at = "update" => state.op = "cancel"
  /\ kind = "response" =>
       /\ state.at \in {"recorded", "update"} => AtItsProvider(state.copy)
       /\ state.at \in {"explicit", "probe"} => record = None
  /\ state.answer = "notfound" /\ kind = "file" => state.named = TRUE \/ HeldNowhere
  /\ state.answer = "ok" /\ state.op = "delete" =>
       HeldNowhere /\ (kind = "response" => record = None)

ObjectIInv ==
  /\ ObjectTypeOK
  /\ OneHolder
  /\ kind = "response" /\ record # None => AtItsProvider(record)
  /\ \A c \in NativeCalls : Knows(client[c])

(* Objects only leave, and so does the record of a response.                 *)
NothingAppears ==
  /\ holds' \in [ProviderSet -> {"active", "cancelled", "absent"}]
  /\ \A p \in ProviderSet : holds[p] = "absent" => holds'[p] = "absent"
  /\ kind' = kind
  /\ record' \in Mappings \cup {None}
  /\ record = None => record' = None
  /\ kind = "response" /\ record' # None => AtItsProvider(record')

(* What a call knows stays true while nothing appears.                       *)
LEMMA KnowledgeLasts ==
  ASSUME NothingAppears, NEW state \in ClientStates, Knows(state)
  PROVE  Knows(state)'
<1> USE DEF NothingAppears
<1>1. HeldNowhere => HeldNowhere'
  BY DEF HeldNowhere, ProviderSet
<1>2. ASSUME NEW stored, AtItsProvider(stored) PROVE AtItsProvider(stored)'
  BY <1>2 DEF AtItsProvider, ProviderSet
<1>3. ASSUME NEW i \in 1 .. state.ask - 1, holds[Candidates[i]] = "absent"
      PROVE  holds'[Candidates[i]] = "absent"
  <2>1. i \in 1 .. Len(Candidates) /\ Len(Candidates) \in Nat
    BY <1>3, ObjectsAssumption DEF ClientStates
  <2> QED
    BY <1>3, <2>1, ObjectsAssumption DEF ProviderSet
<1> QED
  BY <1>1, <1>2, <1>3 DEF Knows

(* A step of one call, and what that call knows afterwards.                  *)
LEMMA ObjectStepKeeps ==
  ASSUME ObjectIInv, NothingAppears,
         NEW c \in NativeCalls, NEW state \in ClientStates, Set(c, state), Knows(state)'
  PROVE  ObjectIInv'
<1>1. /\ client' \in [NativeCalls -> ClientStates] /\ client'[c] = state
      /\ \A d \in NativeCalls : d # c => client'[d] = client[d]
  BY DEF Set, ObjectIInv, ObjectTypeOK
<1>2. ObjectTypeOK'
  BY <1>1 DEF ObjectIInv, ObjectTypeOK, NothingAppears
<1>3. OneHolder'
  BY DEF ObjectIInv, OneHolder, NothingAppears
<1>4. (kind = "response" /\ record # None => AtItsProvider(record))'
  BY DEF NothingAppears, AtItsProvider
<1>5. ASSUME NEW d \in NativeCalls PROVE Knows(client[d])'
  <2>1. CASE d = c
    BY <1>1, <2>1
  <2>2. CASE d # c
    <3>1. client[d] \in ClientStates /\ Knows(client[d])
      BY DEF ObjectIInv, ObjectTypeOK
    <3> QED
      BY <1>1, <2>2, <3>1, KnowledgeLasts
  <2> QED
    BY <2>1, <2>2
<1> QED
  BY <1>2, <1>3, <1>4, <1>5 DEF ObjectIInv

(* A call that answers, or goes to another place.                            *)
LEMMA Answered ==
  ASSUME NEW state \in ClientStates, NEW result \in {"ok", "notfound", "error"}
  PROVE  LET new == [state EXCEPT !.at = "answered", !.answer = result] IN
         /\ new \in ClientStates
         /\ new.at = "answered" /\ new.answer = result
         /\ new.op = state.op /\ new.named = state.named
BY DEF ClientStates

(* A call that only goes to another place keeps its answer.                  *)
LEMMA Moved ==
  ASSUME NEW state \in ClientStates, NEW place \in {"forget", "unmap", "drop"}
  PROVE  LET new == [state EXCEPT !.at = place] IN
         /\ new \in ClientStates
         /\ new.at = place /\ new.answer = state.answer
BY DEF ClientStates

(* What a provider does with the object it is asked about.                   *)
LEMMA EffectOfAsking ==
  ASSUME ObjectIInv, NEW c \in NativeCalls, NEW p \in ProviderSet, NEW outcome \in Outcomes(p),
         Effect(c, p, outcome), kind' = kind, record' = record
  PROVE  /\ NothingAppears
         /\ outcome \in {"ok", "notfound", "error"}
         /\ outcome # "ok" => holds' = holds
         /\ outcome = "notfound" => holds[p] = "absent"
         /\ outcome = "ok" /\ client[c].op = "delete" => HeldNowhere'
<1>1. /\ outcome \in {"ok", "notfound", "error"}
      /\ outcome # "ok" => holds' = holds
      /\ outcome = "notfound" => holds[p] = "absent"
  BY DEF Outcomes, Absent, Effect, ObjectIInv, OneHolder
<1>2. outcome = "ok" => holds[p] # "absent"
  BY DEF Outcomes, Absent
<1>3. /\ holds' \in [ProviderSet -> {"active", "cancelled", "absent"}]
      /\ \A q \in ProviderSet : holds[q] = "absent" => holds'[q] = "absent"
  BY <1>2 DEF Effect, ObjectIInv, ObjectTypeOK
<1>4. outcome = "ok" /\ client[c].op = "delete" => HeldNowhere'
  BY <1>2 DEF Effect, ObjectIInv, ObjectTypeOK, OneHolder, HeldNowhere, ProviderSet
<1> QED
  BY <1>1, <1>3, <1>4 DEF NothingAppears, ObjectIInv, ObjectTypeOK

(* A call begins: with what the request names, with the record, or with the  *)
(* first provider to ask.                                                    *)
LEMMA StartKeeps ==
  ASSUME ObjectIInv, NEW c \in NativeCalls, NEW op \in ResponseOps \cup FileOps,
         Start(c, op) \/ StoreUnreadable(c, op)
  PROVE  ObjectIInv'
<1> DEFINE begun == [Ready EXCEPT !.op = op, !.copy = record]
<1>a. UNCHANGED <<kind, holds, record>>
  BY DEF Start, StoreUnreadable
<1>b. NothingAppears
  BY <1>a DEF NothingAppears, ObjectIInv, ObjectTypeOK
<1>c. 0 \in 0 .. Len(Candidates) + 1 /\ 1 \in 0 .. Len(Candidates) + 1
  BY ObjectsAssumption
<1>d. record \in Mappings \cup {None} /\ kind \in {"response", "file"}
  BY DEF ObjectIInv, ObjectTypeOK
<1>e. /\ Ready \in ClientStates
      /\ Ready.named = FALSE /\ Ready.error = FALSE /\ Ready.answer = None
  BY <1>c DEF Ready, ClientStates
<1>f. /\ begun \in ClientStates
      /\ begun.named = FALSE /\ begun.error = FALSE /\ begun.answer = None
      /\ begun.op = op /\ begun.copy = record
  BY <1>d, <1>e DEF ClientStates
<1>g. [Ready EXCEPT !.op = op] \in ClientStates /\ [Ready EXCEPT !.op = op].error = FALSE
      /\ [Ready EXCEPT !.op = op].answer = None
  BY <1>e DEF ClientStates
<1> HIDE DEF begun
<1>1. ASSUME kind = "file" \/ record = None, NEW p \in ProviderSet,
             NEW begins \in ClientStates, begins.answer = None,
             Set(c, [begins EXCEPT !.at = "explicit", !.named = TRUE,
                                  !.copy = [provider |-> p, status |-> "active"]])
      PROVE  ObjectIInv'
  <2> DEFINE copy == [provider |-> p, status |-> "active"]
             state == [begins EXCEPT !.at = "explicit", !.named = TRUE, !.copy = copy]
  <2>1. copy \in Mappings
    BY DEF Mappings
  <2> HIDE DEF copy
  <2>2. /\ state \in ClientStates /\ state.at = "explicit" /\ state.named = TRUE
        /\ state.copy = copy /\ state.answer = None
    BY <1>1, <2>1 DEF ClientStates
  <2>3. Set(c, state)
    BY <1>1 DEF copy
  <2> HIDE DEF state
  <2>4. Knows(state)'
    BY <1>1, <1>a, <2>1, <2>2, ObjectsAssumption DEF Knows
  <2> QED
    BY <1>b, <2>2, <2>3, <2>4, ObjectStepKeeps
<1>2. ASSUME kind = "file" \/ record = None, NEW begins \in ClientStates,
             begins.error = FALSE, begins.answer = None,
             Set(c, [begins EXCEPT !.at = "probe", !.ask = 1])
      PROVE  ObjectIInv'
  <2> DEFINE state == [begins EXCEPT !.at = "probe", !.ask = 1]
  <2>1. /\ state \in ClientStates /\ state.at = "probe" /\ state.ask = 1
        /\ state.answer = None
    BY <1>2, <1>c DEF ClientStates
  <2>2. Set(c, state)
    BY <1>2
  <2> HIDE DEF state
  <2>3. Knows(state)'
    BY <1>2, <1>a, <2>1, ObjectsAssumption DEF Knows
  <2> QED
    BY <1>b, <2>1, <2>2, <2>3, ObjectStepKeeps
<1>3. ASSUME NEW begins \in ClientStates, NEW result \in {"ok", "error"},
             result = "ok" => begins.op # "delete",
             Set(c, [begins EXCEPT !.at = "answered", !.answer = result])
      PROVE  ObjectIInv'
  <2> DEFINE state == [begins EXCEPT !.at = "answered", !.answer = result]
  <2>1. /\ state \in ClientStates /\ state.at = "answered" /\ state.answer = result
        /\ state.op = begins.op
    BY <1>3 DEF ClientStates
  <2>2. Set(c, state)
    BY <1>3
  <2> HIDE DEF state
  <2>3. Knows(state)'
    BY <1>3, <1>a, <2>1, ObjectsAssumption DEF Knows
  <2> QED
    BY <1>b, <2>1, <2>2, <2>3, ObjectStepKeeps
<1>4. ASSUME record # None, NEW begins \in ClientStates, begins.copy = record,
             begins.answer = None, Set(c, [begins EXCEPT !.at = "recorded"])
      PROVE  ObjectIInv'
  <2> DEFINE state == [begins EXCEPT !.at = "recorded"]
  <2>1. /\ state \in ClientStates /\ state.at = "recorded" /\ state.copy = record
        /\ state.answer = None
    BY <1>4 DEF ClientStates
  <2>2. Set(c, state)
    BY <1>4
  <2> HIDE DEF state
  <2>3. (kind = "response" => AtItsProvider(state.copy))'
    BY <1>4, <1>a, <2>1 DEF ObjectIInv, AtItsProvider
  <2>4. Knows(state)'
    BY <1>4, <1>a, <1>d, <2>1, <2>3, ObjectsAssumption DEF Knows
  <2> QED
    BY <1>b, <2>1, <2>2, <2>4, ObjectStepKeeps
<1>5. CASE Start(c, op)
  <2>1. CASE \E p \in ProviderSet : /\ kind = "file" \/ record = None
                                    /\ Set(c, [begun EXCEPT !.at = "explicit", !.named = TRUE,
                                         !.copy = [provider |-> p, status |-> "active"]])
    BY <1>1, <1>f, <2>1
  <2>2. CASE record = None /\ Set(c, [begun EXCEPT !.at = "probe", !.ask = 1])
    BY <1>2, <1>f, <2>2
  <2>3. CASE op \in {"get", "list items"}
             /\ Set(c, [begun EXCEPT !.at = "answered", !.answer = "ok"])
    BY <1>3, <1>f, <2>3
  <2>4. CASE record # None /\ Set(c, [begun EXCEPT !.at = "recorded"])
    BY <1>4, <1>f, <2>4
  <2> QED
    BY <1>5, <2>1, <2>2, <2>3, <2>4 DEF Start, begun
<1>6. CASE StoreUnreadable(c, op)
  <2>1. CASE kind = "response"
    <3>1. Set(c, [[Ready EXCEPT !.op = op] EXCEPT !.at = "answered", !.answer = "error"])
      BY <1>6, <2>1 DEF StoreUnreadable
    <3> QED
      BY <1>3, <1>g, <3>1
  <2>2. CASE kind = "file"
    <3>1. Set(c, [[Ready EXCEPT !.op = op] EXCEPT !.at = "probe", !.ask = 1])
      BY <1>6, <2>2 DEF StoreUnreadable
    <3> QED
      BY <1>2, <1>g, <2>2, <3>1
  <2> QED
    BY <1>d, <2>1, <2>2
<1> QED
  BY <1>5, <1>6

(* Where a call goes after it asked a provider: to an answer that is true,   *)
(* or to a place whose promise holds.                                        *)
LEMMA AnswerKeeps ==
  ASSUME ObjectIInv, NothingAppears, NEW c \in NativeCalls,
         NEW result \in {"ok", "notfound", "error"}, Answer(c, result),
         result = "notfound" /\ kind = "file" => client[c].named = TRUE \/ HeldNowhere',
         result = "ok" /\ client[c].op = "delete" =>
           HeldNowhere' /\ (kind = "response" => record' = None)
  PROVE  ObjectIInv'
<1>1. PICK old \in ClientStates : old = client[c]
  BY DEF ObjectIInv, ObjectTypeOK
<1> DEFINE state == [old EXCEPT !.at = "answered", !.answer = result]
<1>2. /\ state \in ClientStates /\ state.at = "answered" /\ state.answer = result
      /\ state.op = old.op /\ state.named = old.named
  BY DEF ClientStates
<1>3. Set(c, state)
  BY <1>1 DEF Answer
<1> HIDE DEF state
<1>4. kind' = kind
  BY DEF NothingAppears
<1>5. Knows(state)'
  BY <1>1, <1>2, <1>4 DEF Knows
<1> QED
  BY <1>2, <1>3, <1>5, ObjectStepKeeps

(* A call goes on to clean up or to delete the record.                       *)
LEMMA MoveKeeps ==
  ASSUME ObjectIInv, NothingAppears, NEW c \in NativeCalls,
         NEW place \in {"forget", "unmap", "drop"},
         Set(c, [client[c] EXCEPT !.at = place]), client[c].at # "answered",
         place \in {"unmap", "drop"} => HeldNowhere',
         place \in {"forget", "unmap"} => kind = "file"
  PROVE  ObjectIInv'
<1>1. PICK old \in ClientStates : old = client[c]
  BY DEF ObjectIInv, ObjectTypeOK
<1> DEFINE state == [old EXCEPT !.at = place]
<1>2. /\ state \in ClientStates /\ state.at = place /\ state.answer = old.answer
  BY DEF ClientStates
<1>3. Set(c, state)
  BY <1>1
<1>4. old.answer = None
  BY <1>1 DEF ObjectIInv, Knows
<1> HIDE DEF state
<1>5. kind' = kind
  BY DEF NothingAppears
<1>6. Knows(state)'
  BY <1>1, <1>2, <1>4, <1>5, ObjectsAssumption DEF Knows
<1> QED
  BY <1>2, <1>3, <1>6, ObjectStepKeeps

(* A call asks the provider it was given or the record names.                *)
LEMMA AskingKeeps ==
  ASSUME ObjectIInv, NEW c \in NativeCalls,
         AskExplicit(c) \/ AskRecordedFile(c) \/ AskRecordedResponse(c)
  PROVE  ObjectIInv'
<1> DEFINE p == client[c].copy.provider
<1>1. kind' = kind /\ record' = record /\ kind \in {"response", "file"}
  BY DEF AskExplicit, AskRecordedFile, AskRecordedResponse, ObjectIInv, ObjectTypeOK
<1>2. /\ client[c].at \in {"explicit", "recorded"}
      /\ client[c] \in ClientStates /\ Knows(client[c])
  BY DEF AskExplicit, AskRecordedFile, AskRecordedResponse, ObjectIInv, ObjectTypeOK
<1>3. p \in ProviderSet /\ client[c].copy \in Mappings
  BY <1>2 DEF Knows, Mappings
<1>4. PICK outcome \in Outcomes(p) :
        /\ Effect(c, p, outcome)
        /\ \/ AskExplicit(c) /\ IF outcome = "ok" /\ kind = "file" /\ client[c].op = "delete"
                                  THEN Set(c, [client[c] EXCEPT !.at = "unmap"])
                                  ELSE Answer(c, outcome)
           \/ AskRecordedFile(c) /\
                CASE outcome = "notfound" -> AfterStaleMapping(c)
                  [] outcome = "ok" /\ client[c].op = "delete" ->
                       Set(c, [client[c] EXCEPT !.at = "unmap"])
                  [] OTHER -> Answer(c, outcome)
           \/ AskRecordedResponse(c) /\
                CASE client[c].op = "delete" /\ DeleteMayProceed(outcome) ->
                       Set(c, [client[c] EXCEPT !.at = "drop"])
                  [] client[c].op = "cancel" /\ outcome = "ok" ->
                       Set(c, [client[c] EXCEPT !.at = "update", !.copy.status = "cancelled"])
                  [] OTHER -> Answer(c, outcome)
  BY DEF AskExplicit, AskRecordedFile, AskRecordedResponse
<1> HIDE DEF p
<1>5. /\ NothingAppears
      /\ outcome \in {"ok", "notfound", "error"}
      /\ outcome # "ok" => holds' = holds
      /\ outcome = "notfound" => holds[p] = "absent"
      /\ outcome = "ok" /\ client[c].op = "delete" => HeldNowhere'
  BY <1>1, <1>3, <1>4, EffectOfAsking
<1>6. CASE AskExplicit(c)
  <2>1. client[c].named = TRUE /\ (kind = "response" => record' = None)
    BY <1>1, <1>2, <1>6 DEF AskExplicit, Knows
  <2>2. \/ /\ outcome = "ok" /\ kind = "file" /\ client[c].op = "delete"
           /\ Set(c, [client[c] EXCEPT !.at = "unmap"])
        \/ Answer(c, outcome)
    BY <1>4, <1>6 DEF AskExplicit, AskRecordedFile, AskRecordedResponse
  <2>3. CASE Answer(c, outcome)
    BY <1>5, <2>1, <2>3, AnswerKeeps
  <2>4. CASE /\ outcome = "ok" /\ kind = "file" /\ client[c].op = "delete"
             /\ Set(c, [client[c] EXCEPT !.at = "unmap"])
    BY <1>2, <1>5, <2>4, MoveKeeps
  <2> QED
    BY <2>2, <2>3, <2>4
<1>7. CASE AskRecordedFile(c)
  <2>1. kind = "file"
    BY <1>7 DEF AskRecordedFile
  <2>2. \/ Set(c, [client[c] EXCEPT !.at = "forget"])
        \/ /\ outcome = "ok" /\ client[c].op = "delete"
           /\ Set(c, [client[c] EXCEPT !.at = "unmap"])
        \/ /\ outcome # "notfound" /\ ~(outcome = "ok" /\ client[c].op = "delete")
           /\ Answer(c, outcome)
    BY <1>4, <1>7, <2>1 DEF AskExplicit, AskRecordedFile, AskRecordedResponse, AfterStaleMapping
  <2>3. CASE Set(c, [client[c] EXCEPT !.at = "forget"])
    BY <1>2, <1>5, <2>1, <2>3, MoveKeeps
  <2>4. CASE /\ outcome = "ok" /\ client[c].op = "delete"
             /\ Set(c, [client[c] EXCEPT !.at = "unmap"])
    BY <1>2, <1>5, <2>1, <2>4, MoveKeeps
  <2>5. CASE /\ outcome # "notfound" /\ ~(outcome = "ok" /\ client[c].op = "delete")
             /\ Answer(c, outcome)
    BY <1>5, <2>5, AnswerKeeps
  <2> QED
    BY <2>2, <2>3, <2>4, <2>5
<1>8. CASE AskRecordedResponse(c)
  <2>1. kind = "response" /\ AtItsProvider(client[c].copy)
    BY <1>2, <1>8 DEF AskRecordedResponse, Knows
  <2>2. \/ /\ client[c].op = "delete" /\ outcome # "error"
           /\ Set(c, [client[c] EXCEPT !.at = "drop"])
        \/ /\ client[c].op = "cancel"
           /\ Set(c, [client[c] EXCEPT !.at = "update", !.copy.status = "cancelled"])
        \/ ~(outcome = "ok" /\ client[c].op = "delete") /\ Answer(c, outcome)
    BY <1>4, <1>8, <2>1 DEF AskExplicit, AskRecordedFile, AskRecordedResponse, DeleteMayProceed
  <2>3. CASE /\ client[c].op = "delete" /\ outcome # "error"
             /\ Set(c, [client[c] EXCEPT !.at = "drop"])
    <3>1. outcome = "notfound" => HeldNowhere'
      BY <1>5, <2>1 DEF AtItsProvider, HeldNowhere, ProviderSet, p
    <3> QED
      BY <1>2, <1>5, <2>3, <3>1, MoveKeeps
  <2>4. CASE /\ client[c].op = "cancel"
             /\ Set(c, [client[c] EXCEPT !.at = "update", !.copy.status = "cancelled"])
    <3>1. PICK old \in ClientStates : old = client[c]
      BY <1>2
    <3> DEFINE state == [old EXCEPT !.at = "update", !.copy.status = "cancelled"]
    <3>2. /\ state \in ClientStates /\ state.at = "update" /\ state.answer = old.answer
          /\ state.op = old.op /\ state.copy \in Mappings
          /\ state.copy.provider = old.copy.provider
      BY <1>3, <3>1 DEF ClientStates, Mappings
    <3>3. Set(c, state)
      BY <2>4, <3>1
    <3>4. old.answer = None
      BY <1>2, <3>1 DEF Knows
    <3> HIDE DEF state
    <3>5. AtItsProvider(state.copy)'
      BY <1>5, <2>1, <3>1, <3>2 DEF AtItsProvider, NothingAppears, ProviderSet
    <3>6. Knows(state)'
      BY <1>1, <2>1, <2>4, <3>1, <3>2, <3>4, <3>5, ObjectsAssumption DEF Knows
    <3> QED
      BY <1>5, <3>2, <3>3, <3>6, ObjectStepKeeps
  <2>5. CASE ~(outcome = "ok" /\ client[c].op = "delete") /\ Answer(c, outcome)
    BY <1>5, <2>1, <2>5, AnswerKeeps
  <2> QED
    BY <2>2, <2>3, <2>4, <2>5
<1> QED
  BY <1>2, <1>4, <1>6, <1>7, <1>8

(* The providers are asked one after the other, and none of those that were  *)
(* passed without an error has the object.                                   *)
LEMMA ProbingKeeps ==
  ASSUME ObjectIInv, NEW c \in NativeCalls, Probe(c) \/ ProbeEnds(c) \/ HangUp(c)
  PROVE  ObjectIInv'
<1>1. client[c].at = "probe" /\ client[c] \in ClientStates /\ Knows(client[c])
  BY DEF Probe, ProbeEnds, HangUp, ObjectIInv, ObjectTypeOK
<1>2. kind' = kind /\ record' = record
  BY DEF Probe, ProbeEnds, HangUp
<1>3. DOMAIN Candidates = 1 .. Len(Candidates) /\ Len(Candidates) \in Nat
  BY ObjectsAssumption
<1>4. client[c].ask \in 1 .. Len(Candidates) + 1
  BY <1>1, <1>3 DEF Knows, ClientStates
<1>5. CASE Probe(c)
  <2> DEFINE p == Candidates[client[c].ask]
  <2>1. p \in ProviderSet /\ client[c].ask \in 1 .. Len(Candidates)
    BY <1>3, <1>5 DEF Probe, ProviderSet
  <2>2. PICK outcome \in Outcomes(p) :
          /\ Effect(c, p, outcome)
          /\ IF outcome = "ok"
               THEN IF kind = "file" /\ client[c].op = "delete"
                      THEN Set(c, [client[c] EXCEPT !.at = "unmap"])
                      ELSE Answer(c, "ok")
               ELSE Set(c, [client[c] EXCEPT !.ask = @ + 1,
                                             !.error = @ \/ outcome = "error"])
    BY <1>5 DEF Probe
  <2> HIDE DEF p
  <2>3. /\ NothingAppears
        /\ outcome \in {"ok", "notfound", "error"}
        /\ outcome = "notfound" => holds[p] = "absent"
        /\ outcome = "ok" /\ client[c].op = "delete" => HeldNowhere'
    BY <1>2, <2>1, <2>2, EffectOfAsking
  <2>4. CASE outcome = "ok" /\ kind = "file" /\ client[c].op = "delete"
    BY <1>1, <2>2, <2>3, <2>4, MoveKeeps
  <2>5. CASE outcome = "ok" /\ ~(kind = "file" /\ client[c].op = "delete")
    <3>1. kind = "response" => record' = None
      BY <1>1, <1>2 DEF Knows
    <3> QED
      BY <2>2, <2>3, <2>5, <3>1, AnswerKeeps
  <2>6. CASE outcome # "ok"
    <3>1. PICK old \in ClientStates : old = client[c]
      BY <1>1
    <3> DEFINE state == [old EXCEPT !.ask = @ + 1, !.error = @ \/ outcome = "error"]
    <3>2. old.ask + 1 \in 0 .. Len(Candidates) + 1 /\ old.ask + 1 # 0
      BY <1>3, <2>1, <3>1
    <3>3. (old.error \/ outcome = "error") \in BOOLEAN
      OBVIOUS
    <3>4. /\ state \in ClientStates /\ state.at = "probe" /\ state.ask = old.ask + 1
          /\ state.answer = old.answer /\ state.op = old.op
          /\ state.error = (old.error \/ outcome = "error")
      BY <1>1, <3>1, <3>2, <3>3 DEF ClientStates
    <3>5. Set(c, state)
      BY <2>2, <2>6, <3>1
    <3> HIDE DEF state
    <3>6. state.error = TRUE \/ \A i \in 1 .. state.ask - 1 : holds'[Candidates[i]] = "absent"
      <4>1. CASE outcome = "error" \/ old.error = TRUE
        BY <3>4, <4>1
      <4>2. CASE outcome = "notfound" /\ old.error # TRUE
        <5>1. ASSUME NEW i \in 1 .. state.ask - 1 PROVE holds'[Candidates[i]] = "absent"
          <6>1. i \in 1 .. Len(Candidates) /\ Candidates[i] \in ProviderSet
            BY <1>3, <2>1, <3>1, <3>4, <5>1 DEF ProviderSet
          <6>2. CASE i = old.ask
            BY <2>3, <3>1, <4>2, <6>1, <6>2 DEF p, NothingAppears
          <6>3. CASE i # old.ask
            <7>1. i \in 1 .. old.ask - 1
              BY <1>4, <3>1, <3>4, <5>1, <6>3
            <7>2. holds[Candidates[i]] = "absent"
              BY <1>1, <3>1, <4>2, <7>1 DEF Knows
            <7> QED
              BY <2>3, <6>1, <7>2 DEF NothingAppears
          <6> QED
            BY <6>2, <6>3
        <5> QED
          BY <5>1
      <4> QED
        BY <2>3, <2>6, <4>1, <4>2
    <3>7. Knows(state)'
      BY <1>1, <1>2, <3>1, <3>2, <3>4, <3>6, ObjectsAssumption DEF Knows
    <3> QED
      BY <2>3, <3>4, <3>5, <3>7, ObjectStepKeeps
  <2> QED
    BY <2>4, <2>5, <2>6
<1>6. CASE ProbeEnds(c)
  <2>1. client[c].ask = Len(Candidates) + 1
    BY <1>3, <1>4, <1>6 DEF ProbeEnds
  <2>2. NothingAppears /\ HeldNowhere' = HeldNowhere
    BY <1>6 DEF ProbeEnds, NothingAppears, ObjectIInv, ObjectTypeOK, HeldNowhere
  <2>3. CASE client[c].error = TRUE
    BY <1>6, <2>2, <2>3, AnswerKeeps DEF ProbeEnds
  <2>4. CASE client[c].error = FALSE
    <3>1. \A i \in 1 .. Len(Candidates) : holds[Candidates[i]] = "absent"
      BY <1>1, <1>3, <2>1, <2>4 DEF Knows
    <3>2. HeldNowhere
      BY <1>3, <3>1 DEF HeldNowhere, ProviderSet
    <3> QED
      BY <1>6, <2>2, <2>4, <3>2, AnswerKeeps DEF ProbeEnds
  <2> QED
    BY <1>1, <2>3, <2>4 DEF ClientStates
<1>7. CASE HangUp(c)
  <2>1. NothingAppears
    BY <1>7 DEF HangUp, NothingAppears, ObjectIInv, ObjectTypeOK
  <2> QED
    BY <1>7, <2>1, AnswerKeeps DEF HangUp
<1> QED
  BY <1>5, <1>6, <1>7

(* The record is brought in step with what the provider answered.            *)
LEMMA RecordingKeeps ==
  ASSUME ObjectIInv, NEW c \in NativeCalls,
         Forget(c) \/ Unmap(c) \/ Drop(c) \/ UpdateStored(c)
  PROVE  ObjectIInv'
<1>1. client[c] \in ClientStates /\ Knows(client[c])
  BY DEF ObjectIInv, ObjectTypeOK
<1>2. /\ kind' = kind /\ holds' = holds /\ HeldNowhere' = HeldNowhere
      /\ holds \in [ProviderSet -> {"active", "cancelled", "absent"}]
      /\ record \in Mappings \cup {None}
      /\ kind = "response" /\ record # None => AtItsProvider(record)
  BY DEF Forget, Unmap, Drop, UpdateStored, HeldNowhere, ObjectIInv, ObjectTypeOK
<1>3. record' \in {record, None} => NothingAppears
  BY <1>2 DEF NothingAppears
<1>4. CASE Forget(c)
  <2>1. PICK old \in ClientStates : old = client[c]
    BY <1>1
  <2> DEFINE state == [old EXCEPT !.at = "probe", !.ask = 1]
  <2>2. kind = "file" /\ old.answer = None
    BY <1>1, <1>4, <2>1 DEF Forget, Knows
  <2>3. 1 \in 0 .. Len(Candidates) + 1
    BY ObjectsAssumption
  <2>4. /\ state \in ClientStates /\ state.at = "probe" /\ state.ask = 1
        /\ state.answer = old.answer
    BY <2>3 DEF ClientStates
  <2>5. Set(c, state)
    BY <1>4, <2>1 DEF Forget
  <2> HIDE DEF state
  <2>6. Knows(state)'
    BY <1>2, <2>2, <2>4, ObjectsAssumption DEF Knows
  <2> QED
    BY <1>3, <1>4, <2>4, <2>5, <2>6, ObjectStepKeeps DEF Forget
<1>5. CASE Unmap(c)
  <2>1. kind = "file" /\ HeldNowhere
    BY <1>1, <1>5 DEF Unmap, Knows
  <2> QED
    BY <1>2, <1>3, <1>5, <2>1, AnswerKeeps DEF Unmap
<1>6. CASE Drop(c)
  <2>1. HeldNowhere
    BY <1>1, <1>6 DEF Drop, Knows
  <2> QED
    BY <1>2, <1>3, <1>6, <2>1, AnswerKeeps DEF Drop
<1>7. CASE UpdateStored(c)
  <2>1. /\ client[c].copy \in Mappings /\ client[c].op = "cancel"
        /\ kind = "response" => AtItsProvider(client[c].copy)
    BY <1>1, <1>7 DEF UpdateStored, Knows
  <2>2. NothingAppears
    BY <1>2, <1>3, <1>7, <2>1 DEF UpdateStored, UpdateRecord, NothingAppears
  <2> QED
    BY <1>7, <2>1, <2>2, AnswerKeeps DEF UpdateStored
<1> QED
  BY <1>4, <1>5, <1>6, <1>7

(* What happens without a call: a record or an object goes away.             *)
LEMMA ExpiryKeeps ==
  ASSUME ObjectIInv, RecordExpires \/ ObjectExpires
  PROVE  ObjectIInv'
<1>1. NothingAppears /\ client' = client
  BY DEF RecordExpires, ObjectExpires, NothingAppears, ObjectIInv, ObjectTypeOK
<1>2. ObjectTypeOK' /\ OneHolder'
  BY <1>1 DEF ObjectIInv, ObjectTypeOK, OneHolder, NothingAppears
<1>3. (kind = "response" /\ record # None => AtItsProvider(record))'
  BY <1>1 DEF NothingAppears, AtItsProvider
<1>4. ASSUME NEW c \in NativeCalls PROVE Knows(client[c])'
  <2>1. client[c] \in ClientStates /\ Knows(client[c])
    BY DEF ObjectIInv, ObjectTypeOK
  <2> QED
    BY <1>1, <2>1, KnowledgeLasts
<1> QED
  BY <1>2, <1>3, <1>4 DEF ObjectIInv

(* At most one provider holds the object, and nobody has asked yet.          *)
LEMMA ObjectBegins == ObjectInit => ObjectIInv
<1> SUFFICES ASSUME ObjectInit PROVE ObjectIInv
  OBVIOUS
<1>1. PICK owner \in ProviderSet :
        /\ holds = [p \in ProviderSet |-> IF p = owner /\ p \in Supporting THEN "active" ELSE "absent"]
        /\ record \in {None} \cup
             [provider : IF kind = "response" THEN {owner} ELSE ProviderSet, status : {"active"}]
  BY DEF ObjectInit
<1>2. kind \in {"response", "file"} /\ client = [c \in NativeCalls |-> Ready]
  BY DEF ObjectInit
<1>3. 0 \in 0 .. Len(Candidates) + 1
  BY ObjectsAssumption
<1>4. /\ Ready \in ClientStates /\ Ready.at = "ready" /\ Ready.answer = None
  BY <1>3 DEF Ready, ClientStates
<1>5. record \in Mappings \cup {None}
  BY <1>1 DEF Mappings
<1>6. ObjectTypeOK
  BY <1>1, <1>2, <1>4, <1>5 DEF ObjectTypeOK
<1>7. OneHolder
  BY <1>1 DEF OneHolder
<1>8. kind = "response" /\ record # None => AtItsProvider(record)
  BY <1>1 DEF AtItsProvider
<1>9. ASSUME NEW c \in NativeCalls PROVE Knows(client[c])
  BY <1>2, <1>4, ObjectsAssumption DEF Knows
<1> QED
  BY <1>6, <1>7, <1>8, <1>9 DEF ObjectIInv

(* The invariant of an object that a provider keeps: whatever calls overlap, *)
(* whatever expires or fails, each call's place says what is true.           *)
THEOREM ObjectInvariance == ObjectSpec => []ObjectIInv
<1>1. ObjectIInv /\ [ObjectNext]_objectVars => ObjectIInv'
  <2> SUFFICES ASSUME ObjectIInv, [ObjectNext]_objectVars PROVE ObjectIInv'
    OBVIOUS
  <2>1. CASE UNCHANGED objectVars
    <3> USE <2>1 DEF objectVars, ObjectIInv
    <3>1. ObjectTypeOK' /\ OneHolder'
      BY DEF ObjectTypeOK, OneHolder
    <3>2. (kind = "response" /\ record # None => AtItsProvider(record))'
      BY DEF AtItsProvider
    <3>3. ASSUME NEW c \in NativeCalls PROVE Knows(client[c])'
      BY DEF Knows, AtItsProvider, HeldNowhere
    <3> QED
      BY <3>1, <3>2, <3>3
  <2>2. CASE ObjectNext
    BY <2>2, StartKeeps, AskingKeeps, ProbingKeeps, RecordingKeeps, ExpiryKeeps DEF ObjectNext
  <2> QED
    BY <2>1, <2>2
<1> QED
  BY <1>1, ObjectBegins, PTL DEF ObjectSpec

(* What a client was told stays true: AnswersAreTrue                         *)
(* (native_file_service.go, native_response_service.go), for any providers   *)
(* in any order and any number of overlapping calls.                         *)
THEOREM ToldTruly == ObjectSpec => []AnswersAreTrue
<1>1. ObjectIInv => AnswersAreTrue
  BY DEF ObjectIInv, Knows, AnswersAreTrue
<1> QED
  BY <1>1, ObjectInvariance, PTL

-----------------------------------------------------------------------------
(* The in-memory stores: the byte account.                                   *)

(* The numbers up to a size are as many as it says.                          *)
LEMMA IntervalIsFinite ==
  ASSUME NEW n \in Nat
  PROVE  IsFiniteSet(1 .. n) /\ Cardinality(1 .. n) = n
BY FS_Interval

(* The bytes of finitely many entries are finitely many.                     *)
LEMMA BytesAreFinite ==
  ASSUME NEW entries, NEW K, IsFiniteSet(K), \A k \in K : entries[k].size \in Nat
  PROVE  IsFiniteSet(Bytes(entries, K)) /\ Weight(entries, K) \in Nat
<1> DEFINE bytesOf == [k \in K |-> {k} \X (1 .. entries[k].size)]
           each == {{k} \X (1 .. entries[k].size) : k \in K}
<1>1. IsFiniteSet(each)
  <2>1. bytesOf \in Surjection(K, each)
    BY DEF Surjection
  <2> QED
    BY <2>1, FS_Surjection
<1>2. \A B \in each : IsFiniteSet(B)
  <2> SUFFICES ASSUME NEW k \in K PROVE IsFiniteSet({k} \X (1 .. entries[k].size))
    OBVIOUS
  <2>1. IsFiniteSet({k})
    BY FS_Singleton
  <2>2. IsFiniteSet(1 .. entries[k].size)
    BY IntervalIsFinite
  <2> QED
    BY <2>1, <2>2, FS_Product
<1>3. IsFiniteSet(UNION each)
  BY <1>1, <1>2, FS_UNION
<1> QED
  BY <1>3, FS_CardinalityType DEF Bytes, Weight

(* One entry weighs its size.                                                *)
LEMMA WeightOfOne ==
  ASSUME NEW entries, NEW k, entries[k].size \in Nat
  PROVE  Weight(entries, {k}) = entries[k].size
<1> DEFINE n == entries[k].size
<1>1. Bytes(entries, {k}) = {k} \X (1 .. n)
  BY DEF Bytes
<1>2. IsFiniteSet({k}) /\ Cardinality({k}) = 1
  BY FS_Singleton
<1>3. n \in Nat
  OBVIOUS
<1> HIDE DEF n
<1>4. IsFiniteSet(1 .. n) /\ Cardinality(1 .. n) = n
  BY <1>3, IntervalIsFinite
<1>5. Cardinality({k} \X (1 .. n)) = Cardinality({k}) * Cardinality(1 .. n)
  BY <1>2, <1>4, FS_Product
<1>6. Cardinality({k} \X (1 .. n)) = n
  BY <1>2, <1>3, <1>4, <1>5
<1> QED
  BY <1>1, <1>6 DEF Weight, n

(* The weights of separate entries add up.                                   *)
LEMMA WeightsAdd ==
  ASSUME NEW entries, NEW K, NEW L, IsFiniteSet(K), IsFiniteSet(L), K \cap L = {},
         \A k \in K \cup L : entries[k].size \in Nat
  PROVE  Weight(entries, K \cup L) = Weight(entries, K) + Weight(entries, L)
<1>1. Bytes(entries, K \cup L) = Bytes(entries, K) \cup Bytes(entries, L)
  BY DEF Bytes
<1>2. Bytes(entries, K) \cap Bytes(entries, L) = {}
  BY DEF Bytes
<1>3. /\ IsFiniteSet(Bytes(entries, K)) /\ IsFiniteSet(Bytes(entries, L))
      /\ Weight(entries, K) \in Nat /\ Weight(entries, L) \in Nat
  BY BytesAreFinite
<1>4. Cardinality(Bytes(entries, K) \cup Bytes(entries, L))
        = Cardinality(Bytes(entries, K)) + Cardinality(Bytes(entries, L)) - Cardinality({})
  BY <1>2, <1>3, FS_Union
<1>5. /\ Weight(entries, K \cup L) = Cardinality(Bytes(entries, K) \cup Bytes(entries, L))
      /\ Weight(entries, K) = Cardinality(Bytes(entries, K))
      /\ Weight(entries, L) = Cardinality(Bytes(entries, L))
  BY <1>1 DEF Weight
<1>6. Cardinality({}) = 0
  BY FS_EmptySet
<1> HIDE DEF Weight
<1> QED
  BY <1>3, <1>4, <1>5, <1>6

(* The weight of entries is a matter of their sizes.                         *)
LEMMA WeightIsOfSizes ==
  ASSUME NEW f, NEW g, NEW K, \A k \in K : f[k].size = g[k].size
  PROVE  Weight(f, K) = Weight(g, K)
<1>1. Bytes(f, K) = Bytes(g, K)
  BY DEF Bytes
<1> QED
  BY <1>1 DEF Weight

(* A store whose account is right.                                           *)
Accounted(s) ==
  /\ DOMAIN s.items \subseteq Ids
  /\ \A k \in DOMAIN s.items : s.items[k] \in Entries
  /\ s.total = Weight(s.items, DOMAIN s.items)

LEMMA AccountedIsFinite ==
  ASSUME NEW s, Accounted(s)
  PROVE  /\ IsFiniteSet(DOMAIN s.items)
         /\ \A k \in DOMAIN s.items : s.items[k].size \in Nat \ {0}
         /\ \A k \in DOMAIN s.items : s.items[k].storedAt \in Nat /\ s.items[k].expiresAt \in Nat
         /\ s.total \in Nat
<1>1. IsFiniteSet(DOMAIN s.items)
  BY MemoryStoreAssumption, FS_Subset DEF Accounted
<1>2. \A k \in DOMAIN s.items : s.items[k].size \in Nat \ {0}
  BY DEF Accounted, Entries
<1>3. MaxTime \in Nat /\ TTL \in Nat
  BY MemoryStoreAssumption
<1>4. \A k \in DOMAIN s.items : s.items[k].storedAt \in Nat /\ s.items[k].expiresAt \in Nat
  BY <1>3 DEF Accounted, Entries
<1>5. s.total \in Nat
  BY <1>1, <1>2, BytesAreFinite DEF Accounted
<1> QED
  BY <1>1, <1>2, <1>4, <1>5

(* What is taken out leaves the account with it, the rest is as it was.      *)
LEMMA WithoutIsAccounted ==
  ASSUME NEW s, Accounted(s), NEW K
  PROVE  /\ Accounted(Without(s, K))
         /\ DOMAIN Without(s, K).items = DOMAIN s.items \ K
         /\ \A k \in DOMAIN s.items \ K : Without(s, K).items[k] = s.items[k]
         /\ Without(s, K).total = s.total - Weight(s.items, K \cap DOMAIN s.items)
<1> DEFINE r == Without(s, K)
           D == DOMAIN s.items
<1>1. /\ DOMAIN r.items = D \ K
      /\ \A k \in D \ K : r.items[k] = s.items[k]
      /\ r.total = s.total - Weight(s.items, K \cap D)
  BY DEF Without, Restrict
<1>2. /\ IsFiniteSet(D) /\ \A k \in D : s.items[k].size \in Nat
  BY AccountedIsFinite
<1>3. IsFiniteSet(D \ K) /\ IsFiniteSet(K \cap D)
  BY <1>2, FS_Difference, FS_Intersection
<1>4. Weight(s.items, (D \ K) \cup (K \cap D)) = Weight(s.items, D \ K) + Weight(s.items, K \cap D)
  BY <1>2, <1>3, WeightsAdd
<1>5. (D \ K) \cup (K \cap D) = D
  OBVIOUS
<1>6. Weight(s.items, D \ K) \in Nat /\ Weight(s.items, K \cap D) \in Nat
  BY <1>2, <1>3, BytesAreFinite
<1>7. Weight(r.items, D \ K) = Weight(s.items, D \ K)
  BY <1>1, WeightIsOfSizes
<1>8. s.total = Weight(s.items, D)
  BY DEF Accounted
<1> HIDE DEF r
<1>9. r.total = Weight(r.items, DOMAIN r.items)
  <2>1. Weight(s.items, D) = Weight(s.items, D \ K) + Weight(s.items, K \cap D)
    BY <1>4, <1>5
  <2>2. r.total = Weight(s.items, D \ K)
    BY <1>1, <1>6, <1>8, <2>1
  <2> QED
    BY <1>1, <1>7, <2>2
<1>10. DOMAIN r.items \subseteq Ids /\ \A k \in DOMAIN r.items : r.items[k] \in Entries
  BY <1>1 DEF Accounted
<1>11. Accounted(r)
  BY <1>9, <1>10 DEF Accounted
<1> QED
  BY <1>1, <1>11 DEF r

(* The more is taken out, the better the rest fits.                          *)
LEMMA LessFits ==
  ASSUME NEW s, Accounted(s), NEW K, NEW L, K \subseteq L, Fits(Without(s, K))
  PROVE  Fits(Without(s, L))
<1> DEFINE D == DOMAIN s.items
           k == Without(s, K)
           l == Without(s, L)
<1>1. /\ DOMAIN k.items = D \ K /\ k.total = s.total - Weight(s.items, K \cap D)
      /\ DOMAIN l.items = D \ L /\ l.total = s.total - Weight(s.items, L \cap D)
      /\ Accounted(k) /\ Accounted(l)
  BY WithoutIsAccounted
<1>2. IsFiniteSet(D) /\ \A i \in D : s.items[i].size \in Nat
  BY AccountedIsFinite
<1>3. IsFiniteSet(D \ K) /\ IsFiniteSet(D \ L) /\ IsFiniteSet(K \cap D) /\ IsFiniteSet((L \ K) \cap D)
  BY <1>2, FS_Difference, FS_Intersection
<1>4. /\ Cardinality(D \ L) <= Cardinality(D \ K)
      /\ Cardinality(D \ L) \in Nat /\ Cardinality(D \ K) \in Nat
  BY <1>3, FS_Subset, FS_CardinalityType
<1>5. Weight(s.items, (K \cap D) \cup ((L \ K) \cap D))
        = Weight(s.items, K \cap D) + Weight(s.items, (L \ K) \cap D)
  BY <1>2, <1>3, WeightsAdd
<1>6. (K \cap D) \cup ((L \ K) \cap D) = L \cap D
  OBVIOUS
<1>7. Weight(s.items, K \cap D) \in Nat /\ Weight(s.items, (L \ K) \cap D) \in Nat
  BY <1>2, <1>3, BytesAreFinite
<1>8. s.total \in Nat
  BY AccountedIsFinite
<1>9. l.total <= k.total /\ l.total \in Int /\ k.total \in Int
  <2>1. Weight(s.items, L \cap D) = Weight(s.items, K \cap D) + Weight(s.items, (L \ K) \cap D)
    BY <1>5, <1>6
  <2>2. l.total = s.total - Weight(s.items, L \cap D) /\ k.total = s.total - Weight(s.items, K \cap D)
    BY <1>1
  <2> HIDE DEF l, k
  <2> QED
    BY <1>7, <1>8, <2>1, <2>2
<1>10. MaxEntries \in Nat /\ MaxBytes \in Nat
  BY MemoryStoreAssumption
<1> HIDE DEF k, l
<1>11. MaxEntries = 0 \/ Cardinality(DOMAIN l.items) <= MaxEntries
  BY <1>1, <1>4, <1>10 DEF Fits, k
<1>12. MaxBytes = 0 \/ l.total <= MaxBytes
  BY <1>9, <1>10 DEF Fits, k
<1> QED
  BY <1>11, <1>12 DEF Fits, l

(* A written entry is accounted for in the place of the one it replaces.     *)
LEMMA PutIsAccounted ==
  ASSUME NEW s, Accounted(s), NEW id \in Ids, NEW e \in Entries
  PROVE  /\ Accounted(Put(s, id, e))
         /\ DOMAIN Put(s, id, e).items = DOMAIN s.items \cup {id}
         /\ Put(s, id, e).items[id] = e
         /\ \A k \in DOMAIN s.items \ {id} : Put(s, id, e).items[k] = s.items[k]
<1> DEFINE r == RemoveEntry(s, id)
           p == Put(s, id, e)
           D == DOMAIN s.items \ {id}
<1>1. /\ Accounted(r) /\ DOMAIN r.items = D
      /\ \A k \in D : r.items[k] = s.items[k]
  BY WithoutIsAccounted DEF RemoveEntry
<1>2. /\ DOMAIN p.items = D \cup {id}
      /\ p.items[id] = e
      /\ \A k \in D : p.items[k] = r.items[k]
      /\ p.total = r.total + e.size
  BY <1>1 DEF Put
<1> HIDE DEF r, p
<1>3. IsFiniteSet(D) /\ IsFiniteSet({id}) /\ \A k \in D : r.items[k].size \in Nat
  BY <1>1, AccountedIsFinite, FS_Singleton
<1>4. e.size \in Nat
  BY DEF Entries
<1>5. \A k \in D \cup {id} : p.items[k].size \in Nat
  BY <1>2, <1>3, <1>4
<1>6. Weight(p.items, D \cup {id}) = Weight(p.items, D) + Weight(p.items, {id})
  BY <1>3, <1>5, WeightsAdd
<1>7. Weight(p.items, {id}) = e.size
  BY <1>2, <1>4, WeightOfOne
<1>8. Weight(p.items, D) = Weight(r.items, D)
  BY <1>2, WeightIsOfSizes
<1>9. p.total = Weight(p.items, DOMAIN p.items)
  BY <1>1, <1>2, <1>6, <1>7, <1>8 DEF Accounted
<1>10. DOMAIN p.items \subseteq Ids /\ \A k \in DOMAIN p.items : p.items[k] \in Entries
  BY <1>1, <1>2 DEF Accounted
<1>11. Accounted(p)
  BY <1>9, <1>10 DEF Accounted
<1> QED
  BY <1>1, <1>2, <1>11 DEF p

-----------------------------------------------------------------------------
(* The in-memory stores: eviction.                                           *)

(* Entries go in an order: the older first, and none before itself.          *)
LEMMA EvictionHasAnOrder ==
  ASSUME NEW s, Accounted(s)
  PROVE  /\ \A j, k \in DOMAIN s.items : j # k => Older(s, j, k) \/ Older(s, k, j)
         /\ \A k \in DOMAIN s.items : ~Older(s, k, k)
         /\ \A i, j, k \in DOMAIN s.items : Older(s, i, j) /\ Older(s, j, k) => Older(s, i, k)
         /\ \A j, k \in DOMAIN s.items :
              ~Older(s, j, k) => s.items[k].storedAt <= s.items[j].storedAt
<1>1. \A k \in DOMAIN s.items : k \in Nat /\ s.items[k].storedAt \in Nat
  BY AccountedIsFinite, MemoryStoreAssumption DEF Accounted
<1> QED
  BY <1>1 DEF Older

(* Of some entries one is the oldest: the rank of an entry is a number.      *)
LEMMA OldestIsOne ==
  ASSUME NEW s, Accounted(s), NEW K \in SUBSET DOMAIN s.items, K # {}
  PROVE  \E k \in K : \A j \in K : ~Older(s, j, k)
<1> DEFINE D == DOMAIN s.items
           before(k) == {j \in D : Older(s, j, k)}
           ranks == {n \in Nat : \E k \in K : Cardinality(before(k)) = n}
           less == OpToRel(<, Nat)
<1>1. IsFiniteSet(D)
  BY AccountedIsFinite
<1>2. \A k \in D : IsFiniteSet(before(k)) /\ Cardinality(before(k)) \in Nat
  BY <1>1, FS_Subset, FS_CardinalityType
<1>3. PICK n \in ranks : \A m \in ranks : ~(m < n)
  <2>1. IsWellFoundedOn(less, Nat) /\ ranks \subseteq Nat /\ ranks # {}
    BY <1>2, NatLessThanWellFounded
  <2>2. PICK n \in ranks : \A m \in ranks : ~(<<m, n>> \in less)
    BY <2>1, WFMin
  <2> QED
    BY <2>2 DEF OpToRel
<1>4. PICK k \in K : Cardinality(before(k)) = n
  OBVIOUS
<1>5. SUFFICES ASSUME NEW j \in K, Older(s, j, k) PROVE FALSE
  OBVIOUS
<1>6. before(j) \subseteq before(k) /\ j \in before(k) /\ j \notin before(j)
  BY <1>5, EvictionHasAnOrder
<1>7. Cardinality(before(j)) <= Cardinality(before(k)) /\ Cardinality(before(j)) # Cardinality(before(k))
  BY <1>2, <1>6, FS_Subset
<1>8. Cardinality(before(j)) \in Nat /\ n \in Nat
  BY <1>2
<1> HIDE DEF before
<1>9. Cardinality(before(j)) \in ranks /\ Cardinality(before(j)) < n
  BY <1>4, <1>7, <1>8
<1> QED
  BY <1>3, <1>9

(* And one is the youngest.                                                  *)
LEMMA YoungestIsOne ==
  ASSUME NEW s, Accounted(s), NEW K \in SUBSET DOMAIN s.items, K # {}
  PROVE  \E k \in K : \A j \in K : ~Older(s, k, j)
<1> DEFINE D == DOMAIN s.items
           after(k) == {j \in D : Older(s, k, j)}
           ranks == {n \in Nat : \E k \in K : Cardinality(after(k)) = n}
           less == OpToRel(<, Nat)
<1>1. IsFiniteSet(D)
  BY AccountedIsFinite
<1>2. \A k \in D : IsFiniteSet(after(k)) /\ Cardinality(after(k)) \in Nat
  BY <1>1, FS_Subset, FS_CardinalityType
<1>3. PICK n \in ranks : \A m \in ranks : ~(m < n)
  <2>1. IsWellFoundedOn(less, Nat) /\ ranks \subseteq Nat /\ ranks # {}
    BY <1>2, NatLessThanWellFounded
  <2>2. PICK n \in ranks : \A m \in ranks : ~(<<m, n>> \in less)
    BY <2>1, WFMin
  <2> QED
    BY <2>2 DEF OpToRel
<1>4. PICK k \in K : Cardinality(after(k)) = n
  OBVIOUS
<1>5. SUFFICES ASSUME NEW j \in K, Older(s, k, j) PROVE FALSE
  OBVIOUS
<1>6. after(j) \subseteq after(k) /\ j \in after(k) /\ j \notin after(j)
  BY <1>5, EvictionHasAnOrder
<1>7. Cardinality(after(j)) <= Cardinality(after(k)) /\ Cardinality(after(j)) # Cardinality(after(k))
  BY <1>2, <1>6, FS_Subset
<1>8. Cardinality(after(j)) \in Nat /\ n \in Nat
  BY <1>2
<1> HIDE DEF after
<1>9. Cardinality(after(j)) \in ranks /\ Cardinality(after(j)) < n
  BY <1>4, <1>7, <1>8
<1> QED
  BY <1>3, <1>9

(* A store in which only the written entry is left fits.                     *)
LEMMA AloneFits ==
  ASSUME NEW s, Accounted(s), NEW id \in DOMAIN s.items, FitsAlone(s.items[id].size)
  PROVE  Fits(Without(s, Evictable(s, id)))
<1> DEFINE r == Without(s, Evictable(s, id))
<1>1. /\ DOMAIN r.items = {id} /\ r.items[id] = s.items[id] /\ Accounted(r)
  <2>1. /\ DOMAIN s.items \ Evictable(s, id) = {id}
    BY DEF Evictable
  <2>2. /\ Accounted(r)
        /\ DOMAIN r.items = DOMAIN s.items \ Evictable(s, id)
        /\ \A k \in DOMAIN s.items \ Evictable(s, id) : r.items[k] = s.items[k]
    BY WithoutIsAccounted
  <2> QED
    BY <2>1, <2>2
<1> HIDE DEF r
<1>2. s.items[id].size \in Nat
  BY AccountedIsFinite
<1>3. r.total = s.items[id].size
  BY <1>1, <1>2, WeightOfOne DEF Accounted
<1>4. Cardinality(DOMAIN r.items) = 1
  BY <1>1, FS_Singleton
<1>5. MaxEntries \in Nat
  BY MemoryStoreAssumption
<1> QED
  BY <1>3, <1>4, <1>5 DEF Fits, FitsAlone, r

(* enforceBoundsLocked restores both bounds, keeps the written entry, and    *)
(* evicts no entry while it keeps an older one.                              *)
LEMMA EnforceFits ==
  ASSUME NEW s, Accounted(s), NEW id \in DOMAIN s.items, FitsAlone(s.items[id].size)
  PROVE  LET r == Enforce(s, id)
         IN  /\ Accounted(r) /\ Fits(r)
             /\ id \in DOMAIN r.items
             /\ DOMAIN r.items \subseteq DOMAIN s.items
             /\ \A k \in DOMAIN s.items \ DOMAIN r.items, j \in DOMAIN r.items \ {id} :
                  s.items[k].storedAt <= s.items[j].storedAt
<1> DEFINE D == DOMAIN s.items
           C == Evictable(s, id)
           older(k) == {j \in C : Older(s, j, k)}
           E == Evicted(s, id)
           r == Without(s, E)
<1>1. C = D \ {id} /\ E = {k \in C : ~Fits(Without(s, older(k)))}
  BY DEF Evictable, Evicted
<1>2. Accounted(r) /\ DOMAIN r.items = D \ E
  BY WithoutIsAccounted
<1>3. Fits(r)
  <2>1. CASE E = C
    BY <2>1, AloneFits
  <2>2. CASE E # C
    <3>1. PICK k \in C \ E : \A j \in C \ E : ~Older(s, j, k)
      <4>1. C \ E \in SUBSET D /\ C \ E # {}
        BY <1>1, <2>2
      <4> HIDE DEF C, E
      <4> QED
        BY <4>1, OldestIsOne
    <3>2. Fits(Without(s, older(k)))
      BY <1>1, <3>1
    <3>3. older(k) \subseteq E
      BY <3>1
    <3> HIDE DEF C, E, older
    <3> QED
      BY <3>2, <3>3, LessFits
  <2> QED
    BY <2>1, <2>2
<1>4. ASSUME NEW k \in E, NEW j \in C \ E
      PROVE  s.items[k].storedAt <= s.items[j].storedAt
  <2>1. ~Fits(Without(s, older(k))) /\ Fits(Without(s, older(j)))
    BY <1>1, <1>4
  <2>2. k \in D /\ j \in D
    BY <1>1, <1>4
  <2>3. ~Older(s, j, k)
    <3> SUFFICES ASSUME Older(s, j, k) PROVE FALSE
      OBVIOUS
    <3>1. older(j) \subseteq older(k)
      BY <1>1, <2>2, EvictionHasAnOrder
    <3> HIDE DEF older
    <3> QED
      BY <2>1, <3>1, LessFits
  <2> QED
    BY <2>2, <2>3, EvictionHasAnOrder
<1>5. r = Enforce(s, id)
  BY DEF Enforce
<1>6. id \in D \ E /\ D \ (D \ E) = E /\ (D \ E) \ {id} = C \ E
  BY <1>1
<1> HIDE DEF r, C, E
<1> QED
  BY <1>2, <1>3, <1>4, <1>5, <1>6

(* Two accounted stores of the same entries fit alike.                       *)
LEMMA SameEntriesFit ==
  ASSUME NEW s, NEW t, Accounted(s), Accounted(t), DOMAIN s.items = DOMAIN t.items,
         \A k \in DOMAIN s.items : s.items[k] = t.items[k]
  PROVE  Fits(s) <=> Fits(t)
<1>1. Weight(s.items, DOMAIN s.items) = Weight(t.items, DOMAIN s.items)
  BY WeightIsOfSizes
<1>2. s.total = t.total
  BY <1>1 DEF Accounted
<1> QED
  BY <1>2 DEF Fits

(* enforceBoundsLocked stops when the store fits: the youngest entry that    *)
(* it evicted was in the way.                                                *)
LEMMA EnforceIsNeeded ==
  ASSUME NEW s, Accounted(s), NEW id \in DOMAIN s.items, Evicted(s, id) # {}
  PROVE  \E m \in Evicted(s, id) :
           /\ \A k \in Evicted(s, id) : s.items[k].storedAt <= s.items[m].storedAt
           /\ ~Fits(Put(Enforce(s, id), m, s.items[m]))
<1> DEFINE D == DOMAIN s.items
           C == Evictable(s, id)
           older(k) == {j \in C : Older(s, j, k)}
           E == Evicted(s, id)
           r == Without(s, E)
<1>1. C = D \ {id} /\ E = {k \in C : ~Fits(Without(s, older(k)))}
  BY DEF Evictable, Evicted
<1>2. PICK m \in E : \A k \in E : ~Older(s, m, k)
  <2>1. E \in SUBSET D /\ E # {}
    BY <1>1
  <2> HIDE DEF E
  <2> QED
    BY <2>1, YoungestIsOne
<1>3. m \in D /\ ~Fits(Without(s, older(m)))
  BY <1>1
<1>4. \A k \in E : s.items[k].storedAt <= s.items[m].storedAt
  <2> SUFFICES ASSUME NEW k \in E PROVE s.items[k].storedAt <= s.items[m].storedAt
    OBVIOUS
  <2>1. k \in D /\ ~Older(s, m, k)
    BY <1>1, <1>2
  <2> QED
    BY <1>3, <2>1, EvictionHasAnOrder
<1>5. older(m) = E \ {m}
  <2>1. ASSUME NEW k \in E, k # m PROVE k \in older(m)
    <3>1. k \in C /\ k \in D /\ ~Older(s, m, k)
      BY <1>1, <1>2, <2>1
    <3>2. Older(s, k, m)
      BY <1>3, <2>1, <3>1, EvictionHasAnOrder
    <3> QED
      BY <3>1, <3>2
  <2>2. ASSUME NEW k \in older(m) PROVE k \in E
    <3>1. k \in C /\ k \in D /\ Older(s, k, m)
      BY <1>1, <2>2
    <3>2. older(k) \subseteq older(m)
      BY <1>1, <1>3, <3>1, EvictionHasAnOrder
    <3>3. ~Fits(Without(s, older(k)))
      <4> HIDE DEF older
      <4> QED
        BY <1>3, <3>2, LessFits
    <3> QED
      BY <1>1, <3>1, <3>3
  <2>3. m \notin older(m)
    BY <1>3, EvictionHasAnOrder
  <2> HIDE DEF older, E
  <2> QED
    BY <2>1, <2>2, <2>3
<1> DEFINE w == Without(s, older(m))
           p == Put(r, m, s.items[m])
<1>6. /\ Accounted(w) /\ DOMAIN w.items = D \ older(m)
      /\ \A k \in D \ older(m) : w.items[k] = s.items[k]
  BY WithoutIsAccounted
<1>7. /\ Accounted(r) /\ DOMAIN r.items = D \ E
      /\ \A k \in D \ E : r.items[k] = s.items[k]
  BY WithoutIsAccounted
<1>8. m \in Ids /\ s.items[m] \in Entries
  BY <1>3 DEF Accounted
<1> HIDE DEF r
<1>9. /\ Accounted(p) /\ DOMAIN p.items = DOMAIN r.items \cup {m}
      /\ p.items[m] = s.items[m]
      /\ \A k \in DOMAIN r.items \ {m} : p.items[k] = r.items[k]
  BY <1>7, <1>8, PutIsAccounted
<1> HIDE DEF p, w, older, E
<1>10. /\ DOMAIN p.items = DOMAIN w.items
       /\ \A k \in DOMAIN p.items : p.items[k] = w.items[k]
  BY <1>2, <1>3, <1>5, <1>6, <1>7, <1>9
<1>11. ~Fits(p)
  BY <1>3, <1>6, <1>9, <1>10, SameEntriesFit DEF w
<1>12. r = Enforce(s, id)
  BY DEF r, E, Enforce
<1> QED
  BY <1>2, <1>4, <1>11, <1>12 DEF p, E

(* What fits goes on fitting when something leaves.                          *)
LEMMA FitsWithout ==
  ASSUME NEW s, Accounted(s), Fits(s), NEW K
  PROVE  Fits(Without(s, K))
<1> DEFINE r == Without(s, {})
<1>1. DOMAIN r.items = DOMAIN s.items /\ r.total = s.total - Weight(s.items, {})
  <2>1. DOMAIN s.items \ {} = DOMAIN s.items /\ {} \cap DOMAIN s.items = {}
    OBVIOUS
  <2> QED
    BY <2>1 DEF Without, Restrict
<1>2. Weight(s.items, {}) = 0
  <2>1. Bytes(s.items, {}) = {}
    BY DEF Bytes
  <2> QED
    BY <2>1, FS_EmptySet DEF Weight
<1>3. s.total \in Nat
  BY AccountedIsFinite
<1> HIDE DEF r
<1>4. Fits(r)
  BY <1>1, <1>2, <1>3 DEF Fits
<1>5. {} \subseteq K
  OBVIOUS
<1> QED
  BY <1>4, <1>5, LessFits DEF r

-----------------------------------------------------------------------------
(* The in-memory stores: the calls.                                          *)

(* A waiting write carries the size of what it writes; a snapshot was its   *)
(* against the byte budget before the call took its place.                   *)
Stamped(w) ==
  /\ w.op \in {"create", "update", "append"} => w.size \in Nat \ {0}
  /\ w.op \in {"create", "update"} => FitsAlone(w.size)

MemoryIInv ==
  /\ MemoryTypeOK
  /\ BoundsHold
  /\ \A c \in Callers : waiting[c] # NoCall => Stamped(waiting[c])

LEMMA MemoryBegins == MemoryInit => MemoryIInv
<1> SUFFICES ASSUME MemoryInit PROVE MemoryIInv
  OBVIOUS
<1> USE DEF MemoryInit
<1>1. MaxEntries \in Nat /\ MaxBytes \in Nat /\ MaxTime \in Nat \ {0}
  BY MemoryStoreAssumption
<1>2. DOMAIN store.items = {} /\ store.total = 0
  OBVIOUS
<1>3. Weight(store.items, {}) = 0
  <2>1. Bytes(store.items, {}) = {}
    BY DEF Bytes
  <2> QED
    BY <2>1, FS_EmptySet DEF Weight
<1>4. BoundsHold
  BY <1>1, <1>2, <1>3, FS_EmptySet DEF BoundsHold, Fits
<1>5. MemoryTypeOK
  BY <1>1, <1>2 DEF MemoryTypeOK
<1> QED
  BY <1>4, <1>5 DEF MemoryIInv

(* What the types say of the store and of a waiting call.                    *)
LEMMA CallsAreTyped ==
  ASSUME MemoryIInv
  PROVE  /\ Accounted(store) /\ Fits(store)
         /\ \A c \in Callers : waiting[c] # NoCall =>
              /\ waiting[c].op \in Operations /\ waiting[c].id \in Ids
              /\ waiting[c].now \in 1 .. MaxTime /\ Now(c) \in 1 .. MaxTime
              /\ Stamped(waiting[c])
<1>1. Accounted(store) /\ Fits(store)
  BY DEF MemoryIInv, MemoryTypeOK, BoundsHold, Accounted
<1>2. ASSUME NEW c \in Callers, waiting[c] # NoCall
      PROVE  /\ waiting[c].op \in Operations /\ waiting[c].id \in Ids
             /\ waiting[c].now \in 1 .. MaxTime
  <2>1. waiting[c] \in Calls
    BY <1>2 DEF MemoryIInv, MemoryTypeOK
  <2> QED
    BY <2>1 DEF Calls
<1>3. clock \in 1 .. MaxTime
  BY DEF MemoryIInv, MemoryTypeOK
<1> QED
  BY <1>1, <1>2, <1>3 DEF Now, MemoryIInv

(* The sweep of a call takes expired entries only.                           *)
LEMMA SweepIsSound ==
  ASSUME MemoryIInv, NEW c
  PROVE  LET s == Swept(c)
         IN  /\ Accounted(s) /\ Fits(s)
             /\ DOMAIN s.items \subseteq DOMAIN store.items
             /\ \A k \in DOMAIN s.items : s.items[k] = store.items[k]
             /\ \A k \in DOMAIN store.items \ DOMAIN s.items : Expired(store.items[k], Now(c))
<1> DEFINE K == Stale(store, Now(c))
           r == Without(store, K)
<1>1. Accounted(store) /\ Fits(store)
  BY CallsAreTyped
<1>2. /\ Accounted(r) /\ DOMAIN r.items = DOMAIN store.items \ K
      /\ \A k \in DOMAIN store.items \ K : r.items[k] = store.items[k]
  BY <1>1, WithoutIsAccounted
<1>3. Fits(r)
  BY <1>1, FitsWithout
<1>4. \A k \in K : Expired(store.items[k], Now(c))
  BY DEF Stale
<1>5. Swept(c) = r \/ Swept(c) = store
  BY DEF Swept, Sweep
<1> HIDE DEF r, K
<1> QED
  BY <1>1, <1>2, <1>3, <1>4, <1>5

(* Why an entry may leave the store when the call of c returns.              *)
LeftInOrder(c) ==
  \A k \in DOMAIN store.items \ DOMAIN store'.items :
    \/ Expired(store.items[k], Now(c))
    \/ waiting[c].op = "delete" /\ waiting[c].id = k
    \/ /\ Writes(c)
       /\ \A j \in DOMAIN store'.items \ {waiting[c].id} :
            store.items[k].storedAt <= store.items[j].storedAt

(* What left to make room had to.                                            *)
RoomWasNeeded(c) ==
  Evicts(c) # {} =>
    \E k \in Evicts(c) :
      /\ \A j \in Evicts(c) : store.items[j].storedAt <= store.items[k].storedAt
      /\ ~Fits(Put(store', k, store.items[k]))

LeftRightly(c) == LeftInOrder(c) /\ RoomWasNeeded(c)

(* When only expired and deleted entries left, nothing was evicted.          *)
LEMMA NothingEvicted ==
  ASSUME NEW c,
         \A k \in DOMAIN store.items \ DOMAIN store'.items :
           Expired(store.items[k], Now(c)) \/ (waiting[c].op = "delete" /\ waiting[c].id = k)
  PROVE  LeftRightly(c)
BY DEF LeftRightly, LeftInOrder, RoomWasNeeded, Evicts

(* A call that has run: the account is right, both bounds hold, what was     *)
(* written is there and what left could leave.                               *)
CallAnswered(c) ==
  /\ waiting[c] # NoCall
  /\ waiting' = [waiting EXCEPT ![c] = NoCall]
  /\ ret' \in [Callers -> {"none", "ok", "notfound", "exists", "error"}]
  /\ lastCleanup' \in 0 .. MaxTime
  /\ UNCHANGED <<storeKind, clock>>
  /\ Accounted(store') /\ Fits(store')
  /\ Writes(c) /\ ret'[c] = "ok" => waiting[c].id \in DOMAIN store'.items
  /\ LeftRightly(c)

(* Returning with a sound store is all that is left to a call.               *)
LEMMA ReturnAnswers ==
  ASSUME MemoryIInv, NEW c \in Callers, waiting[c] # NoCall, NEW s,
         NEW r \in {"ok", "notfound", "exists", "error"}, Return(c, s, r),
         Accounted(s), Fits(s),
         Writes(c) /\ r = "ok" => waiting[c].id \in DOMAIN s.items, LeftRightly(c)
  PROVE  CallAnswered(c)
<1>1. store' = s
  BY DEF Return
<1>2. ret \in [Callers -> {"none", "ok", "notfound", "exists", "error"}]
  BY DEF MemoryIInv, MemoryTypeOK
<1>3. /\ ret' \in [Callers -> {"none", "ok", "notfound", "exists", "error"}]
      /\ ret'[c] = r
  BY <1>2 DEF Return
<1>4. lastCleanup' \in 0 .. MaxTime
  <2>1. Now(c) \in 1 .. MaxTime /\ lastCleanup \in 0 .. MaxTime
    BY CallsAreTyped DEF MemoryIInv, MemoryTypeOK
  <2>2. lastCleanup' = Now(c) \/ lastCleanup' = lastCleanup
    BY DEF Return
  <2> QED
    BY <2>1, <2>2, MemoryStoreAssumption
<1>5. waiting' = [waiting EXCEPT ![c] = NoCall] /\ UNCHANGED <<storeKind, clock>>
  BY DEF Return
<1> QED
  BY <1>1, <1>3, <1>4, <1>5 DEF CallAnswered

(* A call that takes out its own entry at most, when that has expired or is  *)
(* to be deleted.                                                            *)
LEMMA RemovalAnswers ==
  ASSUME MemoryIInv, NEW c \in Callers, waiting[c] # NoCall,
         NEW K \in SUBSET {waiting[c].id},
         \A k \in K \cap DOMAIN Swept(c).items :
           Expired(Swept(c).items[k], Now(c)) \/ waiting[c].op = "delete",
         NEW r \in {"ok", "notfound", "exists", "error"}, Return(c, Without(Swept(c), K), r),
         Writes(c) => r # "ok"
  PROVE  CallAnswered(c)
<1> DEFINE s == Swept(c)
           w == Without(s, K)
<1>1. /\ Accounted(s) /\ Fits(s)
      /\ DOMAIN s.items \subseteq DOMAIN store.items
      /\ \A k \in DOMAIN s.items : s.items[k] = store.items[k]
      /\ \A k \in DOMAIN store.items \ DOMAIN s.items : Expired(store.items[k], Now(c))
  BY SweepIsSound
<1>2. Accounted(w) /\ Fits(w) /\ DOMAIN w.items = DOMAIN s.items \ K
  BY <1>1, WithoutIsAccounted, FitsWithout
<1>3. store' = w
  BY DEF Return
<1>4. LeftRightly(c)
  <2> SUFFICES ASSUME NEW k \in DOMAIN store.items \ DOMAIN w.items
               PROVE  Expired(store.items[k], Now(c)) \/ (waiting[c].op = "delete" /\ waiting[c].id = k)
    BY <1>3, NothingEvicted
  <2>1. CASE k \notin DOMAIN s.items
    BY <1>1, <2>1
  <2>2. CASE k \in DOMAIN s.items
    <3>1. k \in K
      BY <1>2, <2>2
    <3> QED
      BY <1>1, <2>2, <3>1
  <2> QED
    BY <2>1, <2>2
<1> HIDE DEF w
<1>5. Return(c, w, r)
  BY DEF w
<1> QED
  BY <1>2, <1>4, <1>5, ReturnAnswers

(* A write: its entry in place of the one it found, and the bounds enforced. *)
LEMMA WriteAnswers ==
  ASSUME MemoryIInv, NEW c \in Callers, Writes(c), NEW p, Accounted(p),
         DOMAIN p.items = DOMAIN Swept(c).items \cup {waiting[c].id},
         \A k \in DOMAIN Swept(c).items \ {waiting[c].id} : p.items[k] = Swept(c).items[k],
         FitsAlone(p.items[waiting[c].id].size),
         Return(c, Enforce(p, waiting[c].id), "ok")
  PROVE  CallAnswered(c)
<1> DEFINE s == Swept(c)
           id == waiting[c].id
           w == Enforce(p, id)
<1>1. /\ DOMAIN s.items \subseteq DOMAIN store.items
      /\ \A k \in DOMAIN s.items : s.items[k] = store.items[k]
      /\ \A k \in DOMAIN store.items \ DOMAIN s.items : Expired(store.items[k], Now(c))
  BY SweepIsSound
<1>2. /\ Accounted(w) /\ Fits(w)
      /\ id \in DOMAIN w.items
      /\ DOMAIN w.items \subseteq DOMAIN p.items
      /\ \A k \in DOMAIN p.items \ DOMAIN w.items, j \in DOMAIN w.items \ {id} :
           p.items[k].storedAt <= p.items[j].storedAt
  <2>1. id \in DOMAIN p.items
    OBVIOUS
  <2> QED
    BY <2>1, EnforceFits
<1>3. store' = w
  BY DEF Return
<1>4. LeftInOrder(c)
  <2> SUFFICES ASSUME NEW k \in DOMAIN store.items \ DOMAIN w.items, k \in DOMAIN s.items,
                      NEW j \in DOMAIN w.items \ {id}
               PROVE  store.items[k].storedAt <= store.items[j].storedAt
    BY <1>1, <1>3 DEF LeftInOrder
  <2>1. k \in DOMAIN p.items \ DOMAIN w.items /\ k # id
    BY <1>2
  <2>2. p.items[k].storedAt <= p.items[j].storedAt
    BY <1>2, <2>1
  <2>3. j \in DOMAIN s.items
    BY <1>2
  <2>4. p.items[k] = store.items[k] /\ p.items[j] = store.items[j]
    BY <1>1, <2>1, <2>3
  <2> QED
    BY <2>2, <2>4
<1>6. RoomWasNeeded(c)
  <2> SUFFICES ASSUME Evicts(c) # {} PROVE RoomWasNeeded(c)
    BY DEF RoomWasNeeded
  <2> DEFINE E == Evicted(p, id)
  <2>1. DOMAIN w.items = DOMAIN p.items \ E /\ E \subseteq DOMAIN p.items \ {id}
    BY WithoutIsAccounted DEF Enforce, Evicted, Evictable
  <2>2. \A k \in DOMAIN s.items \ {id} : p.items[k] = store.items[k]
    BY <1>1
  <2>3. waiting[c].op # "delete"
    BY DEF Writes
  <2> HIDE DEF w, E
  <2>4. \A k \in Evicts(c) : k \in E
    BY <1>1, <1>2, <1>3, <2>1 DEF Evicts
  <2>5. id \in DOMAIN p.items /\ E # {}
    BY <2>4
  <2>6. PICK m \in E :
          /\ \A k \in E : p.items[k].storedAt <= p.items[m].storedAt
          /\ ~Fits(Put(w, m, p.items[m]))
    BY <2>5, EnforceIsNeeded DEF E, w
  <2>7. \A k \in E : k \in DOMAIN s.items /\ k \in DOMAIN store.items /\ p.items[k] = store.items[k]
    BY <1>1, <2>1, <2>2
  <2>8. m \in Evicts(c)
    <3>1. PICK k \in Evicts(c) : TRUE
      OBVIOUS
    <3>2. /\ ~Expired(store.items[k], Now(c))
          /\ store.items[k].storedAt <= store.items[m].storedAt
      BY <2>4, <2>6, <2>7, <3>1 DEF Evicts
    <3>3. store.items[k] \in Entries /\ store.items[m] \in Entries
      BY <2>4, <2>7, <3>1, CallsAreTyped DEF Accounted
    <3>4. Now(c) \in Nat /\ TTL \in Nat /\ MaxTime \in Nat
      BY CallsAreTyped, MemoryStoreAssumption DEF Writes
    <3>5. ~Expired(store.items[m], Now(c))
      BY <3>2, <3>3, <3>4 DEF Expired, Entries
    <3> QED
      BY <1>3, <2>1, <2>3, <2>7, <3>5 DEF Evicts
  <2>9. \A k \in Evicts(c) : store.items[k].storedAt <= store.items[m].storedAt
    BY <2>4, <2>6, <2>7
  <2>10. ~Fits(Put(store', m, store.items[m]))
    BY <1>3, <2>6, <2>7
  <2> QED
    BY <2>8, <2>9, <2>10 DEF RoomWasNeeded
<1>7. LeftRightly(c)
  BY <1>4, <1>6 DEF LeftRightly
<1> HIDE DEF w
<1>5. Return(c, w, "ok")
  BY DEF w
<1> QED
  BY <1>2, <1>5, <1>7, ReturnAnswers DEF Writes

LEMMA CreateAnswers ==
  ASSUME MemoryIInv, NEW c \in Callers, Create(c)
  PROVE  CallAnswered(c)
<1> DEFINE s == Swept(c)
           id == waiting[c].id
           e == Entry(waiting[c].size, Now(c))
<1>1. waiting[c] # NoCall /\ waiting[c].op = "create"
  BY DEF Create, Runs
<1>2. id \in Ids /\ Now(c) \in 1 .. MaxTime /\ waiting[c].size \in Nat \ {0} /\ FitsAlone(waiting[c].size)
  BY <1>1, CallsAreTyped DEF Stamped
<1>3. Accounted(s)
  BY SweepIsSound
<1>4. CASE Found(c)
  <2>1. Return(c, s, "exists")
    BY <1>4 DEF Create
  <2>2. LeftRightly(c)
    BY <2>1, SweepIsSound, NothingEvicted DEF Return
  <2>3. Accounted(s) /\ Fits(s)
    BY SweepIsSound
  <2> QED
    BY <1>1, <2>1, <2>2, <2>3, ReturnAnswers
<1>5. CASE ~Found(c)
  <2>1. e \in Entries /\ e.size = waiting[c].size
    <3>1. TTL \in Nat /\ MaxTime \in Nat
      BY MemoryStoreAssumption
    <3> QED
      BY <1>2, <3>1 DEF Entry, Entries
  <2> DEFINE p == Put(s, id, e)
  <2> HIDE DEF e
  <2>2. /\ Accounted(p) /\ DOMAIN p.items = DOMAIN s.items \cup {id} /\ p.items[id] = e
        /\ \A k \in DOMAIN s.items \ {id} : p.items[k] = s.items[k]
    BY <1>2, <1>3, <2>1, PutIsAccounted
  <2>3. Return(c, Enforce(p, id), "ok")
    BY <1>5 DEF Create, e
  <2>4. Writes(c) /\ FitsAlone(p.items[id].size)
    BY <1>1, <1>2, <2>1, <2>2 DEF Writes
  <2> HIDE DEF p
  <2> QED
    BY <2>2, <2>3, <2>4, WriteAnswers
<1> QED
  BY <1>4, <1>5

LEMMA UpdateAnswers ==
  ASSUME MemoryIInv, NEW c \in Callers, UpdateEntry(c)
  PROVE  CallAnswered(c)
<1> DEFINE s == Swept(c)
           id == waiting[c].id
           n == waiting[c].size
           e == [s.items[id] EXCEPT !.size = n]
<1>1. waiting[c] # NoCall /\ waiting[c].op = "update" /\ id \in DOMAIN s.items
  BY DEF UpdateEntry, Runs, Found, Present
<1>2. id \in Ids /\ n \in Nat \ {0} /\ FitsAlone(n)
  BY <1>1, CallsAreTyped DEF Stamped
<1>3. Accounted(s)
  BY SweepIsSound
<1>4. e \in Entries /\ e.size = n
  <2>1. s.items[id] \in Entries
    BY <1>1, <1>3 DEF Accounted
  <2> QED
    BY <1>2, <2>1 DEF Entries
<1> DEFINE p == Put(s, id, e)
<1> HIDE DEF e
<1>5. /\ Accounted(p) /\ DOMAIN p.items = DOMAIN s.items \cup {id} /\ p.items[id] = e
      /\ \A k \in DOMAIN s.items \ {id} : p.items[k] = s.items[k]
  BY <1>2, <1>3, <1>4, PutIsAccounted
<1>6. Return(c, Enforce(p, id), "ok")
  BY DEF UpdateEntry, e
<1>7. Writes(c) /\ FitsAlone(p.items[id].size)
  BY <1>1, <1>2, <1>4, <1>5 DEF Writes
<1> HIDE DEF p
<1> QED
  BY <1>5, <1>6, <1>7, WriteAnswers

(* Growing an entry in place is putting the grown one in its place.          *)
Grown(s, id, n) == [items |-> [s.items EXCEPT ![id].size = @ + n], total |-> s.total + n]

LEMMA GrownIsAccounted ==
  ASSUME NEW s, Accounted(s), NEW id \in DOMAIN s.items, NEW n \in Nat \ {0}
  PROVE  LET p == Grown(s, id, n)
         IN  /\ Accounted(p) /\ DOMAIN p.items = DOMAIN s.items \cup {id}
             /\ \A k \in DOMAIN s.items \ {id} : p.items[k] = s.items[k]
             /\ p.items[id].size = s.items[id].size + n
<1> DEFINE p == Grown(s, id, n)
           D == DOMAIN s.items \ {id}
<1>1. s.items[id] \in Entries /\ s.items[id].size \in Nat \ {0}
  BY DEF Accounted, Entries
<1>2. /\ DOMAIN p.items = D \cup {id}
      /\ \A k \in D : p.items[k] = s.items[k]
      /\ p.items[id] = [s.items[id] EXCEPT !.size = @ + n]
      /\ p.total = s.total + n
  BY DEF Grown
<1> HIDE DEF p
<1>3. p.items[id] \in Entries /\ p.items[id].size = s.items[id].size + n
  BY <1>1, <1>2 DEF Entries
<1>4. IsFiniteSet(D) /\ IsFiniteSet({id}) /\ \A k \in D : s.items[k].size \in Nat
  BY AccountedIsFinite, FS_Difference, FS_Singleton
<1>5. p.items[id].size \in Nat /\ s.items[id].size \in Nat
  BY <1>1, <1>3
<1>6. \A k \in D \cup {id} : p.items[k].size \in Nat /\ s.items[k].size \in Nat
  BY <1>2, <1>4, <1>5
<1>7. /\ Weight(p.items, D \cup {id}) = Weight(p.items, D) + Weight(p.items, {id})
      /\ Weight(s.items, D \cup {id}) = Weight(s.items, D) + Weight(s.items, {id})
  BY <1>4, <1>6, WeightsAdd
<1>8. /\ Weight(p.items, {id}) = p.items[id].size
      /\ Weight(s.items, {id}) = s.items[id].size
  BY <1>5, WeightOfOne
<1>9. Weight(p.items, D) = Weight(s.items, D) /\ Weight(s.items, D) \in Nat
  BY <1>2, <1>4, WeightIsOfSizes, BytesAreFinite
<1>10. DOMAIN s.items = D \cup {id}
  OBVIOUS
<1>11. s.total = Weight(s.items, D \cup {id})
  BY <1>10 DEF Accounted
<1> HIDE DEF D
<1>12. p.total = Weight(p.items, DOMAIN p.items)
  BY <1>2, <1>3, <1>5, <1>7, <1>8, <1>9, <1>11
<1>13. DOMAIN p.items \subseteq Ids /\ \A k \in DOMAIN p.items : p.items[k] \in Entries
  BY <1>2, <1>3, <1>10 DEF Accounted, D
<1>14. Accounted(p)
  BY <1>12, <1>13 DEF Accounted
<1> QED
  BY <1>2, <1>3, <1>10, <1>14 DEF p, D

LEMMA AppendAnswers ==
  ASSUME MemoryIInv, NEW c \in Callers, AppendItems(c)
  PROVE  CallAnswered(c)
<1> DEFINE s == Swept(c)
           id == waiting[c].id
           n == waiting[c].size
           p == Grown(s, id, n)
<1>1. waiting[c] # NoCall /\ waiting[c].op = "append" /\ id \in DOMAIN s.items
  BY DEF AppendItems, Runs, Found, Present
<1>2. n \in Nat \ {0}
  BY <1>1, CallsAreTyped DEF Stamped
<1>3. Accounted(s) /\ Fits(s)
  BY SweepIsSound
<1>4. CASE ~MayGrow(s, id, n)
  <2>1. Return(c, s, "error")
    BY <1>4 DEF AppendItems
  <2>2. LeftRightly(c)
    BY <2>1, SweepIsSound, NothingEvicted DEF Return
  <2> QED
    BY <1>1, <1>3, <2>1, <2>2, ReturnAnswers
<1>5. CASE MayGrow(s, id, n)
  <2>1. Return(c, Enforce(p, id), "ok")
    BY <1>5 DEF AppendItems, Grown
  <2>2. /\ Accounted(p) /\ DOMAIN p.items = DOMAIN s.items \cup {id}
        /\ \A k \in DOMAIN s.items \ {id} : p.items[k] = s.items[k]
        /\ p.items[id].size = s.items[id].size + n
    BY <1>1, <1>2, <1>3, GrownIsAccounted
  <2>3. Writes(c) /\ FitsAlone(p.items[id].size)
    BY <1>1, <1>5, <2>2 DEF Writes, MayGrow
  <2> HIDE DEF p
  <2> QED
    BY <2>1, <2>2, <2>3, WriteAnswers
<1> QED
  BY <1>4, <1>5

LEMMA ReadsAnswer ==
  ASSUME MemoryIInv, NEW c \in Callers, NotFound(c) \/ Get(c) \/ DeleteEntry(c)
  PROVE  CallAnswered(c)
<1> DEFINE s == Swept(c)
           id == waiting[c].id
<1>1. CASE NotFound(c)
  <2>1. waiting[c] # NoCall /\ ~Found(c) /\ Return(c, Without(s, {id}), "notfound")
    BY <1>1 DEF NotFound, Runs, RemoveEntry
  <2>2. \A k \in {id} \cap DOMAIN s.items : Expired(s.items[k], Now(c))
    BY <2>1 DEF Found, Present
  <2> QED
    BY <2>1, <2>2, RemovalAnswers
<1>2. CASE Get(c)
  <2>1. waiting[c] # NoCall /\ waiting[c].op = "get" /\ Return(c, s, "ok")
    BY <1>2 DEF Get, Runs
  <2>2. LeftRightly(c)
    BY <2>1, SweepIsSound, NothingEvicted DEF Return
  <2>3. Accounted(s) /\ Fits(s)
    BY SweepIsSound
  <2> QED
    BY <2>1, <2>2, <2>3, ReturnAnswers DEF Writes
<1>3. CASE DeleteEntry(c)
  <2>1. waiting[c] # NoCall /\ waiting[c].op = "delete"
    BY <1>3 DEF DeleteEntry, Runs
  <2>2. PICK r \in {"ok", "notfound"} : Return(c, Without(s, {id}), r)
    BY <1>3 DEF DeleteEntry, RemoveEntry
  <2> QED
    BY <2>1, <2>2, RemovalAnswers DEF Writes
<1> QED
  BY <1>1, <1>2, <1>3

(* Every step of the store stamps a call, answers one, or lets time pass.    *)
LEMMA MemorySteps ==
  ASSUME MemoryIInv, MemoryNext
  PROVE  (\E c \in Callers : Begin(c) \/ CallAnswered(c)) \/ Tick
<1>1. ASSUME NEW c \in Callers, Create(c) \/ NotFound(c) \/ Get(c) \/ UpdateEntry(c)
                                  \/ AppendItems(c) \/ DeleteEntry(c)
      PROVE  CallAnswered(c)
  BY <1>1, CreateAnswers, ReadsAnswer, UpdateAnswers, AppendAnswers
<1> QED
  BY <1>1 DEF MemoryNext

LEMMA AnswersKeep ==
  ASSUME MemoryIInv, NEW c \in Callers, CallAnswered(c)
  PROVE  MemoryIInv'
<1>1. Accounted(store') /\ Fits(store')
  BY DEF CallAnswered
<1>2. store'.total \in Nat
  BY <1>1, AccountedIsFinite
<1>3. BoundsHold'
  BY <1>1 DEF BoundsHold, Accounted, Fits
<1>4. /\ waiting \in [Callers -> Calls \cup {NoCall}]
      /\ waiting' = [waiting EXCEPT ![c] = NoCall]
      /\ storeKind' = storeKind /\ clock' = clock
  BY DEF CallAnswered, MemoryIInv, MemoryTypeOK
<1>5. Calls' = Calls
  BY <1>4 DEF Calls, Operations
<1>6. waiting' \in [Callers -> Calls' \cup {NoCall}]
  BY <1>4, <1>5
<1>7. MemoryTypeOK'
  BY <1>1, <1>2, <1>4, <1>6 DEF MemoryTypeOK, CallAnswered, Accounted, MemoryIInv
<1>8. \A d \in Callers : waiting'[d] # NoCall => Stamped(waiting'[d])
  BY <1>4 DEF MemoryIInv
<1> QED
  BY <1>3, <1>7, <1>8 DEF MemoryIInv, Stamped, FitsAlone

LEMMA StampingKeeps ==
  ASSUME MemoryIInv, NEW c \in Callers, Begin(c)
  PROVE  MemoryIInv'
<1>1. UNCHANGED <<storeKind, store, lastCleanup, clock>>
  BY DEF Begin
<1>2. /\ waiting \in [Callers -> Calls \cup {NoCall}]
      /\ ret \in [Callers -> {"none", "ok", "notfound", "exists", "error"}]
      /\ clock \in 1 .. MaxTime
  BY DEF MemoryIInv, MemoryTypeOK
<1>3. ret' \in [Callers -> {"none", "ok", "notfound", "exists", "error"}]
  BY <1>2 DEF Begin
<1>4. \/ waiting' = waiting
      \/ \E w \in Calls : Stamped(w) /\ waiting' = [waiting EXCEPT ![c] = w]
  <2> SUFFICES ASSUME NEW op \in Operations, NEW id \in Ids,
                      NEW size \in IF op \in {"get", "delete"} THEN {0} ELSE Sizes,
                      ~(op \in {"create", "update"} /\ ~FitsAlone(size)),
                      waiting' = [waiting EXCEPT ![c] = [op |-> op, id |-> id, size |-> size, now |-> clock]]
               PROVE  \E w \in Calls : Stamped(w) /\ waiting' = [waiting EXCEPT ![c] = w]
    BY DEF Begin
  <2> DEFINE w == [op |-> op, id |-> id, size |-> size, now |-> clock]
  <2>1. w \in Calls
    BY <1>2 DEF Calls
  <2>2. w.op = op /\ w.size = size
    OBVIOUS
  <2>3. op \in {"create", "update", "append"} => size \in Nat \ {0}
    BY MemoryStoreAssumption
  <2>4. Stamped(w)
    BY <2>2, <2>3 DEF Stamped
  <2> QED
    BY <2>1, <2>4
<1>5. Calls' = Calls
  BY <1>1 DEF Calls, Operations
<1>6. /\ waiting' \in [Callers -> Calls' \cup {NoCall}]
      /\ \A d \in Callers : waiting'[d] # NoCall => Stamped(waiting'[d])
  BY <1>2, <1>4, <1>5 DEF MemoryIInv
<1>7. MemoryTypeOK'
  BY <1>1, <1>3, <1>6 DEF MemoryTypeOK, MemoryIInv, Entries
<1>8. BoundsHold'
  BY <1>1 DEF BoundsHold, MemoryIInv, Fits, Weight, Bytes
<1> QED
  BY <1>6, <1>7, <1>8 DEF MemoryIInv, Stamped, FitsAlone

LEMMA TimeKeeps ==
  ASSUME MemoryIInv, Tick \/ UNCHANGED memoryVars
  PROVE  MemoryIInv'
<1>1. UNCHANGED <<storeKind, store, lastCleanup, waiting, ret>>
  BY DEF Tick, memoryVars
<1>2. clock' \in 1 .. MaxTime
  BY MemoryStoreAssumption DEF Tick, memoryVars, MemoryIInv, MemoryTypeOK
<1>3. Calls' = Calls
  BY <1>1 DEF Calls, Operations
<1>4. MemoryTypeOK'
  BY <1>1, <1>2, <1>3 DEF MemoryTypeOK, MemoryIInv, Entries
<1>5. BoundsHold'
  BY <1>1 DEF BoundsHold, MemoryIInv, Fits, Weight, Bytes
<1> QED
  BY <1>1, <1>4, <1>5 DEF MemoryIInv, Stamped, FitsAlone

(* The types, the account, the bounds and the stamps hold in every state,    *)
(* for any sizes, bounds, retention time and number of callers.              *)
THEOREM MemoryInvariance == MemorySpec => []MemoryIInv
<1>1. MemoryInit => MemoryIInv
  BY MemoryBegins
<1>2. MemoryIInv /\ [MemoryNext]_memoryVars => MemoryIInv'
  BY MemorySteps, AnswersKeep, StampingKeeps, TimeKeeps
<1> QED
  BY <1>1, <1>2, PTL DEF MemorySpec

(* After every call the byte account is the sum of the sizes of what is      *)
(* there, and neither bound is exceeded (enforceBoundsLocked, putLocked,     *)
(* removeLocked, AppendItems).                                               *)
THEOREM StoreBoundsHold == MemorySpec => []BoundsHold
<1>1. MemoryIInv => BoundsHold
  BY DEF MemoryIInv
<1> QED
  BY <1>1, MemoryInvariance, PTL

(* A write that succeeded is in the store, and a live entry leaves only to   *)
(* be deleted or to make room that the store needed: no older one stays, and *)
(* with the youngest that left the store would not fit (the comment of       *)
(* enforceBoundsLocked, and its loop condition).                             *)
THEOREM OldestLeaveFirst == MemorySpec => LiveEntriesLeaveInOrder
<1> DEFINE A == \A c \in Callers : Returns(c) =>
                  /\ Writes(c) /\ ret'[c] = "ok" => waiting[c].id \in DOMAIN store'.items
                  /\ LeftRightly(c)
<1>1. ASSUME MemoryIInv, MemoryNext PROVE A
  <2> SUFFICES ASSUME NEW c \in Callers, Returns(c) PROVE CallAnswered(c)
    BY DEF CallAnswered
  <2>1. waiting \in [Callers -> Calls \cup {NoCall}]
    BY <1>1 DEF MemoryIInv, MemoryTypeOK
  <2>2. waiting[c] # NoCall /\ waiting'[c] = NoCall
    BY DEF Returns
  <2>3. ~Tick
    BY <2>2 DEF Tick
  <2>4. ASSUME NEW d \in Callers, Begin(d) PROVE FALSE
    <3>1. waiting[d] = NoCall
      BY <2>4 DEF Begin
    <3>2. waiting'[c] = waiting[c]
      BY <2>1, <2>2, <2>4, <3>1 DEF Begin
    <3> QED
      BY <2>2, <3>2
  <2>5. ASSUME NEW d \in Callers, CallAnswered(d) PROVE d = c
    BY <2>1, <2>2, <2>5 DEF CallAnswered
  <2> QED
    BY <1>1, <2>3, <2>4, <2>5, MemorySteps
<1>2. ASSUME UNCHANGED memoryVars PROVE A
  BY <1>2 DEF Returns, memoryVars
<1>3. A => (\A c \in Callers : Returns(c) =>
       /\ Writes(c) /\ ret'[c] = "ok" => waiting[c].id \in DOMAIN store'.items
       /\ Evicts(c) # {} => Writes(c)
       /\ \A k \in Evicts(c), j \in DOMAIN store'.items \ {waiting[c].id} :
            store.items[k].storedAt <= store.items[j].storedAt
       /\ Evicts(c) # {} =>
            \E k \in Evicts(c) :
              /\ \A j \in Evicts(c) : store.items[j].storedAt <= store.items[k].storedAt
              /\ ~Fits(Put(store', k, store.items[k])))
  <2> SUFFICES ASSUME NEW c \in Callers, LeftRightly(c)
               PROVE  /\ Evicts(c) # {} => Writes(c)
                      /\ \A k \in Evicts(c), j \in DOMAIN store'.items \ {waiting[c].id} :
                           store.items[k].storedAt <= store.items[j].storedAt
                      /\ RoomWasNeeded(c)
    BY DEF RoomWasNeeded
  <2> QED
    BY DEF LeftRightly, LeftInOrder, Evicts
<1> QED
  BY <1>1, <1>2, <1>3, MemoryInvariance, PTL DEF MemorySpec, LiveEntriesLeaveInOrder

-----------------------------------------------------------------------------
(* Lists read page by page: sequences of ids along an order.                 *)

(* An order: every id has one place in it.                                   *)
Distinct(o) ==
  /\ o \in Seq(Range(o))
  /\ \A i, j \in DOMAIN o : o[i] = o[j] => i = j

(* A sequence of ids that follows the order o.                               *)
Along(s, o) ==
  /\ s \in Seq(Range(o))
  /\ \A i, j \in DOMAIN s : i < j => Position(o, s[i]) < Position(o, s[j])

LEMMA PlacesInOrder ==
  ASSUME NEW o, Distinct(o)
  PROVE  /\ \A x \in Range(o) : Position(o, x) \in 1 .. Len(o) /\ o[Position(o, x)] = x
         /\ \A i \in DOMAIN o : Position(o, o[i]) = i
         /\ \A x, y \in Range(o) : Position(o, x) = Position(o, y) => x = y
         /\ Along(o, o)
<1>1. DOMAIN o = 1 .. Len(o) /\ Len(o) \in Nat
  BY LenProperties DEF Distinct
<1>2. \A x \in Range(o) : \E i \in DOMAIN o : o[i] = x
  BY DEF Range
<1>3. \A x \in Range(o) : Position(o, x) \in DOMAIN o /\ o[Position(o, x)] = x
  BY <1>2 DEF Position
<1>4. \A i \in DOMAIN o : Position(o, o[i]) = i
  <2> TAKE i \in DOMAIN o
  <2>1. o[i] \in Range(o)
    BY DEF Range
  <2> QED
    BY <1>3, <2>1 DEF Distinct
<1>5. \A i, j \in DOMAIN o : i < j => Position(o, o[i]) < Position(o, o[j])
  BY <1>1, <1>4
<1> QED
  BY <1>1, <1>3, <1>4, <1>5 DEF Along, Distinct

(* The last of a sequence along the order is the farthest.                   *)
LEMMA LastIsFarthest ==
  ASSUME NEW o, Distinct(o), NEW s, Along(s, o), s # <<>>
  PROVE  /\ Len(s) \in 1 .. Len(s) /\ Last(s) \in Range(o) /\ Last(s) = s[Len(s)]
         /\ \A i \in 1 .. Len(s) : Position(o, s[i]) <= Position(o, Last(s))
<1>1. /\ Len(s) \in Nat /\ DOMAIN s = 1 .. Len(s) /\ Len(s) > 0
      /\ \A i \in 1 .. Len(s) : s[i] \in Range(o)
  BY LenProperties, ElementOfSeq, EmptySeq DEF Along
<1> DEFINE n == Len(s)
<1>2. n \in 1 .. n /\ n \in Nat
  BY <1>1
<1>3. \A x \in Range(o) : Position(o, x) \in Nat
  BY PlacesInOrder, LenProperties DEF Distinct
<1>4. ASSUME NEW i \in 1 .. n PROVE Position(o, s[i]) <= Position(o, s[n])
  <2>1. Position(o, s[i]) \in Nat /\ Position(o, s[n]) \in Nat
    BY <1>1, <1>2, <1>3
  <2>2. CASE i = n
    BY <2>1, <2>2
  <2>3. CASE i # n
    <3>1. i < n
      BY <1>2, <2>3
    <3>2. Position(o, s[i]) < Position(o, s[n])
      BY <1>1, <1>2, <3>1 DEF Along
    <3> QED
      BY <2>1, <3>2
  <2> QED
    BY <2>2, <2>3
<1> QED
  BY <1>1, <1>2, <1>4 DEF Last

(* What the sequence functions do to the ids of a list.                      *)
LEMMA ListBasics ==
  ASSUME NEW S, NEW s \in Seq(S)
  PROVE  /\ Len(s) \in Nat /\ DOMAIN s = 1 .. Len(s)
         /\ \A i \in 1 .. Len(s) : s[i] \in S
         /\ \A x : x \in Range(s) <=> \E i \in 1 .. Len(s) : s[i] = x
         /\ s # <<>> <=> Len(s) > 0
<1>1. Len(s) \in Nat /\ DOMAIN s = 1 .. Len(s)
  BY LenProperties
<1>2. \A i \in 1 .. Len(s) : s[i] \in S
  BY ElementOfSeq
<1>3. s # <<>> <=> Len(s) > 0
  BY <1>1, EmptySeq
<1> QED
  BY <1>1, <1>2, <1>3 DEF Range

LEMMA UptoIsPrefix ==
  ASSUME NEW S, NEW s \in Seq(S), NEW n \in Nat
  PROVE  LET u == Upto(s, n)
             m == IF n < Len(s) THEN n ELSE Len(s)
         IN  /\ u \in Seq(S) /\ Len(u) = m
             /\ \A i \in 1 .. m : u[i] = s[i]
<1> DEFINE m == IF n < Len(s) THEN n ELSE Len(s)
<1>1. Len(s) \in Nat /\ \A i \in 1 .. Len(s) : s[i] \in S
  BY ListBasics
<1>2. m \in Nat /\ m <= Len(s) /\ Upto(s, n) = SubSeq(s, 1, m)
  BY <1>1 DEF Upto
<1> HIDE DEF m
<1>3. \A i \in 1 .. m : s[i] \in S
  BY <1>1, <1>2
<1>4. /\ SubSeq(s, 1, m) \in Seq(S)
      /\ Len(SubSeq(s, 1, m)) = IF 1 <= m THEN m - 1 + 1 ELSE 0
      /\ \A i \in 1 .. m - 1 + 1 : SubSeq(s, 1, m)[i] = s[1 + i - 1]
  BY <1>2, <1>3, SubSeqProperties
<1>5. Len(SubSeq(s, 1, m)) = m /\ \A i \in 1 .. m : SubSeq(s, 1, m)[i] = s[i]
  BY <1>2, <1>4
<1> QED
  BY <1>2, <1>4, <1>5 DEF m

(* Where a cursor stands in the order: 0 before the first page.              *)
CursorAt(o, after) == IF after = <<>> THEN 0 ELSE Position(o, after[1])

(* The rest of a list after a cursor begins behind the place of the cursor.  *)
RestFrom(ids, after, k) ==
  /\ Len(After(ids, after)) = Len(ids) - k
  /\ \A i \in 1 .. Len(ids) - k : After(ids, after)[i] = ids[k + i]
  /\ IF after = <<>> THEN k = 0 ELSE k > 0 /\ ids[k] = after[1]

LEMMA AfterIsRest ==
  ASSUME NEW S, NEW ids \in Seq(S), NEW after, KnownCursor(ids, after)
  PROVE  /\ After(ids, after) \in Seq(S)
         /\ \E k \in 0 .. Len(ids) : RestFrom(ids, after, k)
<1> DEFINE n == Len(ids)
<1>1. n \in Nat /\ DOMAIN ids = 1 .. n /\ \A i \in 1 .. n : ids[i] \in S
  BY ListBasics
<1>2. CASE after = <<>>
  <2>1. After(ids, after) = ids /\ n - 0 = n /\ 0 \in 0 .. n
    BY <1>1, <1>2 DEF After
  <2>2. \A i \in 1 .. n : 0 + i = i
    BY <1>1
  <2>3. RestFrom(ids, after, 0)
    BY <1>2, <2>1, <2>2 DEF RestFrom
  <2> QED
    BY <2>1, <2>3
<1>3. CASE after # <<>>
  <2> DEFINE k == Position(ids, after[1])
             r == SubSeq(ids, k + 1, n)
  <2>1. k \in 1 .. n /\ ids[k] = after[1]
    BY <1>1, <1>3 DEF KnownCursor, Range, Position
  <2>2. After(ids, after) = r
    BY <1>3 DEF After
  <2> HIDE DEF k, n
  <2>3. /\ r \in Seq(S)
        /\ Len(r) = IF k + 1 <= n THEN n - (k + 1) + 1 ELSE 0
        /\ \A i \in 1 .. n - (k + 1) + 1 : r[i] = ids[k + 1 + i - 1]
    BY <1>1, <2>1, SubSeqProperties
  <2> HIDE DEF r
  <2>4. n - (k + 1) + 1 = n - k /\ (k + 1 <= n \/ n - k = 0)
    BY <1>1, <2>1
  <2>5. Len(r) = n - k
    BY <2>3, <2>4
  <2>6. \A i \in 1 .. n - k : r[i] = ids[k + i]
    <3> TAKE i \in 1 .. n - k
    <3>1. k + 1 + i - 1 = k + i
      BY <1>1, <2>1
    <3> QED
      BY <2>3, <2>4, <3>1
  <2>7. RestFrom(ids, after, k) /\ k \in 0 .. n
    BY <1>1, <1>3, <2>1, <2>2, <2>5, <2>6 DEF RestFrom, n
  <2> QED
    BY <2>2, <2>3, <2>7 DEF n
<1> QED
  BY <1>2, <1>3

-----------------------------------------------------------------------------
(* Pages.                                                                    *)

(* A page behind a cursor: in order, and it has something when there is more.*)
PageInOrder(o, page, after) ==
  /\ Along(page.ids, o)
  /\ \A i \in DOMAIN page.ids : CursorAt(o, after) < Position(o, page.ids[i])
  /\ page.more => page.ids # <<>>

(* It has all of S behind the cursor, up to its own end when there is more.  *)
PageCovers(o, page, after, S) ==
  \A y \in S : CursorAt(o, after) < Position(o, y) =>
    \/ y \in Range(page.ids)
    \/ page.more /\ \A i \in DOMAIN page.ids : Position(o, page.ids[i]) < Position(o, y)

(* The page that a list gives behind a cursor it knows.                      *)
LEMMA PageIsNext ==
  ASSUME NEW o, Distinct(o), NEW ids, Along(ids, o), NEW after, KnownCursor(ids, after),
         NEW n \in Nat \ {0}, NEW page,
         page.ids = Upto(After(ids, after), n), page.more = (Len(After(ids, after)) > n)
  PROVE  PageInOrder(o, page, after) /\ PageCovers(o, page, after, Range(ids))
<1> DEFINE rest == After(ids, after)
           u == page.ids
<1>1. /\ ids \in Seq(Range(o)) /\ Len(ids) \in Nat /\ DOMAIN ids = 1 .. Len(ids)
      /\ \A i \in 1 .. Len(ids) : ids[i] \in Range(o)
      /\ \A y : y \in Range(ids) <=> \E i \in 1 .. Len(ids) : ids[i] = y
  BY ListBasics DEF Along
<1>a. rest \in Seq(Range(o)) /\ \E k \in 0 .. Len(ids) : RestFrom(ids, after, k)
  BY <1>1, AfterIsRest
<1>b. PICK k \in 0 .. Len(ids) : RestFrom(ids, after, k)
  BY <1>a
<1>2. /\ Len(rest) = Len(ids) - k
      /\ \A i \in 1 .. Len(ids) - k : rest[i] = ids[k + i]
      /\ IF after = <<>> THEN k = 0 ELSE k > 0 /\ ids[k] = after[1]
  BY <1>b DEF RestFrom
<1> DEFINE m == IF n < Len(ids) - k THEN n ELSE Len(ids) - k
<1>3. /\ u \in Seq(Range(o)) /\ Len(u) = m
      /\ \A i \in 1 .. m : u[i] = rest[i]
  <2>1. u = Upto(rest, n) /\ m = IF n < Len(rest) THEN n ELSE Len(rest)
    BY <1>2
  <2> HIDE DEF u, rest, m
  <2> QED
    BY <1>a, <2>1, UptoIsPrefix
<1>4. m \in Nat /\ m <= Len(ids) - k /\ (m < Len(ids) - k => n < Len(ids) - k)
  BY <1>1, <1>2
<1>5. page.more <=> n < Len(ids) - k
  BY <1>2
<1>6. page.more => m > 0
  BY <1>1, <1>2, <1>5
<1> HIDE DEF m, rest, u
<1>7. \A i \in 1 .. m : u[i] = ids[k + i] /\ k + i \in 1 .. Len(ids)
  <2> TAKE i \in 1 .. m
  <2>1. i \in 1 .. Len(ids) - k /\ k + i \in 1 .. Len(ids)
    BY <1>1, <1>4
  <2> QED
    BY <1>2, <1>3, <2>1
<1>8. DOMAIN u = 1 .. m /\ (u # <<>> <=> m > 0)
  BY <1>3, ListBasics
<1>9. \A i \in 1 .. Len(ids) : Position(o, ids[i]) \in Nat \ {0}
  BY <1>1, PlacesInOrder, LenProperties DEF Distinct
<1>10. \A i, j \in 1 .. Len(ids) : i < j => Position(o, ids[i]) < Position(o, ids[j])
  BY <1>1 DEF Along
<1>11. CursorAt(o, after) = IF k = 0 THEN 0 ELSE Position(o, ids[k])
  BY <1>2 DEF CursorAt
<1>12. PageInOrder(o, page, after)
  <2>1. \A i, j \in 1 .. m : i < j => Position(o, u[i]) < Position(o, u[j])
    <3> TAKE i, j \in 1 .. m
    <3>1. i < j => k + i < k + j
      BY <1>4
    <3> QED
      BY <1>7, <1>10, <3>1
  <2>2. \A i \in 1 .. m : CursorAt(o, after) < Position(o, u[i])
    <3> TAKE i \in 1 .. m
    <3>1. u[i] = ids[k + i] /\ k + i \in 1 .. Len(ids) /\ k < k + i
      BY <1>2, <1>7
    <3>2. CASE k = 0
      BY <1>9, <1>11, <3>1, <3>2
    <3>3. CASE k # 0
      <4>1. k \in 1 .. Len(ids)
        BY <1>1, <1>2, <3>3
      <4> QED
        BY <1>10, <1>11, <3>1, <3>3, <4>1
    <3> QED
      BY <3>2, <3>3
  <2> QED
    BY <1>3, <1>6, <1>8, <2>1, <2>2 DEF PageInOrder, Along, u
<1>13. PageCovers(o, page, after, Range(ids))
  <2> SUFFICES ASSUME NEW y \in Range(ids), CursorAt(o, after) < Position(o, y)
               PROVE  \/ y \in Range(u)
                      \/ page.more /\ \A i \in DOMAIN u : Position(o, u[i]) < Position(o, y)
    BY DEF PageCovers, u
  <2>1. PICK j \in 1 .. Len(ids) : ids[j] = y
    BY <1>1
  <2>2. j > k
    <3> SUFFICES ASSUME j <= k PROVE FALSE
      BY <1>2, <2>1
    <3>1. k \in 1 .. Len(ids)
      BY <1>1, <1>2, <2>1
    <3>2. CursorAt(o, after) = Position(o, ids[k])
      BY <1>11, <3>1
    <3>3. Position(o, ids[j]) <= Position(o, ids[k])
      <4>1. CASE j = k
        BY <1>9, <3>1, <4>1
      <4>2. CASE j < k
        BY <1>9, <1>10, <2>1, <3>1, <4>2
      <4> QED
        BY <2>1, <3>1, <4>1, <4>2
    <3> QED
      BY <1>9, <2>1, <3>1, <3>2, <3>3
  <2>3. CASE j - k <= m
    <3>1. j - k \in 1 .. m /\ k + (j - k) = j
      BY <1>2, <1>4, <2>1, <2>2, <2>3
    <3>2. u[j - k] = y
      BY <1>7, <2>1, <3>1
    <3> QED
      BY <1>8, <3>1, <3>2 DEF Range
  <2>4. CASE ~(j - k <= m)
    <3>1. page.more
      BY <1>1, <1>2, <1>4, <1>5, <2>1, <2>2, <2>4
    <3>2. \A i \in 1 .. m : Position(o, u[i]) < Position(o, y)
      <4> TAKE i \in 1 .. m
      <4>1. k + i < j
        BY <1>1, <1>4, <2>1, <2>4
      <4> QED
        BY <1>7, <1>10, <2>1, <4>1
    <3> QED
      BY <1>8, <3>1, <3>2
  <2> QED
    BY <2>3, <2>4
<1> QED
  BY <1>12, <1>13

-----------------------------------------------------------------------------
(* Entries sorted by time and id.                                            *)

LEMMA EntriesAreOrdered ==
  /\ \A e \in ListEntries : ~fileSortsBefore(e, e)
  /\ \A e, f \in ListEntries : e # f => fileSortsBefore(e, f) \/ fileSortsBefore(f, e)
  /\ \A e, f, g \in ListEntries :
       fileSortsBefore(e, f) /\ fileSortsBefore(f, g) => fileSortsBefore(e, g)
<1>1. \A e \in ListEntries : e.at \in Nat /\ e.id \in Nat
  BY ListingsAssumption
<1>2. \A e, f \in ListEntries : e # f => e.id # f.id
  BY ListingsAssumption
<1>3. \A e \in ListEntries : ~fileSortsBefore(e, e)
  <2> TAKE e \in ListEntries
  <2>2. Position(Sources, e.from) \in 1 .. Len(Sources)
    <3>1. e.from \in Range(Sources)
      BY ListingsAssumption
    <3>2. DOMAIN Sources = 1 .. Len(Sources)
      BY ListingsAssumption, LenProperties
    <3> QED
      BY <3>1, <3>2 DEF Range, Position
  <2>3. Position(Sources, e.from) \in Nat
    BY <2>2, ListingsAssumption, LenProperties
  <2> QED
    BY <1>1, <2>3 DEF fileSortsBefore
<1>4. \A e, f \in ListEntries :
        e # f => (fileSortsBefore(e, f) <=> (e.at > f.at \/ (e.at = f.at /\ e.id > f.id)))
  BY <1>1, <1>2 DEF fileSortsBefore
<1>5. \A e, f \in ListEntries : e # f => fileSortsBefore(e, f) \/ fileSortsBefore(f, e)
  BY <1>1, <1>2, <1>4
<1>6. ASSUME NEW e \in ListEntries, NEW f \in ListEntries, NEW g \in ListEntries,
             fileSortsBefore(e, f), fileSortsBefore(f, g)
      PROVE  fileSortsBefore(e, g)
  <2>1. e # f /\ f # g
    BY <1>3, <1>6
  <2>2. e # g
    BY <1>1, <1>4, <1>6, <2>1
  <2> QED
    BY <1>1, <1>4, <1>6, <2>1, <2>2
<1> QED
  BY <1>3, <1>5, <1>6

(* Sorted gives every entry its one place.                                   *)
LEMMA SortedIsOrdered ==
  ASSUME NEW S \in SUBSET ListEntries
  PROVE  /\ Sorted(S) \in Seq(S) /\ Range(Sorted(S)) = S
         /\ \A i, j \in DOMAIN Sorted(S) : i < j <=> fileSortsBefore(Sorted(S)[i], Sorted(S)[j])
         /\ \A i, j \in DOMAIN Sorted(S) : Sorted(S)[i] = Sorted(S)[j] => i = j
<1> DEFINE N == Cardinality(S)
           before(e) == {f \in S : fileSortsBefore(f, e)}
           rank == [e \in S |-> Cardinality(before(e))]
           s == Sorted(S)
<1>1. IsFiniteSet(S) /\ N \in Nat
  BY ListingsAssumption, FS_Subset, FS_CardinalityType
<1>2. \A e \in S : IsFiniteSet(before(e)) /\ Cardinality(before(e)) \in Nat
  BY <1>1, FS_Subset, FS_CardinalityType
<1>3. \A e, f \in S : fileSortsBefore(e, f) => rank[e] < rank[f]
  <2> SUFFICES ASSUME NEW e \in S, NEW f \in S, fileSortsBefore(e, f)
               PROVE  rank[e] < rank[f]
    OBVIOUS
  <2>1. before(e) \subseteq before(f) /\ e \in before(f) /\ e \notin before(e)
    BY EntriesAreOrdered
  <2>2. Cardinality(before(e)) <= Cardinality(before(f)) /\ Cardinality(before(e)) # Cardinality(before(f))
    BY <1>2, <2>1, FS_Subset
  <2> QED
    BY <1>2, <2>2
<1>4. \A e \in S : rank[e] \in 0 .. N - 1
  <2> TAKE e \in S
  <2>1. before(e) \subseteq S /\ e \notin before(e)
    BY EntriesAreOrdered
  <2>2. Cardinality(before(e)) <= N /\ Cardinality(before(e)) # N
    BY <1>1, <2>1, FS_Subset
  <2> QED
    BY <1>1, <1>2, <2>2
<1>5. rank \in Injection(S, 0 .. N - 1)
  <2>1. rank \in [S -> 0 .. N - 1]
    BY <1>4
  <2>2. \A e, f \in S : rank[e] = rank[f] => e = f
    <3> HIDE DEF rank
    <3> QED
      BY <1>3, <1>4, EntriesAreOrdered
  <2> HIDE DEF rank
  <2> QED
    BY <2>1, <2>2 DEF Injection, IsInjective
<1>6. IsFiniteSet(0 .. N - 1) /\ Cardinality(0 .. N - 1) = N
  BY <1>1, FS_Interval
<1>7. rank \in Surjection(S, 0 .. N - 1)
  BY <1>5, <1>6, FS_Injection
<1>8. \A n \in 1 .. N : \E e \in S : rank[e] = n - 1
  <2> HIDE DEF rank
  <2> TAKE n \in 1 .. N
  <2>1. n - 1 \in 0 .. N - 1
    BY <1>1
  <2> QED
    BY <1>7, <2>1 DEF Surjection
<1>9. DOMAIN s = 1 .. N /\ \A n \in 1 .. N : s[n] = CHOOSE e \in S : rank[e] = n - 1
  BY DEF Sorted
<1> HIDE DEF s, rank
<1>10. \A n \in 1 .. N : s[n] \in S /\ rank[s[n]] = n - 1
  BY <1>8, <1>9
<1>11. s \in Seq(S) /\ Len(s) = N
  <2>1. s \in [1 .. N -> S]
    <3>1. s = [n \in 1 .. N |-> CHOOSE e \in S : Cardinality({f \in S : fileSortsBefore(f, e)}) = n - 1]
      BY DEF s, Sorted
    <3> HIDE DEF N
    <3> QED
      BY <1>10, <3>1
  <2> QED
    BY <1>1, <2>1, LenProperties
<1>12. \A e \in S : s[rank[e] + 1] = e /\ rank[e] + 1 \in 1 .. N
  <2> TAKE e \in S
  <2>1. rank[e] + 1 \in 1 .. N
    BY <1>1, <1>4
  <2>2. rank[s[rank[e] + 1]] = rank[e] /\ s[rank[e] + 1] \in S
    BY <1>4, <1>10, <2>1
  <2> QED
    BY <1>5, <2>1, <2>2 DEF Injection, IsInjective
<1>13. Range(s) = S
  BY <1>9, <1>10, <1>12 DEF Range
<1>14. \A i, j \in 1 .. N : i < j <=> fileSortsBefore(s[i], s[j])
  <2> TAKE i, j \in 1 .. N
  <2>1. s[i] \in S /\ s[j] \in S /\ rank[s[i]] = i - 1 /\ rank[s[j]] = j - 1
    BY <1>10
  <2>2. fileSortsBefore(s[i], s[j]) => i < j
    BY <1>1, <1>3, <2>1
  <2>3. i < j => s[i] # s[j] /\ ~fileSortsBefore(s[j], s[i])
    BY <1>1, <1>3, <2>1
  <2> QED
    BY <2>1, <2>2, <2>3, EntriesAreOrdered
<1>15. \A i, j \in 1 .. N : s[i] = s[j] => i = j
  BY <1>10
<1> QED
  BY <1>9, <1>11, <1>13, <1>14, <1>15 DEF s

(* The ids of all entries in their order, and any part of them along it.     *)
EntryOrder == IdsOf(Sorted(ListEntries))

LEMMA EntryOrderIsOrder ==
  /\ Distinct(EntryOrder) /\ Range(EntryOrder) = EntryIds(ListEntries)
  /\ \A e, f \in ListEntries :
       fileSortsBefore(e, f) <=> Position(EntryOrder, e.id) < Position(EntryOrder, f.id)
<1> DEFINE s == Sorted(ListEntries)
           o == EntryOrder
<1>1. /\ s \in Seq(ListEntries) /\ Range(s) = ListEntries
      /\ \A i, j \in DOMAIN s : i < j <=> fileSortsBefore(s[i], s[j])
      /\ \A i, j \in DOMAIN s : s[i] = s[j] => i = j
  BY SortedIsOrdered
<1>2. o = [i \in DOMAIN s |-> s[i].id]
  BY DEF EntryOrder, IdsOf
<1> HIDE DEF s
<1>3. Len(s) \in Nat /\ DOMAIN s = 1 .. Len(s) /\ \A i \in DOMAIN s : s[i] \in ListEntries
  BY <1>1, ListBasics
<1>4. o \in Seq(Range(o)) /\ DOMAIN o = DOMAIN s /\ \A i \in DOMAIN s : o[i] = s[i].id
  BY <1>2, <1>3 DEF Range
<1>5. \A i, j \in DOMAIN o : o[i] = o[j] => i = j
  BY <1>1, <1>3, <1>4, ListingsAssumption
<1>6. Distinct(o)
  BY <1>4, <1>5 DEF Distinct
<1>7. Range(o) = EntryIds(ListEntries)
  BY <1>1, <1>3, <1>4 DEF Range, EntryIds
<1>8. ASSUME NEW e \in ListEntries, NEW f \in ListEntries
      PROVE  fileSortsBefore(e, f) <=> Position(o, e.id) < Position(o, f.id)
  <2>1. PICK i \in DOMAIN s, j \in DOMAIN s : s[i] = e /\ s[j] = f
    BY <1>1 DEF Range
  <2>2. Position(o, e.id) = i /\ Position(o, f.id) = j
    BY <1>4, <1>6, <2>1, PlacesInOrder
  <2> QED
    BY <1>1, <2>1, <2>2
<1> QED
  BY <1>6, <1>7, <1>8

LEMMA SortedIsAlong ==
  ASSUME NEW S \in SUBSET ListEntries
  PROVE  Along(IdsOf(Sorted(S)), EntryOrder) /\ Range(IdsOf(Sorted(S))) = EntryIds(S)
<1> DEFINE s == Sorted(S)
           ids == IdsOf(s)
<1>1. /\ s \in Seq(S) /\ Range(s) = S
      /\ \A i, j \in DOMAIN s : i < j <=> fileSortsBefore(s[i], s[j])
  BY SortedIsOrdered
<1>2. ids = [i \in DOMAIN s |-> s[i].id]
  BY DEF IdsOf
<1> HIDE DEF s, ids
<1>3. Len(s) \in Nat /\ DOMAIN s = 1 .. Len(s) /\ \A i \in DOMAIN s : s[i] \in S
  BY <1>1, ListBasics
<1>4. Range(ids) = EntryIds(S)
  BY <1>1, <1>2, <1>3 DEF Range, EntryIds
<1>5. \A i \in DOMAIN s : s[i].id \in Range(EntryOrder)
  BY <1>3, EntryOrderIsOrder DEF EntryIds
<1>6. ids \in Seq(Range(EntryOrder))
  BY <1>2, <1>3, <1>5
<1>7. \A i, j \in DOMAIN ids : i < j => Position(EntryOrder, ids[i]) < Position(EntryOrder, ids[j])
  BY <1>1, <1>2, <1>3, EntryOrderIsOrder
<1> QED
  BY <1>4, <1>6, <1>7 DEF Along, s, ids

-----------------------------------------------------------------------------
(* The walk: types.                                                          *)

MergeStates(U) ==
  [items : Seq(U), index : Nat, more : BOOLEAN, exhausted : BOOLEAN, after : Seq(U)]
Walks(U) ==
  [at : {"ask", "load", "merge", "done", "failed"}, after : Seq(U), loading : Nat,
   success : BOOLEAN, error : BOOLEAN, found : BOOLEAN, collected : Seq(U), partial : BOOLEAN]

ListTypeOK ==
  /\ listing \in {"files", "batches", "items"}
  /\ listing = "items" => input \in Inputs
  /\ asks \in [limit : Limits, order : {"asc", "desc"}, from : {<<>>} \cup {<<p>> : p \in Listed}]
  /\ there \subseteq ListEntries
  /\ walk \in Walks(Range(InOrder))
  /\ merge \in [Listed -> MergeStates(Range(InOrder))]

(* Every input item has one place, whichever way the list is read.           *)
LEMMA InputOrderIsOrder ==
  ASSUME NEW raw \in Inputs
  PROVE  /\ Distinct(normalizedResponseInputItems(raw))
         /\ Distinct(Reverse(normalizedResponseInputItems(raw)))
         /\ Range(Reverse(normalizedResponseInputItems(raw))) = Range(normalizedResponseInputItems(raw))
<1> DEFINE kept == {i \in DOMAIN raw : raw[i] # NullItem}
           N == Cardinality(kept)
           n == normalizedResponseInputItems(raw)
           r == Reverse(n)
<1>1. N \in Nat
  <2>1. DOMAIN raw = 1 .. Len(raw) /\ Len(raw) \in Nat
    BY ListingsAssumption, LenProperties
  <2>2. IsFiniteSet(DOMAIN raw)
    BY <2>1, FS_Interval
  <2> QED
    BY <2>2, FS_Subset, FS_CardinalityType
<1>2. DOMAIN n = 1 .. N /\ n = [i \in 1 .. N |-> n[i]]
  BY DEF normalizedResponseInputItems
<1> HIDE DEF n, N
<1>3. n \in Seq(Range(n)) /\ Len(n) = N
  <2>1. \A i \in 1 .. N : n[i] \in Range(n)
    BY <1>2 DEF Range
  <2>2. n \in [1 .. N -> Range(n)]
    BY <1>2, <2>1
  <2> QED
    BY <1>1, <2>2
<1>4. \A i, j \in DOMAIN n : n[i] = n[j] => i = j
  BY InputsAssumption DEF n
<1>5. r = [i \in 1 .. N |-> n[(N - i) + 1]]
  BY <1>3 DEF Reverse
<1> HIDE DEF r
<1>6. \A i \in 1 .. N : (N - i) + 1 \in 1 .. N /\ r[i] = n[(N - i) + 1] /\ r[(N - i) + 1] = n[i]
  <2> TAKE i \in 1 .. N
  <2>1. (N - i) + 1 \in 1 .. N /\ (N - ((N - i) + 1)) + 1 = i
    BY <1>1
  <2> QED
    BY <1>5, <2>1
<1>7. Range(r) = Range(n)
  <2>1. DOMAIN r = 1 .. N
    BY <1>5
  <2>2. \A i \in 1 .. N : r[i] \in Range(n)
    BY <1>2, <1>6 DEF Range
  <2>3. \A i \in 1 .. N : n[i] \in Range(r)
    BY <1>6, <2>1 DEF Range
  <2> QED
    BY <1>2, <2>1, <2>2, <2>3 DEF Range
<1>8. r \in Seq(Range(r))
  <2>1. \A i \in 1 .. N : r[i] \in Range(r)
    BY <1>5 DEF Range
  <2>2. r \in [1 .. N -> Range(r)]
    BY <1>5, <2>1
  <2> QED
    BY <1>1, <2>2
<1>9. \A i, j \in DOMAIN r : r[i] = r[j] => i = j
  <2> SUFFICES ASSUME NEW i \in 1 .. N, NEW j \in 1 .. N, r[i] = r[j] PROVE i = j
    BY <1>5
  <2>1. /\ (N - i) + 1 \in 1 .. N /\ (N - j) + 1 \in 1 .. N
        /\ n[(N - i) + 1] = n[(N - j) + 1]
    BY <1>6
  <2>2. (N - i) + 1 = (N - j) + 1
    BY <1>2, <1>4, <2>1
  <2> QED
    BY <1>1, <2>2
<1> QED
  BY <1>3, <1>4, <1>7, <1>8, <1>9 DEF Distinct, n, r

LEMMA ListHasOrder ==
  ASSUME ListTypeOK
  PROVE  /\ Distinct(InOrder)
         /\ listing # "items" => InOrder = EntryOrder
         /\ listing = "items" => Range(InOrder) = Range(normalizedResponseInputItems(input))
<1>1. CASE listing = "items"
  BY <1>1, InputOrderIsOrder DEF ListTypeOK, InOrder
<1>2. CASE listing # "items"
  BY <1>2, EntryOrderIsOrder DEF InOrder, EntryOrder
<1> QED
  BY <1>1, <1>2

LEMMA LimitsArePositive ==
  ASSUME ListTypeOK
  PROVE  Limit \in 1 .. MaxLimit /\ Limit \in Nat \ {0} /\ NormalizeLimit(Limit + 1) = Limit + 1
<1>1. asks.limit \in Nat /\ MaxLimit \in Nat /\ DefaultLimit \in 1 .. MaxLimit
  BY ListingsAssumption DEF ListTypeOK
<1>2. Limit \in 1 .. MaxLimit
  BY <1>1 DEF Limit, ClampLimit
<1> HIDE DEF Limit
<1> QED
  BY <1>1, <1>2 DEF NormalizeLimit

-----------------------------------------------------------------------------
(* The walk: what the client has, and what is still ahead of it.             *)

ClientOK(o, sh, w, la) ==
  /\ Along(sh, o)
  /\ w.at \in {"ask", "load", "merge"} =>
       /\ w.after = IF sh = <<>> THEN <<>> ELSE <<Last(sh)>>
       /\ ~w.partial => \A y \in la : y \in Range(sh) \/ CursorAt(o, w.after) < Position(o, y)
  /\ w.at = "done" /\ ~w.partial => la \subseteq Range(sh)

(* A page that follows the cursor leaves the client with more of the list.   *)
LEMMA DeliveryKeeps ==
  ASSUME NEW o, Distinct(o), walk \in Walks(Range(o)), lasting \subseteq Range(o),
         walk.at \in {"ask", "load", "merge"}, ClientOK(o, shown, walk, lasting),
         NEW page, page.more \in BOOLEAN, Deliver(page),
         page.found => PageInOrder(o, page, walk.after),
         page.found /\ ~walk.partial => PageCovers(o, page, walk.after, lasting)
  PROVE  /\ ClientOK(o, shown', walk', lasting) /\ walk' \in Walks(Range(o))
         /\ walk'.at \in {"ask", "done", "failed"}
         /\ walk'.at = "ask" => walk'.collected = <<>>
<1>1. CASE ~page.found
  <2>1. walk' = [walk EXCEPT !.at = "failed"] /\ shown' = shown
    BY <1>1 DEF Deliver, Fail
  <2>2. walk' \in Walks(Range(o)) /\ walk'.at = "failed"
    BY <2>1 DEF Walks
  <2> QED
    BY <2>1, <2>2 DEF ClientOK
<1>2. CASE page.found
  <2> DEFINE ids == page.ids
             c == CursorAt(o, walk.after)
  <2>1. /\ shown' = shown \o ids
        /\ walk' = [Asking EXCEPT !.at = IF page.more THEN "ask" ELSE "done",
                                  !.after = IF ids = <<>> THEN <<>> ELSE <<Last(ids)>>,
                                  !.partial = walk.partial]
    BY <1>2 DEF Deliver
  <2>2. /\ Along(ids, o) /\ Along(shown, o)
        /\ \A i \in DOMAIN ids : c < Position(o, ids[i])
        /\ page.more => ids # <<>>
    BY <1>2 DEF PageInOrder, ClientOK
  <2>3. walk.after = IF shown = <<>> THEN <<>> ELSE <<Last(shown)>>
    BY DEF ClientOK
  <2> HIDE DEF ids, c
  <2>4. /\ shown \in Seq(Range(o)) /\ Len(shown) \in Nat /\ DOMAIN shown = 1 .. Len(shown)
        /\ \A i \in 1 .. Len(shown) : shown[i] \in Range(o)
        /\ shown # <<>> <=> Len(shown) > 0
    BY <2>2, ListBasics DEF Along
  <2>5. /\ ids \in Seq(Range(o)) /\ Len(ids) \in Nat /\ DOMAIN ids = 1 .. Len(ids)
        /\ \A i \in 1 .. Len(ids) : ids[i] \in Range(o)
        /\ ids # <<>> <=> Len(ids) > 0
    BY <2>2, ListBasics DEF Along
  <2>6. /\ shown' \in Seq(Range(o)) /\ Len(shown') = Len(shown) + Len(ids)
        /\ DOMAIN shown' = 1 .. Len(shown) + Len(ids)
        /\ \A i \in 1 .. Len(shown) : shown'[i] = shown[i]
        /\ \A i \in 1 .. Len(ids) : shown'[Len(shown) + i] = ids[i]
    <3>1. /\ shown' \in Seq(Range(o)) /\ Len(shown') = Len(shown) + Len(ids)
          /\ \A i \in 1 .. Len(shown) + Len(ids) : shown'[i] =
               IF i <= Len(shown) THEN shown[i] ELSE ids[i - Len(shown)]
      BY <2>1, <2>4, <2>5, ConcatProperties
    <3>2. DOMAIN shown' = 1 .. Len(shown) + Len(ids)
      BY <3>1, LenProperties
    <3>3. \A i \in 1 .. Len(shown) : shown'[i] = shown[i]
      BY <2>4, <2>5, <3>1
    <3>4. ASSUME NEW i \in 1 .. Len(ids) PROVE shown'[Len(shown) + i] = ids[i]
      <4>1. Len(shown) + i \in 1 .. Len(shown) + Len(ids) /\ ~(Len(shown) + i <= Len(shown))
            /\ (Len(shown) + i) - Len(shown) = i
        BY <2>4, <2>5
      <4> QED
        BY <3>1, <4>1
    <3> QED
      BY <3>1, <3>2, <3>3, <3>4
  <2>7. \A x \in Range(o) : Position(o, x) \in Nat \ {0}
    BY PlacesInOrder, LenProperties DEF Distinct
  <2>8. /\ c \in Nat /\ \A i \in 1 .. Len(shown) : Position(o, shown[i]) <= c
    <3>1. CASE shown = <<>>
      BY <2>3, <2>4, <3>1 DEF c, CursorAt
    <3>2. CASE shown # <<>>
      <4>1. c = Position(o, Last(shown))
        BY <2>3, <3>2 DEF c, CursorAt
      <4> QED
        BY <2>2, <2>7, <3>2, <4>1, LastIsFarthest
    <3> QED
      BY <3>1, <3>2
  <2>9. Along(shown', o)
    <3> SUFFICES ASSUME NEW i \in 1 .. Len(shown) + Len(ids), NEW j \in 1 .. Len(shown) + Len(ids), i < j
                 PROVE  Position(o, shown'[i]) < Position(o, shown'[j])
      BY <2>6 DEF Along
    <3>1. CASE j <= Len(shown)
      <4>1. i \in 1 .. Len(shown) /\ j \in 1 .. Len(shown)
        BY <2>4, <2>5, <3>1
      <4>2. shown'[i] = shown[i] /\ shown'[j] = shown[j]
        BY <2>6, <4>1
      <4> QED
        BY <2>2, <2>4, <4>1, <4>2 DEF Along
    <3>2. CASE i > Len(shown)
      <4>1. /\ i - Len(shown) \in 1 .. Len(ids) /\ j - Len(shown) \in 1 .. Len(ids)
            /\ i - Len(shown) < j - Len(shown)
            /\ Len(shown) + (i - Len(shown)) = i /\ Len(shown) + (j - Len(shown)) = j
        BY <2>4, <2>5, <3>2
      <4>2. shown'[i] = ids[i - Len(shown)] /\ shown'[j] = ids[j - Len(shown)]
        BY <2>6, <4>1
      <4> QED
        BY <2>2, <2>5, <4>1, <4>2 DEF Along
    <3>3. CASE i <= Len(shown) /\ j > Len(shown)
      <4>1. /\ i \in 1 .. Len(shown) /\ j - Len(shown) \in 1 .. Len(ids)
            /\ Len(shown) + (j - Len(shown)) = j
        BY <2>4, <2>5, <3>3
      <4>2. shown'[i] = shown[i] /\ shown'[j] = ids[j - Len(shown)]
        BY <2>6, <4>1
      <4>3. Position(o, shown[i]) <= c /\ c < Position(o, ids[j - Len(shown)])
        BY <2>2, <2>5, <2>8, <4>1
      <4>4. Position(o, shown[i]) \in Nat /\ Position(o, ids[j - Len(shown)]) \in Nat
        BY <2>4, <2>5, <2>7, <4>1
      <4> QED
        BY <2>8, <4>2, <4>3, <4>4
    <3> QED
      BY <2>4, <2>5, <3>1, <3>2, <3>3
  <2>10. /\ walk'.at = IF page.more THEN "ask" ELSE "done"
         /\ walk'.after = IF ids = <<>> THEN <<>> ELSE <<Last(ids)>>
         /\ walk'.partial = walk.partial /\ walk'.collected = <<>>
    BY <2>1 DEF Asking
  <2>11. walk' \in Walks(Range(o))
    <3>1. IF ids = <<>> THEN TRUE ELSE Last(ids) \in Range(o)
      BY <2>5 DEF Last
    <3>2. walk.partial \in BOOLEAN
      BY DEF Walks
    <3>3. (IF ids = <<>> THEN <<>> ELSE <<Last(ids)>>) \in Seq(Range(o))
      BY <3>1
    <3>4. walk' = [at |-> IF page.more THEN "ask" ELSE "done",
                   after |-> IF ids = <<>> THEN <<>> ELSE <<Last(ids)>>, loading |-> 0,
                   success |-> FALSE, error |-> FALSE, found |-> FALSE, collected |-> <<>>,
                   partial |-> walk.partial]
      BY <2>1 DEF Asking
    <3>5. <<>> \in Seq(Range(o))
      BY EmptySeq
    <3> QED
      BY <3>2, <3>3, <3>4, <3>5 DEF Walks
  <2>12. \A y : y \in Range(shown') <=> y \in Range(shown) \/ y \in Range(ids)
    <3>1. \A y : y \in Range(shown) => y \in Range(shown')
      BY <2>4, <2>6 DEF Range
    <3>2. \A i \in 1 .. Len(ids) : Len(shown) + i \in DOMAIN shown'
      BY <2>4, <2>5, <2>6
    <3>3. \A y : y \in Range(ids) => y \in Range(shown')
      BY <2>5, <2>6, <3>2 DEF Range
    <3>4. ASSUME NEW i \in DOMAIN shown' PROVE shown'[i] \in Range(shown) \/ shown'[i] \in Range(ids)
      <4>1. CASE i <= Len(shown)
        BY <2>4, <2>6, <4>1 DEF Range
      <4>2. CASE ~(i <= Len(shown))
        <5>1. i - Len(shown) \in 1 .. Len(ids) /\ Len(shown) + (i - Len(shown)) = i
          BY <2>4, <2>5, <2>6, <4>2
        <5> QED
          BY <2>5, <2>6, <5>1 DEF Range
      <4> QED
        BY <4>1, <4>2
    <3>5. \A y : y \in Range(shown') => y \in Range(shown) \/ y \in Range(ids)
      BY <3>4 DEF Range
    <3> QED
      BY <3>1, <3>3, <3>5
  <2>13. ~walk.partial => \A y \in lasting :
           \/ y \in Range(shown')
           \/ page.more /\ \A i \in DOMAIN ids : Position(o, ids[i]) < Position(o, y)
    BY <1>2, <2>12 DEF PageCovers, ClientOK, c, ids
  <2>14. page.more => walk'.after = IF shown' = <<>> THEN <<>> ELSE <<Last(shown')>>
    <3> SUFFICES ASSUME page.more PROVE shown' # <<>> /\ Last(shown') = Last(ids) /\ ids # <<>>
      BY <2>10
    <3>1. Len(ids) \in 1 .. Len(ids) /\ ids # <<>>
      BY <2>2, <2>5
    <3>2. shown'[Len(shown) + Len(ids)] = ids[Len(ids)]
      BY <2>6, <3>1
    <3>3. shown' # <<>>
      <4>1. Len(shown') > 0
        BY <2>4, <2>5, <2>6, <3>1
      <4> QED
        BY <4>1, <2>6, ListBasics
    <3> QED
      BY <2>6, <3>1, <3>2, <3>3 DEF Last
  <2>15. page.more /\ ~walk.partial => \A y \in lasting :
           y \in Range(shown') \/ CursorAt(o, walk'.after) < Position(o, y)
    <3> SUFFICES ASSUME page.more, ~walk.partial, NEW y \in lasting, y \notin Range(shown')
                 PROVE  CursorAt(o, walk'.after) < Position(o, y)
      OBVIOUS
    <3>1. ids # <<>> /\ Len(ids) \in DOMAIN ids
      BY <2>2, <2>5
    <3>2. Position(o, ids[Len(ids)]) < Position(o, y)
      BY <2>13, <3>1
    <3> QED
      BY <2>10, <3>1, <3>2 DEF CursorAt, Last
  <2> QED
    BY <2>9, <2>10, <2>11, <2>13, <2>14, <2>15 DEF ClientOK
<1> QED
  BY <1>1, <1>2 DEF Walks

-----------------------------------------------------------------------------
(* The merge: what is in front of a provider's page, and what is left of it. *)

(* The page of a provider begins behind the place t of the last file taken.  *)
Ahead(o, m, t) ==
  ~m.exhausted =>
    /\ m.items # <<>> /\ m.index \in 1 .. Len(m.items) + 1
    /\ Along(m.items, o)
    /\ m.after = <<Last(m.items)>>
    /\ \A i \in m.index .. Len(m.items) : t < Position(o, m.items[i])
    /\ t <= Position(o, Last(m.items))

(* A file that its provider's page still has to come to, or a later page.    *)
Left(o, m, y) ==
  /\ ~m.exhausted
  /\ \/ \E i \in m.index .. Len(m.items) : m.items[i] = y
     \/ m.more /\ Position(o, Last(m.items)) < Position(o, y)

(* The state that loadProviderFilePage leaves.                               *)
Loaded(m, page) ==
  IF page.ids = <<>> THEN [Unread EXCEPT !.after = m.after]
  ELSE [items |-> page.ids, index |-> 1, more |-> page.more, exhausted |-> FALSE,
        after |-> <<Last(page.ids)>>]

LEMMA PageIsLoaded ==
  ASSUME NEW o, Distinct(o), NEW m \in MergeStates(Range(o)), NEW page, page.more \in BOOLEAN,
         NEW after, PageInOrder(o, page, after), NEW S, PageCovers(o, page, after, S),
         NEW t \in Nat, t <= CursorAt(o, after), CursorAt(o, after) \in Nat
  PROVE  /\ Loaded(m, page) \in MergeStates(Range(o))
         /\ Ahead(o, Loaded(m, page), t)
         /\ \A y \in S : CursorAt(o, after) < Position(o, y) => Left(o, Loaded(m, page), y)
<1> DEFINE ids == page.ids
           c == CursorAt(o, after)
           l == Loaded(m, page)
<1>1. /\ Along(ids, o) /\ ids \in Seq(Range(o)) /\ Len(ids) \in Nat /\ DOMAIN ids = 1 .. Len(ids)
      /\ \A i \in 1 .. Len(ids) : ids[i] \in Range(o)
      /\ \A i \in 1 .. Len(ids) : c < Position(o, ids[i])
      /\ ids # <<>> <=> Len(ids) > 0
      /\ \A x : x \in Range(ids) <=> \E i \in 1 .. Len(ids) : ids[i] = x
  BY ListBasics DEF PageInOrder, Along
<1>2. \A x \in Range(o) : Position(o, x) \in Nat
  BY PlacesInOrder, LenProperties DEF Distinct
<1>3. page.more => ids # <<>>
  BY DEF PageInOrder
<1>4. \A y \in S : c < Position(o, y) =>
        \/ y \in Range(ids)
        \/ page.more /\ \A i \in 1 .. Len(ids) : Position(o, ids[i]) < Position(o, y)
  BY <1>1 DEF PageCovers
<1>5. CASE ids = <<>>
  <2>1. l = [Unread EXCEPT !.after = m.after]
    BY <1>5 DEF Loaded
  <2>2. l = [items |-> <<>>, index |-> 0, more |-> FALSE, exhausted |-> TRUE, after |-> m.after]
    BY <2>1 DEF Unread
  <2>3. m.after \in Seq(Range(o)) /\ <<>> \in Seq(Range(o))
    BY EmptySeq DEF MergeStates
  <2>4. l \in MergeStates(Range(o)) /\ l.exhausted
    BY <2>2, <2>3 DEF MergeStates
  <2>5. \A y \in S : ~(c < Position(o, y))
    BY <1>1, <1>3, <1>4, <1>5
  <2> QED
    BY <2>4, <2>5 DEF Ahead
<1>6. CASE ids # <<>>
  <2>1. l = [items |-> ids, index |-> 1, more |-> page.more, exhausted |-> FALSE, after |-> <<Last(ids)>>]
    BY <1>6 DEF Loaded
  <2>2. /\ Len(ids) \in 1 .. Len(ids) /\ Last(ids) \in Range(o) /\ Last(ids) = ids[Len(ids)]
    BY <1>1, <1>6, LastIsFarthest
  <2>3. /\ l.items = ids /\ l.index = 1 /\ l.more = page.more /\ ~l.exhausted
        /\ l.after = <<Last(ids)>>
    BY <2>1
  <2>4. l \in MergeStates(Range(o))
    BY <1>1, <2>1, <2>2 DEF MergeStates
  <2> HIDE DEF l, ids, c
  <2>5. \A i \in 1 .. Len(ids) : t < Position(o, ids[i])
    <3> TAKE i \in 1 .. Len(ids)
    <3>1. c < Position(o, ids[i]) /\ Position(o, ids[i]) \in Nat /\ c \in Nat /\ t <= c
      BY <1>1, <1>2 DEF c
    <3> QED
      BY <3>1
  <2>6. Ahead(o, l, t)
    <3>1. t <= Position(o, Last(ids))
      <4>1. t < Position(o, Last(ids)) /\ Position(o, Last(ids)) \in Nat
        BY <1>2, <2>2, <2>5
      <4> QED
        BY <4>1
    <3>2. 1 \in 1 .. Len(ids) + 1
      BY <1>1
    <3> QED
      BY <1>1, <1>6, <2>3, <2>5, <3>1, <3>2 DEF Ahead
  <2>7. ASSUME NEW y \in S, c < Position(o, y) PROVE Left(o, l, y)
    <3>1. CASE y \in Range(ids)
      BY <1>1, <2>3, <3>1 DEF Left
    <3>2. CASE page.more /\ \A i \in 1 .. Len(ids) : Position(o, ids[i]) < Position(o, y)
      BY <2>2, <2>3, <3>2 DEF Left
    <3> QED
      BY <1>4, <2>7, <3>1, <3>2
  <2> QED
    BY <2>4, <2>6, <2>7 DEF l, c
<1> QED
  BY <1>5, <1>6

(* The provider of an id.                                                    *)
Owner(y) == EntryOf(y).from

LEMMA EntriesAreNamed ==
  /\ \A e \in ListEntries : EntryOf(e.id) = e
  /\ \A y \in EntryIds(ListEntries) : EntryOf(y) \in ListEntries /\ EntryOf(y).id = y /\ Owner(y) \in Listed
<1>1. \A e \in ListEntries : EntryOf(e.id) = e
  <2> TAKE e \in ListEntries
  <2>1. \E f \in ListEntries : f.id = e.id
    OBVIOUS
  <2>2. EntryOf(e.id) \in ListEntries /\ EntryOf(e.id).id = e.id
    BY <2>1 DEF EntryOf
  <2> QED
    BY <2>2, ListingsAssumption
<1>2. ASSUME NEW y \in EntryIds(ListEntries)
      PROVE  EntryOf(y) \in ListEntries /\ EntryOf(y).id = y /\ Owner(y) \in Listed
  <2>1. PICK e \in ListEntries : y = e.id
    BY DEF EntryIds
  <2> QED
    BY <1>1, <2>1, ListingsAssumption DEF Owner, Listed
<1> QED
  BY <1>1, <1>2

(* What a provider answers follows the order of all entries.                 *)
LEMMA ProviderPageIsNext ==
  ASSUME there \subseteq ListEntries, NEW p, NEW n \in Nat \ {0}, NEW after
  PROVE  LET page == ProviderPage(p, n, after)
         IN  /\ page.more \in BOOLEAN /\ page.found \in BOOLEAN
             /\ after = <<>> => page.found
             /\ page.found => /\ PageInOrder(EntryOrder, page, after)
                              /\ PageCovers(EntryOrder, page, after, EntryIds({f \in there : f.from = p}))
<1> DEFINE S == {f \in there : f.from = p}
           ids == IdsOf(Sorted(S))
           page == ProviderPage(p, n, after)
<1>1. Along(ids, EntryOrder) /\ Range(ids) = EntryIds(S)
  BY SortedIsAlong
<1>2. Distinct(EntryOrder)
  BY EntryOrderIsOrder
<1>3. page = IF ~KnownCursor(ids, after) THEN NoPage
             ELSE [found |-> TRUE, ids |-> Upto(After(ids, after), n), more |-> Len(After(ids, after)) > n]
  BY DEF ProviderPage
<1> HIDE DEF ids, page, S
<1>4. CASE ~KnownCursor(ids, after)
  BY <1>3, <1>4 DEF NoPage, KnownCursor, page
<1>5. CASE KnownCursor(ids, after)
  <2>1. /\ page.found = TRUE /\ page.ids = Upto(After(ids, after), n)
        /\ page.more = (Len(After(ids, after)) > n)
    BY <1>3, <1>5
  <2>2. page.more \in BOOLEAN
    BY <2>1
  <2>3. PageInOrder(EntryOrder, page, after) /\ PageCovers(EntryOrder, page, after, Range(ids))
    BY <1>1, <1>2, <1>5, <2>1, PageIsNext
  <2> QED
    BY <1>1, <2>1, <2>2, <2>3 DEF page, S
<1> QED
  BY <1>4, <1>5

-----------------------------------------------------------------------------
(* The walk: its invariant.                                                  *)

(* The entries that the listing is about.                                    *)
LastingIsThere ==
  lasting \subseteq IF listing = "items" THEN Range(InOrder)
                    ELSE EntryIds({f \in there : asks.from # <<>> => f.from = asks.from[1]})

(* First pages are loaded one provider after the other.                      *)
LoadingOK(o, w, mg, la) ==
  /\ w.loading \in Nat \ {0} /\ w.collected = <<>> /\ (w.found <=> w.after = <<>>)
  /\ \A p \in Listed : Ahead(o, mg[p], 0)
  /\ ~w.partial => \A y \in la :
       (\E n \in 1 .. w.loading - 1 : n \in DOMAIN Sources /\ Sources[n] = Owner(y))
         => Left(o, mg[Owner(y)], y)

(* Up to the place t everything has been taken, and is collected if it lies  *)
(* behind the cursor; the rest is left.                                      *)
MergingOK(o, w, mg, la, t) ==
  /\ \A p \in Listed : Ahead(o, mg[p], t)
  /\ ~w.partial => \A y \in la : Position(o, y) <= t \/ Left(o, mg[Owner(y)], y)
  /\ Along(w.collected, o)
  /\ w.found =>
       /\ CursorAt(o, w.after) <= t
       /\ \A i \in DOMAIN w.collected :
            CursorAt(o, w.after) < Position(o, w.collected[i]) /\ Position(o, w.collected[i]) <= t
       /\ ~w.partial => \A y \in la :
            CursorAt(o, w.after) < Position(o, y) /\ Position(o, y) <= t => y \in Range(w.collected)
  /\ ~w.found => w.collected = <<>>

MergedUpTo(o, w, mg, la) == \E t \in Nat : MergingOK(o, w, mg, la, t)

ListIInv ==
  /\ ListTypeOK
  /\ LastingIsThere
  /\ ClientOK(InOrder, shown, walk, lasting)
  /\ walk.at \in {"load", "merge"} => listing = "files" /\ asks.from = <<>>
  /\ walk.at = "ask" => walk.collected = <<>>
  /\ walk.at = "load" => LoadingOK(InOrder, walk, merge, lasting)
  /\ walk.at = "merge" => MergedUpTo(InOrder, walk, merge, lasting)

(* The facts of a state that every step uses.                                *)
LEMMA WalkFacts ==
  ASSUME ListIInv
  PROVE  /\ Distinct(InOrder) /\ lasting \subseteq Range(InOrder)
         /\ \A x \in Range(InOrder) : Position(InOrder, x) \in Nat \ {0}
         /\ walk.at \in {"ask", "load", "merge"} => CursorAt(InOrder, walk.after) \in Nat
         /\ walk \in Walks(Range(InOrder)) /\ walk.at \in {"ask", "load", "merge", "done", "failed"}
         /\ walk.loading \in Nat /\ walk.found \in BOOLEAN /\ walk.partial \in BOOLEAN
         /\ walk.collected \in Seq(Range(InOrder))
<1>1. Distinct(InOrder) /\ (listing # "items" => InOrder = EntryOrder)
  BY ListHasOrder DEF ListIInv
<1>2. lasting \subseteq Range(InOrder)
  <2>1. CASE listing = "items"
    BY <2>1 DEF ListIInv, LastingIsThere
  <2>2. CASE listing # "items"
    <3>1. lasting \subseteq EntryIds(ListEntries)
      BY <2>2 DEF ListIInv, LastingIsThere, ListTypeOK, EntryIds
    <3> QED
      BY <1>1, <2>2, <3>1, EntryOrderIsOrder
  <2> QED
    BY <2>1, <2>2
<1>3. \A x \in Range(InOrder) : Position(InOrder, x) \in Nat \ {0}
  BY <1>1, PlacesInOrder, LenProperties DEF Distinct
<1>4. walk \in Walks(Range(InOrder))
  BY DEF ListIInv, ListTypeOK
<1>5. /\ walk.at \in {"ask", "load", "merge", "done", "failed"}
      /\ walk.loading \in Nat /\ walk.found \in BOOLEAN /\ walk.partial \in BOOLEAN
      /\ walk.collected \in Seq(Range(InOrder))
  BY <1>4 DEF Walks
<1>6. walk.at \in {"ask", "load", "merge"} => CursorAt(InOrder, walk.after) \in Nat
  <2> SUFFICES ASSUME walk.at \in {"ask", "load", "merge"} PROVE CursorAt(InOrder, walk.after) \in Nat
    OBVIOUS
  <2>1. walk.after = (IF shown = <<>> THEN <<>> ELSE <<Last(shown)>>) /\ Along(shown, InOrder)
    BY DEF ListIInv, ClientOK
  <2>2. shown # <<>> => Last(shown) \in Range(InOrder)
    BY <1>1, <2>1, LastIsFarthest
  <2> QED
    BY <1>3, <2>1, <2>2 DEF CursorAt
<1> QED
  BY <1>1, <1>2, <1>3, <1>4, <1>5, <1>6

(* The walk goes on in the same list.                                        *)
LEMMA SameOrder ==
  ASSUME UNCHANGED <<listing, asks, input>>
  PROVE  InOrder' = InOrder /\ Limit' = Limit
BY DEF InOrder, Limit

(* A page that is handed on keeps the invariant.                             *)
LEMMA PageKeeps ==
  ASSUME ListIInv, walk.at \in {"ask", "merge"}, NEW page, page.more \in BOOLEAN,
         Deliver(page) \/ Fail,
         page.found => PageInOrder(InOrder, page, walk.after),
         page.found /\ ~walk.partial => PageCovers(InOrder, page, walk.after, lasting),
         UNCHANGED <<listing, asks, input, there, lasting>>,
         merge' \in [Listed -> MergeStates(Range(InOrder))]
  PROVE  ListIInv'
<1> DEFINE o == InOrder
<1>1. /\ Distinct(o) /\ lasting \subseteq Range(o) /\ walk \in Walks(Range(o))
  BY WalkFacts
<1>2. ClientOK(o, shown, walk, lasting)
  BY DEF ListIInv
<1>3. InOrder' = o
  BY SameOrder
<1> HIDE DEF o
<1>4. /\ ClientOK(o, shown', walk', lasting) /\ walk' \in Walks(Range(o))
      /\ walk'.at \in {"ask", "done", "failed"}
      /\ walk'.at = "ask" => walk'.collected = <<>>
  <2>1. CASE Deliver(page)
    BY <1>1, <1>2, <2>1, DeliveryKeeps DEF o
  <2>2. CASE Fail
    <3>1. walk' = [walk EXCEPT !.at = "failed"] /\ shown' = shown
      BY <2>2 DEF Fail
    <3>2. walk' \in Walks(Range(o)) /\ walk'.at = "failed"
      BY <1>1, <3>1 DEF Walks
    <3> QED
      BY <1>2, <3>1, <3>2 DEF ClientOK
  <2> QED
    BY <2>1, <2>2
<1>5. ListTypeOK'
  BY <1>3, <1>4 DEF ListIInv, ListTypeOK, o
<1>6. LastingIsThere'
  BY <1>3 DEF ListIInv, LastingIsThere, o
<1> QED
  BY <1>3, <1>4, <1>5, <1>6 DEF ListIInv, o

LEMMA OwnersOfLasting ==
  ASSUME ListIInv, listing = "files", NEW p,
         asks.from = <<p>> \/ asks.from = <<>>, NEW y \in lasting, asks.from = <<>> => Owner(y) = p
  PROVE  y \in EntryIds({f \in there : f.from = p})
<1>1. PICK f \in there : f.id = y /\ (asks.from # <<>> => f.from = asks.from[1])
  BY DEF ListIInv, LastingIsThere, EntryIds
<1>2. there \subseteq ListEntries
  BY DEF ListIInv, ListTypeOK
<1>3. EntryOf(y) = f
  BY <1>1, <1>2, EntriesAreNamed
<1>4. f.from = p
  BY <1>1, <1>3 DEF Owner
<1> QED
  BY <1>1, <1>4 DEF EntryIds

LEMMA AskBatchesKeeps == ASSUME ListIInv, AskBatches PROVE ListIInv'
<1> DEFINE ids == IdsOf(Sorted(there))
           after == walk.after
           rest == After(ids, after)
           page == ListBatches(Limit, after)
<1>1. /\ walk.at = "ask" /\ listing = "batches" /\ (Deliver(page) \/ Fail)
      /\ UNCHANGED <<listing, asks, input, there, lasting, merge>>
  BY DEF AskBatches
<1>2. /\ Distinct(EntryOrder) /\ InOrder = EntryOrder
      /\ Limit \in Nat \ {0} /\ NormalizeLimit(Limit + 1) = Limit + 1
  BY <1>1, ListHasOrder, LimitsArePositive DEF ListIInv
<1>3. /\ Along(ids, EntryOrder) /\ Range(ids) = EntryIds(there)
  BY SortedIsAlong DEF ListIInv, ListTypeOK
<1>4. lasting \subseteq Range(ids)
  BY <1>1, <1>3 DEF ListIInv, LastingIsThere, EntryIds
<1>5. page = IF ~KnownCursor(ids, after) THEN NoPage
             ELSE [found |-> TRUE, ids |-> Upto(Upto(rest, Limit + 1), Limit),
                   more |-> Len(Upto(rest, Limit + 1)) > Limit]
  BY <1>2 DEF ListBatches, StoreList
<1> HIDE DEF ids, rest, page, Limit
<1>6. CASE ~KnownCursor(ids, after)
  <2>1. page.found = FALSE /\ page.more = FALSE
    BY <1>5, <1>6 DEF NoPage
  <2>2. /\ page.more \in BOOLEAN
        /\ page.found => PageInOrder(InOrder, page, walk.after)
        /\ page.found /\ ~walk.partial => PageCovers(InOrder, page, walk.after, lasting)
    BY <2>1
  <2>3. merge' \in [Listed -> MergeStates(Range(InOrder))]
    BY <1>1 DEF ListIInv, ListTypeOK
  <2> QED
    BY <1>1, <2>2, <2>3, PageKeeps
<1>7. CASE KnownCursor(ids, after)
  <2>1. rest \in Seq(Range(EntryOrder)) /\ Len(rest) \in Nat
    <3>1. ids \in Seq(Range(EntryOrder))
      BY <1>3 DEF Along
    <3>2. rest \in Seq(Range(EntryOrder))
      BY <1>7, <3>1, AfterIsRest DEF rest
    <3> QED
      BY <3>2, LenProperties
  <2> DEFINE u == Upto(rest, Limit + 1)
             m == IF Limit + 1 < Len(rest) THEN Limit + 1 ELSE Len(rest)
  <2>2. u \in Seq(Range(EntryOrder)) /\ Len(u) = m /\ \A i \in 1 .. m : u[i] = rest[i]
    <3>1. Limit + 1 \in Nat
      BY <1>2
    <3> HIDE DEF u
    <3> QED
      BY <2>1, <3>1, UptoIsPrefix DEF u
  <2> HIDE DEF u, m
  <2>3. m \in Nat /\ m <= Len(rest) /\ (m > Limit <=> Len(rest) > Limit) /\ (m <= Limit => m = Len(rest))
    BY <1>2, <2>1 DEF m
  <2>4. Upto(u, Limit) = Upto(rest, Limit)
    <3> DEFINE k == IF Limit < Len(rest) THEN Limit ELSE Len(rest)
    <3>1. k \in Nat /\ k <= m /\ k = (IF Limit < Len(u) THEN Limit ELSE Len(u))
      BY <1>2, <2>1, <2>2, <2>3
    <3>2. /\ Upto(rest, Limit) \in Seq(Range(EntryOrder)) /\ Len(Upto(rest, Limit)) = k
          /\ \A i \in 1 .. k : Upto(rest, Limit)[i] = rest[i]
      BY <1>2, <2>1, UptoIsPrefix
    <3> HIDE DEF k
    <3>3. /\ Upto(u, Limit) \in Seq(Range(EntryOrder)) /\ Len(Upto(u, Limit)) = k
          /\ \A i \in 1 .. k : Upto(u, Limit)[i] = u[i]
      BY <1>2, <2>2, <3>1, UptoIsPrefix
    <3>4. \A i \in 1 .. k : u[i] = rest[i]
      BY <2>2, <2>3, <3>1
    <3> QED
      BY <3>2, <3>3, <3>4, SeqEqual
  <2>5. /\ page.found = TRUE /\ page.ids = Upto(rest, Limit) /\ page.more = (Len(u) > Limit)
    BY <1>5, <1>7, <2>4 DEF u
  <2>6. page.more = (Len(rest) > Limit)
    BY <2>2, <2>3, <2>5
  <2>7. PageInOrder(EntryOrder, page, after) /\ PageCovers(EntryOrder, page, after, Range(ids))
    BY <1>2, <1>3, <1>7, <2>5, <2>6, PageIsNext DEF rest
  <2>8. PageCovers(InOrder, page, after, lasting)
    BY <1>2, <1>4, <2>7 DEF PageCovers
  <2>9. page.more \in BOOLEAN
    BY <2>6
  <2> QED
    BY <1>1, <1>2, <2>7, <2>8, <2>9, PageKeeps DEF ListIInv, ListTypeOK
<1> QED
  BY <1>6, <1>7

LEMMA AskItemsKeeps == ASSUME ListIInv, AskItems PROVE ListIInv'
<1> DEFINE o == InOrder
           after == walk.after
           page == paginateStoredResponseInputItems(normalizedResponseInputItems(input), Limit, asks.order, after)
<1>1. /\ walk.at = "ask" /\ listing = "items" /\ Deliver(page)
      /\ UNCHANGED <<listing, asks, input, there, lasting, merge>>
  BY DEF AskItems
<1>2. Distinct(o) /\ Limit \in Nat \ {0} /\ lasting \subseteq Range(o)
  BY WalkFacts, LimitsArePositive DEF ListIInv
<1>3. after = (IF shown = <<>> THEN <<>> ELSE <<Last(shown)>>) /\ Along(shown, o)
  BY <1>1 DEF ListIInv, ClientOK
<1>4. KnownCursor(o, after)
  BY <1>2, <1>3, LastIsFarthest DEF KnownCursor
<1>5. o = IF asks.order = "asc" THEN normalizedResponseInputItems(input)
          ELSE Reverse(normalizedResponseInputItems(input))
  BY <1>1 DEF InOrder
<1>6. page = [found |-> TRUE, ids |-> Upto(After(o, after), Limit), more |-> Len(After(o, after)) > Limit]
  BY <1>4, <1>5 DEF paginateStoredResponseInputItems
<1> HIDE DEF o, page, Limit
<1>7. /\ page.ids = Upto(After(o, after), Limit) /\ page.more = (Len(After(o, after)) > Limit)
  BY <1>6
<1>8. page.more \in BOOLEAN
  BY <1>7
<1>9. PageInOrder(o, page, after) /\ PageCovers(o, page, after, Range(o))
  BY <1>2, <1>4, <1>7, PlacesInOrder, PageIsNext
<1>10. PageCovers(o, page, after, lasting)
  BY <1>2, <1>9 DEF PageCovers
<1> QED
  BY <1>1, <1>8, <1>9, <1>10, PageKeeps DEF ListIInv, ListTypeOK, o

LEMMA AskOneProviderKeeps == ASSUME ListIInv, AskOneProvider PROVE ListIInv'
<1> DEFINE p == asks.from[1]
           after == walk.after
           page == ProviderPage(p, Limit, after)
<1>1. /\ walk.at = "ask" /\ listing = "files" /\ asks.from # <<>> /\ (Deliver(page) \/ Fail)
      /\ UNCHANGED <<listing, asks, input, there, lasting, merge>>
  BY DEF AskOneProvider
<1>2. InOrder = EntryOrder /\ Limit \in Nat \ {0} /\ there \subseteq ListEntries
  BY <1>1, ListHasOrder, LimitsArePositive DEF ListIInv, ListTypeOK
<1>3. /\ page.more \in BOOLEAN
      /\ page.found => /\ PageInOrder(EntryOrder, page, after)
                       /\ PageCovers(EntryOrder, page, after, EntryIds({f \in there : f.from = p}))
  BY <1>2, ProviderPageIsNext
<1>4. lasting \subseteq EntryIds({f \in there : f.from = p})
  BY <1>1 DEF ListIInv, LastingIsThere, EntryIds
<1> HIDE DEF page, p
<1>5. page.found => PageCovers(EntryOrder, page, after, lasting)
  BY <1>3, <1>4 DEF PageCovers
<1> QED
  BY <1>1, <1>2, <1>3, <1>5, PageKeeps DEF ListIInv, ListTypeOK

(* Every provider without a page is where a merge can begin.                 *)
LEMMA UnreadIsTyped ==
  ASSUME NEW U
  PROVE  [p \in Listed |-> Unread] \in [Listed -> MergeStates(U)]
<1>1. <<>> \in Seq(U)
  BY EmptySeq
<1>2. Unread \in MergeStates(U)
  BY <1>1 DEF Unread, MergeStates
<1> QED
  BY <1>2

LEMMA AskFilesKeeps == ASSUME ListIInv, AskFiles PROVE ListIInv'
<1> DEFINE o == InOrder
<1>1. /\ walk.at = "ask" /\ listing = "files" /\ asks.from = <<>>
      /\ walk' = [walk EXCEPT !.at = "load", !.loading = 1, !.found = (walk.after = <<>>)]
      /\ merge' = [p \in Listed |-> Unread]
      /\ UNCHANGED <<listing, asks, input, there, lasting, shown>>
  BY DEF AskFiles
<1>2. InOrder' = o
  BY <1>1, SameOrder
<1>3. walk \in Walks(Range(o)) /\ walk.collected = <<>> /\ ClientOK(o, shown, walk, lasting)
  BY <1>1, WalkFacts DEF ListIInv
<1> HIDE DEF o
<1>4. /\ walk' \in Walks(Range(o)) /\ walk'.at = "load" /\ walk'.loading = 1
      /\ walk'.after = walk.after /\ walk'.partial = walk.partial /\ walk'.collected = <<>>
      /\ walk'.found = (walk.after = <<>>)
  BY <1>1, <1>3 DEF Walks
<1>5. merge' \in [Listed -> MergeStates(Range(o))] /\ \A p \in Listed : merge'[p].exhausted
  <2>1. \A p \in Listed : merge'[p].exhausted
    BY <1>1 DEF Unread
  <2> QED
    BY <1>1, <2>1, UnreadIsTyped
<1>6. ClientOK(o, shown, walk', lasting)
  BY <1>1, <1>3, <1>4 DEF ClientOK
<1>7. LoadingOK(o, walk', merge', lasting)
  <2>1. walk'.loading \in Nat \ {0} /\ \A n \in 1 .. walk'.loading - 1 : FALSE
    BY <1>4
  <2>2. \A p \in Listed : Ahead(o, merge'[p], 0)
    BY <1>5 DEF Ahead
  <2>3. walk'.found <=> walk'.after = <<>>
    BY <1>4
  <2>4. \A y \in lasting : ~(\E n \in 1 .. walk'.loading - 1 : n \in DOMAIN Sources /\ Sources[n] = Owner(y))
    BY <2>1
  <2> QED
    BY <1>4, <2>1, <2>2, <2>3, <2>4 DEF LoadingOK
<1>8. ListTypeOK'
  BY <1>1, <1>2, <1>4, <1>5 DEF ListIInv, ListTypeOK, o
<1>9. LastingIsThere'
  BY <1>1, <1>2 DEF ListIInv, LastingIsThere, o
<1> QED
  BY <1>1, <1>2, <1>4, <1>6, <1>7, <1>8, <1>9 DEF ListIInv, o

(* Loading keeps what the client has: the walk only counts.                  *)
LEMMA LoadFirstPageKeeps == ASSUME ListIInv, LoadFirstPage PROVE ListIInv'
<1> DEFINE o == InOrder
           k == walk.loading
           p == Sources[k]
           page == ProviderPage(p, Limit + 1, <<>>)
<1>1. /\ walk.at = "load" /\ k \in DOMAIN Sources
      /\ UNCHANGED <<listing, asks, input, there, lasting, shown>>
      /\ \/ /\ merge' = [merge EXCEPT ![p] = Loaded(merge[p], page)]
            /\ walk' = [walk EXCEPT !.loading = @ + 1, !.success = TRUE]
         \/ \E error \in BOOLEAN :
              /\ walk' = [walk EXCEPT !.loading = @ + 1, !.error = @ \/ error, !.partial = TRUE]
              /\ merge' = merge
  BY DEF LoadFirstPage, loadProviderFilePage, Loaded
<1>2. /\ listing = "files" /\ asks.from = <<>> /\ InOrder' = o /\ o = EntryOrder
      /\ Limit \in Nat \ {0} /\ there \subseteq ListEntries
      /\ merge \in [Listed -> MergeStates(Range(o))]
  BY <1>1, SameOrder, ListHasOrder, LimitsArePositive DEF ListIInv, ListTypeOK
<1>3. /\ Distinct(o) /\ lasting \subseteq Range(o)
      /\ \A x \in Range(o) : Position(o, x) \in Nat \ {0}
      /\ walk \in Walks(Range(o)) /\ k \in Nat
  BY WalkFacts
<1>4. LoadingOK(o, walk, merge, lasting) /\ ClientOK(o, shown, walk, lasting)
  BY <1>1 DEF ListIInv
<1>5. p \in Listed
  BY <1>1 DEF Listed, Range
<1> HIDE DEF o, page
<1>6. /\ walk' \in Walks(Range(o)) /\ walk'.at = "load" /\ walk'.loading = k + 1
      /\ walk'.after = walk.after /\ walk'.collected = walk.collected /\ walk'.found = walk.found
      /\ walk'.partial = walk.partial \/ walk'.partial = TRUE
  <2>1. k + 1 \in Nat
    BY <1>3
  <2>2. CASE walk' = [walk EXCEPT !.loading = @ + 1, !.success = TRUE]
    BY <1>1, <1>3, <2>1, <2>2 DEF Walks
  <2>3. CASE \E error \in BOOLEAN :
               walk' = [walk EXCEPT !.loading = @ + 1, !.error = @ \/ error, !.partial = TRUE]
    <3>1. PICK error \in BOOLEAN :
            walk' = [walk EXCEPT !.loading = @ + 1, !.error = @ \/ error, !.partial = TRUE]
      BY <2>3
    <3>2. walk.error \in BOOLEAN /\ (walk.error \/ error) \in BOOLEAN
      BY <1>3 DEF Walks
    <3> QED
      BY <1>1, <1>3, <2>1, <3>1, <3>2 DEF Walks
  <2> QED
    BY <1>1, <2>2, <2>3
<1>7. ASSUME merge' = [merge EXCEPT ![p] = Loaded(merge[p], page)],
             walk' = [walk EXCEPT !.loading = @ + 1, !.success = TRUE]
      PROVE  merge' \in [Listed -> MergeStates(Range(o))] /\ LoadingOK(o, walk', merge', lasting)
  <2> DEFINE S == EntryIds({f \in there : f.from = p})
  <2>1. page.more \in BOOLEAN /\ PageInOrder(o, page, <<>>) /\ PageCovers(o, page, <<>>, S)
    <3>1. Limit + 1 \in Nat \ {0}
      BY <1>2
    <3> QED
      BY <1>2, <3>1, ProviderPageIsNext DEF page
  <2> HIDE DEF S
  <2>2. CursorAt(o, <<>>) = 0
    BY DEF CursorAt
  <2>3. merge[p] \in MergeStates(Range(o))
    BY <1>2, <1>5
  <2>4. /\ Loaded(merge[p], page) \in MergeStates(Range(o))
        /\ Ahead(o, Loaded(merge[p], page), 0)
        /\ \A y \in S : 0 < Position(o, y) => Left(o, Loaded(merge[p], page), y)
    BY <1>3, <2>1, <2>2, <2>3, PageIsLoaded
  <2>5. merge'[p] = Loaded(merge[p], page) /\ \A q \in Listed : q # p => merge'[q] = merge[q]
    BY <1>2, <1>5, <1>7
  <2>6. merge' \in [Listed -> MergeStates(Range(o))]
    BY <1>2, <1>5, <1>7, <2>4
  <2>7. \A q \in Listed : Ahead(o, merge'[q], 0)
    BY <1>4, <2>4, <2>5 DEF LoadingOK
  <2>8. walk'.partial = walk.partial
    BY <1>3, <1>7 DEF Walks
  <2>9. ASSUME ~walk.partial, NEW y \in lasting,
               NEW n \in 1 .. k, n \in DOMAIN Sources, Sources[n] = Owner(y)
        PROVE  Left(o, merge'[Owner(y)], y)
    <3>1. CASE Owner(y) = p
      <4>1. y \in S
        BY <1>2, <3>1, OwnersOfLasting DEF S
      <4>2. 0 < Position(o, y)
        BY <1>3
      <4> QED
        BY <2>4, <2>5, <3>1, <4>1, <4>2
    <3>2. CASE Owner(y) # p
      <4>1. n \in 1 .. k - 1
        BY <1>3, <2>9, <3>2
      <4>2. Left(o, merge[Owner(y)], y)
        BY <1>4, <2>9, <4>1 DEF LoadingOK
      <4>3. Owner(y) \in Listed
        BY <2>9 DEF Listed, Range
      <4> QED
        BY <2>5, <3>2, <4>2, <4>3
    <3> QED
      BY <3>1, <3>2
  <2>10. LoadingOK(o, walk', merge', lasting)
    <3>1. (k + 1) - 1 = k /\ k + 1 \in Nat \ {0}
      BY <1>3
    <3> QED
      BY <1>4, <1>6, <2>7, <2>8, <2>9, <3>1 DEF LoadingOK
  <2> QED
    BY <2>6, <2>10
<1>8. ASSUME NEW error \in BOOLEAN, merge' = merge,
             walk' = [walk EXCEPT !.loading = @ + 1, !.error = @ \/ error, !.partial = TRUE]
      PROVE  merge' \in [Listed -> MergeStates(Range(o))] /\ LoadingOK(o, walk', merge', lasting)
  <2>1. walk'.partial = TRUE
    BY <1>3, <1>8 DEF Walks
  <2>2. k + 1 \in Nat \ {0}
    BY <1>3
  <2>3. LoadingOK(o, walk', merge', lasting)
    BY <1>4, <1>6, <1>8, <2>1, <2>2 DEF LoadingOK
  <2> QED
    BY <1>2, <1>8, <2>3
<1>9. merge' \in [Listed -> MergeStates(Range(o))] /\ LoadingOK(o, walk', merge', lasting)
  BY <1>1, <1>2, <1>7, <1>8
<1>10. ClientOK(o, shown, walk', lasting)
  BY <1>1, <1>3, <1>4, <1>6 DEF ClientOK
<1>11. ListTypeOK'
  BY <1>1, <1>2, <1>6, <1>9 DEF ListIInv, ListTypeOK, o
<1>12. LastingIsThere'
  BY <1>1, <1>2 DEF ListIInv, LastingIsThere, o
<1> QED
  BY <1>1, <1>2, <1>6, <1>9, <1>10, <1>11, <1>12 DEF ListIInv, o

LEMMA LoadsEndKeeps == ASSUME ListIInv, LoadsEnd PROVE ListIInv'
<1> DEFINE o == InOrder
<1>1. /\ walk.at = "load" /\ walk.loading \notin DOMAIN Sources
      /\ UNCHANGED <<listing, asks, input, there, lasting, merge, shown>>
      /\ \/ walk' = [walk EXCEPT !.at = "failed"]
         \/ walk' = [walk EXCEPT !.at = "merge"]
  BY DEF LoadsEnd, Fail
<1>2. /\ listing = "files" /\ asks.from = <<>> /\ InOrder' = o /\ o = EntryOrder
  BY <1>1, SameOrder, ListHasOrder DEF ListIInv
<1>3. /\ Distinct(o) /\ lasting \subseteq Range(o)
      /\ \A x \in Range(o) : Position(o, x) \in Nat \ {0}
      /\ walk \in Walks(Range(o)) /\ walk.loading \in Nat
  BY WalkFacts
<1>4. LoadingOK(o, walk, merge, lasting) /\ ClientOK(o, shown, walk, lasting)
  BY <1>1 DEF ListIInv
<1> HIDE DEF o
<1>5. /\ walk' \in Walks(Range(o)) /\ walk'.at \in {"failed", "merge"}
      /\ walk'.after = walk.after /\ walk'.collected = walk.collected /\ walk'.found = walk.found
      /\ walk'.partial = walk.partial
  BY <1>1, <1>3 DEF Walks
<1>6. ClientOK(o, shown, walk', lasting)
  BY <1>1, <1>4, <1>5 DEF ClientOK
<1>7. MergingOK(o, walk', merge, lasting, 0)
  <2>1. \A p \in Listed : Ahead(o, merge[p], 0)
    BY <1>4 DEF LoadingOK
  <2>2. walk.collected = <<>> /\ (walk.found <=> walk.after = <<>>) /\ walk.loading \in Nat \ {0}
    BY <1>4 DEF LoadingOK
  <2>3. ASSUME ~walk.partial, NEW y \in lasting PROVE Left(o, merge[Owner(y)], y)
    <3>1. y \in EntryIds(ListEntries)
      BY <1>2, <1>3, EntryOrderIsOrder
    <3>2. PICK n \in DOMAIN Sources : Sources[n] = Owner(y)
      BY <3>1, EntriesAreNamed DEF Listed, Range
    <3>3. n \in 1 .. walk.loading - 1
      <4>1. DOMAIN Sources = 1 .. Len(Sources) /\ Len(Sources) \in Nat
        BY ListingsAssumption, LenProperties
      <4> QED
        BY <1>1, <1>3, <2>2, <4>1
    <3> QED
      BY <1>4, <2>3, <3>2, <3>3 DEF LoadingOK
  <2>4. walk.found => CursorAt(o, walk.after) = 0
    BY <2>2 DEF CursorAt
  <2>5. Along(<<>>, o) /\ DOMAIN <<>> = {}
    <3>1. <<>> \in Seq(Range(o)) /\ DOMAIN <<>> = {}
      BY EmptySeq
    <3> QED
      BY <3>1 DEF Along
  <2>6. \A y \in lasting : ~(Position(o, y) <= 0)
    BY <1>3
  <2> QED
    BY <1>5, <2>1, <2>2, <2>3, <2>4, <2>5, <2>6 DEF MergingOK
<1>8. MergedUpTo(o, walk', merge, lasting)
  BY <1>7 DEF MergedUpTo
<1>9. ListTypeOK'
  BY <1>1, <1>2, <1>5 DEF ListIInv, ListTypeOK, o
<1>10. LastingIsThere'
  BY <1>1, <1>2 DEF ListIInv, LastingIsThere, o
<1> QED
  BY <1>1, <1>2, <1>5, <1>6, <1>8, <1>9, <1>10 DEF ListIInv, o

(* One provider goes on to a state that keeps what is left of it.            *)
LEMMA OneProviderKeeps ==
  ASSUME NEW o, Distinct(o), NEW la, la \subseteq Range(o), NEW w, NEW p \in Listed,
         NEW mg, DOMAIN mg = Listed, NEW l, NEW t \in Nat, MergingOK(o, w, mg, la, t), Ahead(o, l, t),
         \A y \in la : Owner(y) \in Listed,
         ~w.partial => \A y \in la : Owner(y) = p /\ Left(o, mg[p], y) => Left(o, l, y)
  PROVE  MergingOK(o, w, [mg EXCEPT ![p] = l], la, t)
<1> DEFINE new == [mg EXCEPT ![p] = l]
<1>1. new[p] = l /\ \A q \in Listed : q # p => new[q] = mg[q]
  OBVIOUS
<1> HIDE DEF new
<1>2. \A q \in Listed : Ahead(o, new[q], t)
  BY <1>1 DEF MergingOK
<1>3. ~w.partial => \A y \in la : Position(o, y) <= t \/ Left(o, new[Owner(y)], y)
  BY <1>1 DEF MergingOK
<1> QED
  BY <1>2, <1>3 DEF MergingOK, new

(* The next page of a provider whose page is used up.                        *)
LEMMA LoadNextPageKeeps == ASSUME ListIInv, LoadNextPage PROVE ListIInv'
<1> DEFINE o == InOrder
<1>1. PICK n \in DOMAIN Sources :
        /\ UsedUp(Sources[n])
        /\ LET p == Sources[n]
               page == ProviderPage(p, Limit + 1, merge[p].after)
           IN \/ /\ ~merge[p].more
                 /\ merge' = [merge EXCEPT ![p].exhausted = TRUE]
                 /\ UNCHANGED <<walk, shown>>
              \/ /\ merge[p].more /\ page.found
                 /\ loadProviderFilePage(p, page)
                 /\ UNCHANGED <<walk, shown>>
              \/ /\ merge[p].more
                 /\ merge' = [merge EXCEPT ![p].exhausted = TRUE]
                 /\ walk' = [walk EXCEPT !.partial = TRUE]
                 /\ UNCHANGED shown
              \/ /\ merge[p].more
                 /\ Fail /\ UNCHANGED merge
  BY DEF LoadNextPage
<1>2. walk.at = "merge" /\ UNCHANGED <<listing, asks, input, there, lasting>>
  BY DEF LoadNextPage
<1> DEFINE p == Sources[n]
           m == merge[p]
           page == ProviderPage(p, Limit + 1, m.after)
<1>3. /\ listing = "files" /\ asks.from = <<>> /\ InOrder' = o /\ o = EntryOrder
      /\ Limit \in Nat \ {0} /\ there \subseteq ListEntries
      /\ merge \in [Listed -> MergeStates(Range(o))]
  BY <1>2, SameOrder, ListHasOrder, LimitsArePositive DEF ListIInv, ListTypeOK
<1>4. /\ Distinct(o) /\ lasting \subseteq Range(o)
      /\ \A x \in Range(o) : Position(o, x) \in Nat \ {0}
      /\ walk \in Walks(Range(o)) /\ walk.partial \in BOOLEAN
  BY WalkFacts
<1>5. ClientOK(o, shown, walk, lasting) /\ MergedUpTo(o, walk, merge, lasting)
  BY <1>2 DEF ListIInv
<1>6. PICK t \in Nat : MergingOK(o, walk, merge, lasting, t)
  BY <1>5 DEF MergedUpTo
<1>7. /\ p \in Listed /\ ~m.exhausted /\ m.index > Len(m.items)
      /\ m \in MergeStates(Range(o))
  BY <1>1, <1>3 DEF UsedUp, Unexhausted
<1>8. Ahead(o, m, t)
  BY <1>6, <1>7 DEF MergingOK
<1>9. \A y \in lasting : Owner(y) \in Listed
  BY <1>3, <1>4, EntryOrderIsOrder, EntriesAreNamed
<1> HIDE DEF o, p, page
<1>10. /\ \A i \in m.index .. Len(m.items) : FALSE
       /\ Last(m.items) \in Range(o) /\ m.after = <<Last(m.items)>> /\ t <= Position(o, Last(m.items))
  <2>1. m.index \in Nat /\ Len(m.items) \in Nat
    BY <1>7 DEF MergeStates
  <2>2. Along(m.items, o) /\ m.items # <<>> /\ m.after = <<Last(m.items)>> /\ t <= Position(o, Last(m.items))
    BY <1>7, <1>8 DEF Ahead
  <2>3. Last(m.items) \in Range(o)
    BY <1>4, <2>2, LastIsFarthest
  <2> QED
    BY <1>7, <2>1, <2>2, <2>3
<1>11. CursorAt(o, m.after) = Position(o, Last(m.items)) /\ CursorAt(o, m.after) \in Nat
  BY <1>4, <1>10 DEF CursorAt
<1> DEFINE ended == [m EXCEPT !.exhausted = TRUE]
<1>12. ended \in MergeStates(Range(o)) /\ Ahead(o, ended, t)
  BY <1>7 DEF MergeStates, Ahead
<1>13. \A y \in lasting : Left(o, m, y) => m.more /\ Position(o, Last(m.items)) < Position(o, y)
  BY <1>10 DEF Left
<1>14. ListIInv' \/ /\ merge' \in [Listed -> MergeStates(Range(o))]
                    /\ MergingOK(o, walk', merge', lasting, t)
                    /\ walk' \in Walks(Range(o)) /\ walk'.at = "merge" /\ walk'.after = walk.after
                    /\ walk'.partial = walk.partial \/ walk'.partial = TRUE
                    /\ shown' = shown
  <2>1. ASSUME ~m.more, merge' = [merge EXCEPT ![p].exhausted = TRUE], walk' = walk, shown' = shown
        PROVE  merge' \in [Listed -> MergeStates(Range(o))] /\ MergingOK(o, walk', merge', lasting, t)
    <3>1. merge' = [merge EXCEPT ![p] = ended]
      BY <2>1
    <3>2. \A y \in lasting : ~Left(o, m, y)
      BY <1>13, <2>1
    <3> HIDE DEF ended, m
    <3>3. \A y \in lasting : Owner(y) = p /\ Left(o, merge[p], y) => Left(o, ended, y)
      BY <3>2 DEF m
    <3>4. MergingOK(o, walk, [merge EXCEPT ![p] = ended], lasting, t)
      BY <1>3, <1>4, <1>6, <1>7, <1>9, <1>12, <3>3, OneProviderKeeps
    <3> QED
      BY <1>3, <1>7, <1>12, <2>1, <3>1, <3>4
  <2>2. ASSUME m.more, page.found, loadProviderFilePage(p, page), walk' = walk, shown' = shown
        PROVE  merge' \in [Listed -> MergeStates(Range(o))] /\ MergingOK(o, walk', merge', lasting, t)
    <3> DEFINE S == EntryIds({f \in there : f.from = p})
               l == Loaded(m, page)
    <3>1. page.more \in BOOLEAN /\ PageInOrder(o, page, m.after) /\ PageCovers(o, page, m.after, S)
      <4>1. Limit + 1 \in Nat \ {0}
        BY <1>3
      <4> QED
        BY <1>3, <2>2, <4>1, ProviderPageIsNext DEF page
    <3>2. merge' = [merge EXCEPT ![p] = l]
      BY <2>2 DEF loadProviderFilePage, Loaded
    <3> HIDE DEF S, l, m
    <3>3. /\ l \in MergeStates(Range(o)) /\ Ahead(o, l, t)
          /\ \A y \in S : CursorAt(o, m.after) < Position(o, y) => Left(o, l, y)
      BY <1>4, <1>7, <1>10, <1>11, <3>1, PageIsLoaded DEF l
    <3>4. ASSUME NEW y \in lasting, Owner(y) = p, Left(o, m, y) PROVE Left(o, l, y)
      <4>1. y \in S
        BY <1>3, <3>4, OwnersOfLasting DEF S
      <4> QED
        BY <1>11, <1>13, <3>3, <3>4, <4>1
    <3>5. MergingOK(o, walk, [merge EXCEPT ![p] = l], lasting, t)
      <4>1. \A y \in lasting : Owner(y) = p /\ Left(o, merge[p], y) => Left(o, l, y)
        BY <3>4 DEF m
      <4> QED
        BY <1>3, <1>4, <1>6, <1>7, <1>9, <3>3, <4>1, OneProviderKeeps
    <3> QED
      BY <1>3, <1>7, <2>2, <3>2, <3>3, <3>5
  <2>3. ASSUME merge' = [merge EXCEPT ![p].exhausted = TRUE], walk' = [walk EXCEPT !.partial = TRUE],
               shown' = shown
        PROVE  /\ merge' \in [Listed -> MergeStates(Range(o))] /\ MergingOK(o, walk', merge', lasting, t)
               /\ walk' \in Walks(Range(o)) /\ walk'.at = "merge" /\ walk'.after = walk.after
               /\ walk'.partial = TRUE
    <3>1. merge' = [merge EXCEPT ![p] = ended]
      BY <2>3
    <3>2. /\ walk' \in Walks(Range(o)) /\ walk'.at = "merge" /\ walk'.after = walk.after
          /\ walk'.partial = TRUE /\ walk'.found = walk.found /\ walk'.collected = walk.collected
      BY <1>2, <1>4, <2>3 DEF Walks
    <3>3. MergingOK(o, walk', merge, lasting, t)
      BY <1>6, <3>2 DEF MergingOK
    <3> HIDE DEF ended, m
    <3>4. MergingOK(o, walk', [merge EXCEPT ![p] = ended], lasting, t)
      BY <1>3, <1>4, <1>7, <1>9, <1>12, <3>2, <3>3, OneProviderKeeps
    <3> QED
      BY <1>3, <1>7, <1>12, <3>1, <3>2, <3>4
  <2>4. ASSUME Fail, merge' = merge PROVE ListIInv'
    <3> DEFINE none == [found |-> FALSE, more |-> FALSE]
    <3>1. /\ none.more \in BOOLEAN
          /\ none.found => PageInOrder(InOrder, none, walk.after)
          /\ none.found /\ ~walk.partial => PageCovers(InOrder, none, walk.after, lasting)
      OBVIOUS
    <3> HIDE DEF none
    <3>2. merge' \in [Listed -> MergeStates(Range(InOrder))]
      BY <1>3, <2>4 DEF o
    <3> QED
      BY <1>2, <2>4, <3>1, <3>2, PageKeeps
  <2> QED
    BY <1>1, <1>2, <1>4, <2>1, <2>2, <2>3, <2>4 DEF p, page
<1>15. SUFFICES ASSUME ~ListIInv' PROVE FALSE
  OBVIOUS
<1>16. ClientOK(o, shown', walk', lasting)
  BY <1>2, <1>4, <1>5, <1>14, <1>15 DEF ClientOK
<1>17. MergedUpTo(o, walk', merge', lasting)
  BY <1>14, <1>15 DEF MergedUpTo
<1>18. ListTypeOK'
  BY <1>2, <1>3, <1>14, <1>15 DEF ListIInv, ListTypeOK, o
<1>19. LastingIsThere'
  BY <1>2, <1>3 DEF ListIInv, LastingIsThere, o
<1> QED
  BY <1>2, <1>3, <1>14, <1>15, <1>16, <1>17, <1>18, <1>19 DEF ListIInv, o

(* A sequence that a place farther than all of it is appended to.            *)
LEMMA AppendedIsAlong ==
  ASSUME NEW o, Distinct(o), NEW s, Along(s, o), NEW x \in Range(o), NEW t \in Nat,
         \A i \in DOMAIN s : Position(o, s[i]) <= t, t < Position(o, x)
  PROVE  /\ Along(Append(s, x), o) /\ Append(s, x) \in Seq(Range(o))
         /\ \A y : y \in Range(Append(s, x)) <=> y \in Range(s) \/ y = x
         /\ \A i \in DOMAIN Append(s, x) :
              Append(s, x)[i] = x \/ (i \in DOMAIN s /\ Append(s, x)[i] = s[i])
<1> DEFINE n == Len(s)
           u == Append(s, x)
<1>1. /\ s \in Seq(Range(o)) /\ n \in Nat /\ DOMAIN s = 1 .. n
      /\ \A i \in 1 .. n : s[i] \in Range(o)
  BY ListBasics DEF Along
<1>2. /\ u \in Seq(Range(o)) /\ Len(u) = n + 1 /\ u[n + 1] = x
      /\ \A i \in 1 .. n : u[i] = s[i]
  BY <1>1, AppendProperties
<1> HIDE DEF u, n
<1>3. DOMAIN u = 1 .. n + 1
  BY <1>2, LenProperties
<1>4. \A y \in Range(o) : Position(o, y) \in Nat
  BY PlacesInOrder, LenProperties DEF Distinct
<1>5. \A i \in 1 .. n + 1 : i = n + 1 \/ i \in 1 .. n
  BY <1>1
<1>6. ASSUME NEW i \in 1 .. n + 1, NEW j \in 1 .. n + 1, i < j
      PROVE  Position(o, u[i]) < Position(o, u[j])
  <2>1. i \in 1 .. n
    BY <1>1, <1>6
  <2>2. Position(o, s[i]) <= t /\ Position(o, s[i]) \in Nat
    BY <1>1, <1>4, <2>1
  <2>3. CASE j = n + 1
    BY <1>2, <1>4, <2>1, <2>2, <2>3
  <2>4. CASE j \in 1 .. n
    BY <1>1, <1>2, <1>6, <2>1, <2>4 DEF Along
  <2> QED
    BY <1>5, <2>3, <2>4
<1>7. \A i \in DOMAIN u : u[i] = x \/ (i \in DOMAIN s /\ u[i] = s[i])
  BY <1>1, <1>2, <1>3, <1>5
<1>8. \A y : y \in Range(u) <=> y \in Range(s) \/ y = x
  <2>1. 1 .. n \subseteq 1 .. n + 1 /\ n + 1 \in 1 .. n + 1
    BY <1>1
  <2>2. \A y : y \in Range(u) => y \in Range(s) \/ y = x
    BY <1>7 DEF Range
  <2>3. x \in Range(u) /\ \A i \in 1 .. n : s[i] \in Range(u)
    BY <1>2, <1>3, <2>1 DEF Range
  <2> QED
    BY <1>1, <2>2, <2>3 DEF Range
<1>9. Along(u, o)
  BY <1>2, <1>3, <1>6 DEF Along
<1> QED
  BY <1>2, <1>7, <1>8, <1>9 DEF u

(* What stands in front of a provider's page is the nearest of what is left. *)
LEMMA FrontIsNearest ==
  ASSUME NEW o, Distinct(o), NEW m \in MergeStates(Range(o)), NEW t \in Nat, Ahead(o, m, t),
         ~m.exhausted, ~(m.index > Len(m.items))
  PROVE  /\ m.index \in 1 .. Len(m.items) /\ m.items[m.index] \in Range(o)
         /\ t < Position(o, m.items[m.index])
         /\ Position(o, m.items[m.index]) <= Position(o, Last(m.items))
         /\ \A i \in m.index .. Len(m.items) : /\ i \in 1 .. Len(m.items)
                                               /\ i # m.index => Position(o, m.items[m.index]) < Position(o, m.items[i])
         /\ \A y \in Range(o) : Left(o, m, y) => Position(o, m.items[m.index]) < Position(o, y) \/ y = m.items[m.index]
<1> DEFINE s == m.items
           k == m.index
<1>1. /\ Along(s, o) /\ s # <<>> /\ k \in 1 .. Len(s) + 1 /\ s \in Seq(Range(o))
      /\ \A i \in k .. Len(s) : t < Position(o, s[i])
  BY DEF Ahead, Along
<1>2. Len(s) \in Nat /\ DOMAIN s = 1 .. Len(s) /\ \A i \in 1 .. Len(s) : s[i] \in Range(o)
  BY <1>1, ListBasics
<1> HIDE DEF s, k
<1>3. k \in 1 .. Len(s) /\ k \in k .. Len(s)
  BY <1>1, <1>2 DEF s, k
<1>4. \A i \in k .. Len(s) : i \in 1 .. Len(s) /\ (i # k => Position(o, s[k]) < Position(o, s[i]))
  <2> TAKE i \in k .. Len(s)
  <2>1. i \in 1 .. Len(s) /\ (i # k => k < i)
    BY <1>2, <1>3
  <2> QED
    BY <1>1, <1>2, <1>3, <2>1 DEF Along
<1>5. \A x \in Range(o) : Position(o, x) \in Nat
  BY PlacesInOrder, LenProperties DEF Distinct
<1>6. Position(o, s[k]) <= Position(o, Last(s)) /\ Last(s) \in Range(o)
  BY <1>1, <1>3, LastIsFarthest
<1>7. ASSUME NEW y \in Range(o), Left(o, m, y) PROVE Position(o, s[k]) < Position(o, y) \/ y = s[k]
  <2>1. CASE \E i \in k .. Len(s) : s[i] = y
    BY <1>4, <2>1
  <2>2. CASE Position(o, Last(s)) < Position(o, y)
    <3>1. Position(o, s[k]) \in Nat /\ Position(o, Last(s)) \in Nat /\ Position(o, y) \in Nat
      BY <1>2, <1>3, <1>5, <1>6
    <3> QED
      BY <1>6, <2>2, <3>1
  <2> QED
    BY <1>7, <2>1, <2>2 DEF Left, s, k
<1> QED
  BY <1>1, <1>2, <1>3, <1>4, <1>6, <1>7 DEF s, k

(* The best of the fronts is the next entry of the whole list: what is left  *)
(* lies behind it.                                                           *)
LEMMA TakeFileKeeps == ASSUME ListIInv, TakeFile PROVE ListIInv'
<1> DEFINE o == InOrder
<1>1. /\ walk.at = "merge" /\ \A q \in Listed : ~UsedUp(q)
      /\ UNCHANGED <<listing, asks, input, there, lasting, shown>>
  BY DEF TakeFile
<1>2. PICK p \in Listed :
        /\ p \in Unexhausted
        /\ \A q \in Unexhausted \ {p} : fileSortsBefore(FirstLeft(p), FirstLeft(q))
        /\ merge' = [merge EXCEPT ![p].index = @ + 1]
        /\ walk' = IF walk.found THEN [walk EXCEPT !.collected = Append(@, FirstLeft(p).id)]
                   ELSE [walk EXCEPT !.found = <<FirstLeft(p).id>> = walk.after]
  BY DEF TakeFile
<1> DEFINE m == merge[p]
           first(q) == merge[q].items[merge[q].index]
           x == first(p)
           u == Position(o, x)
           l == [m EXCEPT !.index = @ + 1]
<1>3. /\ InOrder' = o /\ o = EntryOrder /\ merge \in [Listed -> MergeStates(Range(o))]
  BY <1>1, SameOrder, ListHasOrder DEF ListIInv, ListTypeOK
<1>4. /\ Distinct(o) /\ lasting \subseteq Range(o)
      /\ \A y \in Range(o) : Position(o, y) \in Nat \ {0}
      /\ walk \in Walks(Range(o)) /\ CursorAt(o, walk.after) \in Nat /\ walk.partial \in BOOLEAN
      /\ walk.found \in BOOLEAN /\ walk.collected \in Seq(Range(o))
  BY <1>1, WalkFacts
<1>5. ClientOK(o, shown, walk, lasting) /\ MergedUpTo(o, walk, merge, lasting)
  BY <1>1 DEF ListIInv
<1>6. PICK t \in Nat : MergingOK(o, walk, merge, lasting, t)
  BY <1>5 DEF MergedUpTo
<1>7. \A y \in lasting : Owner(y) \in Listed
  BY <1>3, <1>4, EntryOrderIsOrder, EntriesAreNamed
<1> HIDE DEF o
<1>8. ASSUME NEW q \in Unexhausted
      PROVE  /\ q \in Listed /\ first(q) \in Range(o) /\ t < Position(o, first(q))
             /\ merge[q].index \in 1 .. Len(merge[q].items) /\ ~merge[q].exhausted
             /\ Position(o, first(q)) <= Position(o, Last(merge[q].items))
             /\ \A i \in merge[q].index .. Len(merge[q].items) :
                  /\ i \in 1 .. Len(merge[q].items)
                  /\ i # merge[q].index => Position(o, first(q)) < Position(o, merge[q].items[i])
             /\ \A y \in Range(o) : Left(o, merge[q], y) => Position(o, first(q)) < Position(o, y) \/ y = first(q)
  <2>1. q \in Listed /\ ~merge[q].exhausted /\ ~(merge[q].index > Len(merge[q].items))
    BY <1>1 DEF Unexhausted, UsedUp
  <2>2. merge[q] \in MergeStates(Range(o)) /\ Ahead(o, merge[q], t)
    BY <1>3, <1>6, <2>1 DEF MergingOK
  <2> QED
    BY <1>4, <2>1, <2>2, FrontIsNearest
<1>9. ASSUME NEW q \in Unexhausted
      PROVE  FirstLeft(q) \in ListEntries /\ FirstLeft(q).id = first(q)
  <2>1. first(q) \in EntryIds(ListEntries)
    BY <1>3, <1>8, EntryOrderIsOrder
  <2> QED
    BY <2>1, EntriesAreNamed DEF FirstLeft
<1>10. \A q \in Unexhausted \ {p} : u < Position(o, first(q))
  <2> TAKE q \in Unexhausted \ {p}
  <2>1. fileSortsBefore(FirstLeft(p), FirstLeft(q))
    BY <1>2
  <2>2. /\ FirstLeft(p) \in ListEntries /\ FirstLeft(p).id = x
        /\ FirstLeft(q) \in ListEntries /\ FirstLeft(q).id = first(q)
    BY <1>2, <1>9
  <2>3. Position(EntryOrder, FirstLeft(p).id) < Position(EntryOrder, FirstLeft(q).id)
    BY <2>1, <2>2, EntryOrderIsOrder
  <2> QED
    BY <1>3, <2>2, <2>3
<1>11. /\ x \in Range(o) /\ u \in Nat /\ t < u /\ FirstLeft(p).id = x
  BY <1>2, <1>4, <1>8, <1>9
<1>12. merge' = [merge EXCEPT ![p] = l] /\ m \in MergeStates(Range(o)) /\ l \in MergeStates(Range(o))
  <2>1. m \in MergeStates(Range(o)) /\ m.index \in Nat
    BY <1>3 DEF MergeStates
  <2>2. l \in MergeStates(Range(o))
    BY <2>1 DEF MergeStates
  <2>3. merge' = [merge EXCEPT ![p] = l]
    BY <1>2
  <2> QED
    BY <2>1, <2>2, <2>3
<1>13. /\ merge' \in [Listed -> MergeStates(Range(o))] /\ merge'[p] = l
       /\ \A q \in Listed : q # p => merge'[q] = merge[q]
  BY <1>3, <1>12
<1>14. /\ l.items = m.items /\ l.index = m.index + 1 /\ l.more = m.more /\ ~l.exhausted /\ l.after = m.after
  BY <1>2, <1>8, <1>12 DEF MergeStates
<1> HIDE DEF l
<1>15. \A q \in Listed : Ahead(o, merge'[q], u)
  <2> TAKE q \in Listed
  <2>1. Ahead(o, merge[q], t)
    BY <1>6 DEF MergingOK
  <2>2. CASE q = p
    <3>1. /\ m.items # <<>> /\ Along(m.items, o) /\ m.after = <<Last(m.items)>>
          /\ m.index \in 1 .. Len(m.items)
      BY <1>2, <1>8, <2>1, <2>2 DEF Ahead
    <3>2. Len(m.items) \in Nat
      BY <1>12 DEF MergeStates
    <3>3. m.index + 1 \in 1 .. Len(m.items) + 1
      BY <3>1, <3>2
    <3>4. \A i \in m.index + 1 .. Len(m.items) : u < Position(o, m.items[i])
      <4> TAKE i \in m.index + 1 .. Len(m.items)
      <4>1. i \in m.index .. Len(m.items) /\ i # m.index
        BY <3>1, <3>2
      <4> QED
        BY <1>2, <1>8, <4>1
    <3>5. u <= Position(o, Last(m.items))
      BY <1>2, <1>8
    <3> QED
      BY <1>13, <1>14, <2>2, <3>1, <3>3, <3>4, <3>5 DEF Ahead
  <2>3. CASE q # p /\ merge[q].exhausted
    BY <1>13, <2>3 DEF Ahead
  <2>4. CASE q # p /\ ~merge[q].exhausted
    <3>1. q \in Unexhausted \ {p}
      BY <2>4 DEF Unexhausted
    <3>2. u < Position(o, first(q)) /\ Position(o, first(q)) \in Nat /\ first(q) \in Range(o)
      BY <1>4, <1>8, <1>10, <3>1
    <3>3. /\ merge[q].items # <<>> /\ Along(merge[q].items, o)
          /\ Last(merge[q].items) \in Range(o) /\ \A i \in 1 .. Len(merge[q].items) : merge[q].items[i] \in Range(o)
      BY <1>4, <2>1, <2>4, LastIsFarthest, ListBasics DEF Ahead, Along
    <3>4. u <= Position(o, Last(merge[q].items))
      <4>1. Position(o, Last(merge[q].items)) \in Nat
        BY <1>4, <3>3
      <4>2. Position(o, first(q)) <= Position(o, Last(merge[q].items))
        BY <1>8, <3>1
      <4> QED
        BY <1>11, <3>2, <4>1, <4>2
    <3>5. \A i \in merge[q].index .. Len(merge[q].items) : u < Position(o, merge[q].items[i])
      <4> TAKE i \in merge[q].index .. Len(merge[q].items)
      <4>1. i \in 1 .. Len(merge[q].items) /\ Position(o, merge[q].items[i]) \in Nat
        BY <1>4, <1>8, <3>1, <3>3
      <4>2. CASE i = merge[q].index
        BY <3>2, <4>2
      <4>3. CASE i # merge[q].index
        <5>1. Position(o, first(q)) < Position(o, merge[q].items[i])
          BY <1>8, <3>1, <4>3
        <5> QED
          BY <1>11, <3>2, <4>1, <5>1
      <4> QED
        BY <4>2, <4>3
    <3> QED
      BY <1>13, <2>1, <2>4, <3>4, <3>5 DEF Ahead
  <2> QED
    BY <2>2, <2>3, <2>4
(* What was left is the entry taken or lies behind it.                       *)
<1>16. ASSUME NEW y \in lasting, Left(o, merge[Owner(y)], y)
       PROVE  y = x \/ (u < Position(o, y) /\ Left(o, merge'[Owner(y)], y))
  <2> DEFINE q == Owner(y)
  <2>1. q \in Unexhausted /\ q \in Listed /\ y \in Range(o)
    BY <1>4, <1>7, <1>16 DEF Left, Unexhausted
  <2>2. Position(o, first(q)) < Position(o, y) \/ y = first(q)
    BY <1>8, <1>16, <2>1
  <2> HIDE DEF q
  <2>3. CASE q = p
    <3>1. CASE y = x
      BY <3>1
    <3>2. CASE y # x
      <4>1. u < Position(o, y)
        BY <2>2, <2>3, <3>2
      <4>2. Left(o, l, y)
        <5>1. Left(o, m, y)
          BY <1>16, <2>3 DEF q
        <5>2. CASE \E i \in m.index .. Len(m.items) : m.items[i] = y
          <6>1. PICK i \in m.index .. Len(m.items) : m.items[i] = y
            BY <5>2
          <6>2. i # m.index
            BY <3>2, <6>1
          <6>3. m.index \in Nat /\ Len(m.items) \in Nat
            BY <1>12 DEF MergeStates
          <6>4. i \in m.index + 1 .. Len(m.items)
            BY <6>1, <6>2, <6>3
          <6> QED
            BY <1>14, <6>1, <6>4 DEF Left
        <5>3. CASE m.more /\ Position(o, Last(m.items)) < Position(o, y)
          BY <1>14, <5>3 DEF Left
        <5> QED
          BY <5>1, <5>2, <5>3 DEF Left
      <4> QED
        BY <1>13, <2>3, <4>1, <4>2 DEF q
    <3> QED
      BY <3>1, <3>2
  <2>4. CASE q # p
    <3>1. u < Position(o, first(q)) /\ Position(o, first(q)) \in Nat /\ Position(o, y) \in Nat
      BY <1>4, <1>8, <1>10, <2>1, <2>4
    <3>2. u < Position(o, y)
      BY <1>11, <2>2, <3>1
    <3> QED
      BY <1>13, <1>16, <2>1, <2>4, <3>2 DEF q
  <2> QED
    BY <2>3, <2>4
<1>17. ~walk.partial => \A y \in lasting : Position(o, y) <= t \/ Left(o, merge[Owner(y)], y)
  BY <1>6 DEF MergingOK
<1>18. ~walk.partial => \A y \in lasting : Position(o, y) <= u \/ Left(o, merge'[Owner(y)], y)
  <2> SUFFICES ASSUME ~walk.partial, NEW y \in lasting
               PROVE  Position(o, y) <= u \/ Left(o, merge'[Owner(y)], y)
    OBVIOUS
  <2>1. Position(o, y) \in Nat
    BY <1>4
  <2> QED
    BY <1>11, <1>16, <1>17, <2>1
<1>19. CASE walk.found
  <2> DEFINE c == Append(walk.collected, x)
  <2>1. /\ CursorAt(o, walk.after) <= t /\ Along(walk.collected, o)
        /\ \A i \in DOMAIN walk.collected :
             CursorAt(o, walk.after) < Position(o, walk.collected[i]) /\ Position(o, walk.collected[i]) <= t
        /\ ~walk.partial => \A y \in lasting :
             CursorAt(o, walk.after) < Position(o, y) /\ Position(o, y) <= t => y \in Range(walk.collected)
    BY <1>6, <1>19 DEF MergingOK
  <2>2. walk' = [walk EXCEPT !.collected = c]
    BY <1>2, <1>11, <1>19
  <2>3. /\ Along(c, o) /\ c \in Seq(Range(o))
        /\ \A y : y \in Range(c) <=> y \in Range(walk.collected) \/ y = x
        /\ \A i \in DOMAIN c : c[i] = x \/ (i \in DOMAIN walk.collected /\ c[i] = walk.collected[i])
    <3>1. /\ Along(walk.collected, o) /\ x \in Range(o) /\ t < Position(o, x)
          /\ \A i \in DOMAIN walk.collected : Position(o, walk.collected[i]) <= t
      BY <1>11, <2>1
    <3> HIDE DEF x
    <3> QED
      BY <1>4, <3>1, AppendedIsAlong
  <2> HIDE DEF c
  <2>4. /\ walk' \in Walks(Range(o)) /\ walk'.at = "merge" /\ walk'.after = walk.after
        /\ walk'.partial = walk.partial /\ walk'.found = TRUE /\ walk'.collected = c
    BY <1>1, <1>4, <1>19, <2>2, <2>3 DEF Walks
  <2>5. \A i \in DOMAIN c : CursorAt(o, walk.after) < Position(o, c[i]) /\ Position(o, c[i]) <= u
    <3> TAKE i \in DOMAIN c
    <3>1. CASE c[i] = x
      BY <1>4, <1>11, <2>1, <3>1
    <3>2. CASE i \in DOMAIN walk.collected /\ c[i] = walk.collected[i]
      <4>1. c[i] \in Range(o)
        BY <2>1, <3>2, ListBasics DEF Along
      <4>2. Position(o, c[i]) \in Nat
        BY <1>4, <4>1
      <4> QED
        BY <1>11, <2>1, <3>2, <4>2
    <3> QED
      BY <2>3, <3>1, <3>2
  <2>6. ~walk.partial => \A y \in lasting :
          CursorAt(o, walk.after) < Position(o, y) /\ Position(o, y) <= u => y \in Range(c)
    <3> SUFFICES ASSUME ~walk.partial, NEW y \in lasting, CursorAt(o, walk.after) < Position(o, y),
                        Position(o, y) <= u
                 PROVE  y \in Range(c)
      OBVIOUS
    <3>1. CASE Position(o, y) <= t
      BY <2>1, <2>3, <3>1
    <3>2. CASE Left(o, merge[Owner(y)], y)
      <4>1. ~(u < Position(o, y))
        BY <1>4, <1>11
      <4> QED
        BY <1>16, <2>3, <3>2, <4>1
    <3> QED
      BY <1>17, <3>1, <3>2
  <2>7. CursorAt(o, walk.after) <= u
    BY <1>4, <1>11, <2>1
  <2>8. MergingOK(o, walk', merge', lasting, u)
    BY <1>15, <1>18, <2>3, <2>4, <2>5, <2>6, <2>7 DEF MergingOK
  <2> QED
    BY <1>1, <1>3, <1>5, <1>11, <1>13, <2>4, <2>8
       DEF ListIInv, ListTypeOK, LastingIsThere, ClientOK, MergedUpTo, o
<1>20. CASE ~walk.found
  <2>1. walk' = [walk EXCEPT !.found = (<<x>> = walk.after)]
    BY <1>2, <1>11, <1>20
  <2>2. walk.collected = <<>>
    BY <1>6, <1>20 DEF MergingOK
  <2>3. /\ walk' \in Walks(Range(o)) /\ walk'.at = "merge" /\ walk'.after = walk.after
        /\ walk'.partial = walk.partial /\ walk'.found = (<<x>> = walk.after) /\ walk'.collected = <<>>
    BY <1>1, <1>4, <2>1, <2>2 DEF Walks
  <2>4. walk'.found => CursorAt(o, walk.after) = u
    <3> SUFFICES ASSUME <<x>> = walk.after PROVE CursorAt(o, walk.after) = u
      BY <2>3
    <3>1. walk.after # <<>> /\ walk.after[1] = x
      OBVIOUS
    <3> QED
      BY <3>1 DEF CursorAt
  <2>5. Along(<<>>, o) /\ DOMAIN <<>> = {}
    <3>1. <<>> \in Seq(Range(o)) /\ DOMAIN <<>> = {}
      BY EmptySeq
    <3> QED
      BY <3>1 DEF Along
  <2>6. \A y \in lasting : ~(u < Position(o, y) /\ Position(o, y) <= u)
    BY <1>4, <1>11
  <2>7. u <= u
    BY <1>11
  <2>8. walk'.found =>
          /\ CursorAt(o, walk.after) <= u
          /\ \A y \in lasting : ~(CursorAt(o, walk.after) < Position(o, y) /\ Position(o, y) <= u)
    BY <2>4, <2>6, <2>7
  <2>9. MergingOK(o, walk', merge', lasting, u)
    BY <1>15, <1>18, <2>3, <2>5, <2>8 DEF MergingOK
  <2> QED
    BY <1>1, <1>3, <1>5, <1>11, <1>13, <2>3, <2>9
       DEF ListIInv, ListTypeOK, LastingIsThere, ClientOK, MergedUpTo, o
<1> QED
  BY <1>4, <1>19, <1>20

(* The merge has collected all that lies behind the cursor, or one file more *)
(* than the page holds.                                                      *)
LEMMA ListDoneKeeps == ASSUME ListIInv, ListDone PROVE ListIInv'
<1> DEFINE o == InOrder
           c == walk.collected
           page == [found |-> walk.found, ids |-> Upto(c, Limit), more |-> Len(c) > Limit]
<1>1. /\ walk.at = "merge" /\ (Len(c) > Limit \/ Unexhausted = {}) /\ Deliver(page)
      /\ merge' = [p \in Listed |-> Unread]
      /\ UNCHANGED <<listing, asks, input, there, lasting>>
  BY DEF ListDone
<1>2. /\ Distinct(o) /\ lasting \subseteq Range(o)
      /\ \A y \in Range(o) : Position(o, y) \in Nat \ {0}
      /\ walk.found \in BOOLEAN /\ c \in Seq(Range(o)) /\ Limit \in Nat \ {0}
  BY WalkFacts, LimitsArePositive DEF ListIInv
<1>3. \A y \in lasting : Owner(y) \in Listed
  <2>1. o = EntryOrder
    BY <1>1, ListHasOrder DEF ListIInv
  <2> QED
    BY <1>2, <2>1, EntryOrderIsOrder, EntriesAreNamed
<1>4. PICK t \in Nat : MergingOK(o, walk, merge, lasting, t)
  BY <1>1 DEF ListIInv, MergedUpTo
<1>5. merge' \in [Listed -> MergeStates(Range(o))]
  BY <1>1, UnreadIsTyped
<1>6. /\ page.found = walk.found /\ page.ids = Upto(c, Limit) /\ (page.more <=> Len(c) > Limit)
      /\ page.more \in BOOLEAN
  <2>1. page.found = walk.found /\ page.ids = Upto(c, Limit) /\ page.more = (Len(c) > Limit)
    OBVIOUS
  <2>2. Len(c) \in Nat /\ Limit \in Nat
    BY <1>2, LenProperties
  <2> HIDE DEF page, c
  <2>3. (Len(c) > Limit) \in BOOLEAN
    BY <2>2
  <2>4. page.more \in BOOLEAN
    BY <2>1, <2>3
  <2>5. page.more <=> Len(c) > Limit
    BY <2>1
  <2> QED
    BY <2>1, <2>4, <2>5
<1> HIDE DEF page, c, o, Limit
<1> DEFINE n == IF Limit < Len(c) THEN Limit ELSE Len(c)
<1>7. /\ page.ids \in Seq(Range(o)) /\ Len(page.ids) = n
      /\ \A i \in 1 .. n : page.ids[i] = c[i]
  <2>1. /\ Upto(c, Limit) \in Seq(Range(o)) /\ Len(Upto(c, Limit)) = n
        /\ \A i \in 1 .. n : Upto(c, Limit)[i] = c[i]
    BY <1>2, UptoIsPrefix
  <2> QED
    BY <1>6, <2>1
<1>8. /\ Len(c) \in Nat /\ DOMAIN c = 1 .. Len(c) /\ \A i \in 1 .. Len(c) : c[i] \in Range(o)
      /\ n \in Nat /\ n <= Len(c) /\ DOMAIN page.ids = 1 .. n /\ (page.ids # <<>> <=> n > 0)
  BY <1>2, <1>7, ListBasics
<1>9. page.more => n = Limit /\ n > 0
  BY <1>2, <1>6, <1>8
<1>10. ~page.more => n = Len(c)
  BY <1>2, <1>6, <1>8
<1> HIDE DEF n
<1>11. Along(c, o) /\ \A i, j \in 1 .. Len(c) : i < j => Position(o, c[i]) < Position(o, c[j])
  BY <1>4, <1>8 DEF MergingOK, Along, c
<1>12. \A i \in 1 .. n : i \in 1 .. Len(c)
  BY <1>8
<1>13. ASSUME walk.found PROVE PageInOrder(o, page, walk.after)
  <2>1. \A i \in 1 .. Len(c) : CursorAt(o, walk.after) < Position(o, c[i])
    BY <1>4, <1>8, <1>13 DEF MergingOK, c
  <2>2. Along(page.ids, o)
    BY <1>7, <1>8, <1>11, <1>12 DEF Along
  <2> QED
    BY <1>7, <1>8, <1>9, <1>12, <2>1, <2>2 DEF PageInOrder
<1>14. ASSUME walk.found, ~walk.partial PROVE PageCovers(o, page, walk.after, lasting)
  <2> SUFFICES ASSUME NEW y \in lasting, CursorAt(o, walk.after) < Position(o, y)
               PROVE  \/ y \in Range(page.ids)
                      \/ page.more /\ \A i \in 1 .. n : Position(o, page.ids[i]) < Position(o, y)
    BY <1>8 DEF PageCovers
  <2>1. CASE Position(o, y) <= t
    <3>1. y \in Range(c)
      BY <1>4, <1>14, <2>1 DEF MergingOK, c
    <3>2. PICK j \in 1 .. Len(c) : c[j] = y
      BY <1>8, <3>1 DEF Range
    <3>3. CASE j <= n
      <4>1. j \in 1 .. n
        BY <1>8, <3>3
      <4> QED
        BY <1>7, <1>8, <3>2, <4>1 DEF Range
    <3>4. CASE ~(j <= n)
      <4>1. page.more
        <5>1. j \in Nat /\ j <= Len(c) /\ Len(c) \in Nat /\ n \in Nat
          BY <1>8
        <5>2. n # Len(c)
          BY <3>4, <5>1
        <5> QED
          BY <1>10, <5>2
      <4>2. \A i \in 1 .. n : i < j
        BY <1>8, <3>2, <3>4
      <4> QED
        BY <1>7, <1>11, <1>12, <3>2, <4>1, <4>2
    <3> QED
      BY <3>3, <3>4
  <2>2. CASE ~(Position(o, y) <= t)
    <3>1. Left(o, merge[Owner(y)], y)
      BY <1>4, <1>14, <2>2 DEF MergingOK
    <3>2. Unexhausted # {}
      BY <1>3, <3>1 DEF Left, Unexhausted
    <3>3. page.more
      BY <1>1, <1>6, <3>2
    <3>4. \A i \in 1 .. Len(c) : Position(o, c[i]) <= t
      BY <1>4, <1>8, <1>14 DEF MergingOK, c
    <3>5. \A i \in 1 .. n : Position(o, page.ids[i]) < Position(o, y)
      <4> TAKE i \in 1 .. n
      <4>1. page.ids[i] = c[i] /\ Position(o, c[i]) <= t /\ Position(o, c[i]) \in Nat
        BY <1>2, <1>7, <1>8, <1>12, <3>4
      <4>2. Position(o, y) \in Nat
        BY <1>2
      <4> QED
        BY <2>2, <4>1, <4>2
    <3> QED
      BY <3>3, <3>5
  <2> QED
    BY <2>1, <2>2
<1>15. /\ page.found => PageInOrder(InOrder, page, walk.after)
       /\ page.found /\ ~walk.partial => PageCovers(InOrder, page, walk.after, lasting)
  BY <1>6, <1>13, <1>14 DEF o
<1>16. /\ walk.at \in {"ask", "merge"} /\ (Deliver(page) \/ Fail)
       /\ UNCHANGED <<listing, asks, input, there, lasting>>
       /\ merge' \in [Listed -> MergeStates(Range(InOrder))]
  BY <1>1, <1>5 DEF o
<1> QED
  BY <1>6, <1>15, <1>16, PageKeeps

-----------------------------------------------------------------------------
(* The others: entries that come, and files that go.                         *)

LEMMA EntryCreatedKeeps == ASSUME ListIInv, EntryCreated PROVE ListIInv'
<1>1. /\ listing # "items" /\ UNCHANGED <<listing, asks, input, lasting, shown, walk, merge>>
      /\ there' \subseteq ListEntries /\ there \subseteq there'
  BY DEF EntryCreated, ListIInv, ListTypeOK
<1>2. InOrder' = InOrder
  BY <1>1, SameOrder
<1>3. LastingIsThere'
  BY <1>1, <1>2 DEF ListIInv, LastingIsThere, EntryIds
<1>4. ListTypeOK'
  BY <1>1, <1>2 DEF ListIInv, ListTypeOK
<1> QED
  BY <1>1, <1>2, <1>3, <1>4 DEF ListIInv

(* What holds of the lasting entries holds of fewer.                         *)
LEMMA FewerLast ==
  ASSUME NEW o, NEW sh, NEW w, NEW mg, NEW la, NEW fewer, fewer \subseteq la
  PROVE  /\ ClientOK(o, sh, w, la) => ClientOK(o, sh, w, fewer)
         /\ LoadingOK(o, w, mg, la) => LoadingOK(o, w, mg, fewer)
         /\ MergedUpTo(o, w, mg, la) => MergedUpTo(o, w, mg, fewer)
<1>1. ClientOK(o, sh, w, la) => ClientOK(o, sh, w, fewer)
  BY DEF ClientOK
<1>2. LoadingOK(o, w, mg, la) => LoadingOK(o, w, mg, fewer)
  BY DEF LoadingOK
<1>3. ASSUME NEW t \in Nat, MergingOK(o, w, mg, la, t) PROVE MergingOK(o, w, mg, fewer, t)
  BY <1>3 DEF MergingOK
<1> QED
  BY <1>1, <1>2, <1>3 DEF MergedUpTo

LEMMA FileDeletedKeeps == ASSUME ListIInv, FileDeleted PROVE ListIInv'
<1>1. PICK e \in there : there' = there \ {e} /\ lasting' = lasting \ {e.id}
  BY DEF FileDeleted
<1>2. listing = "files" /\ UNCHANGED <<listing, asks, input, shown, walk, merge>>
  BY DEF FileDeleted
<1>3. InOrder' = InOrder
  BY <1>2, SameOrder
<1>4. LastingIsThere'
  BY <1>1, <1>2, <1>3 DEF ListIInv, LastingIsThere, EntryIds
<1>5. ListTypeOK'
  BY <1>1, <1>2, <1>3 DEF ListIInv, ListTypeOK
<1>6. lasting' \subseteq lasting
  BY <1>1
<1>7. ClientOK(InOrder, shown, walk, lasting')
  BY <1>6, FewerLast DEF ListIInv
<1>8. walk.at = "load" => LoadingOK(InOrder, walk, merge, lasting')
  BY <1>6, FewerLast DEF ListIInv
<1>9. walk.at = "merge" => MergedUpTo(InOrder, walk, merge, lasting')
  BY <1>6, FewerLast DEF ListIInv
<1> QED
  BY <1>2, <1>3, <1>4, <1>5, <1>7, <1>8, <1>9 DEF ListIInv

LEMMA ListBegins == ASSUME ListInit PROVE ListIInv
<1>1. /\ listing \in {"files", "batches", "items"} /\ (listing = "items" => input \in Inputs)
      /\ asks \in [limit : Limits, order : {"asc", "desc"}, from : {<<>>} \cup {<<p>> : p \in Listed}]
      /\ shown = <<>> /\ walk = Asking /\ merge = [p \in Listed |-> Unread]
  BY DEF ListInit
<1>2. there \subseteq ListEntries
  BY DEF ListInit
<1>3. <<>> \in Seq(Range(InOrder))
  BY EmptySeq
<1>4. /\ walk \in Walks(Range(InOrder)) /\ walk.at = "ask" /\ walk.after = <<>>
      /\ ~walk.partial /\ walk.collected = <<>>
  BY <1>1, <1>3 DEF Asking, Walks
<1>5. merge \in [Listed -> MergeStates(Range(InOrder))]
  BY <1>1, UnreadIsTyped
<1>6. ListTypeOK
  BY <1>1, <1>2, <1>4, <1>5 DEF ListTypeOK
<1>7. LastingIsThere
  <2>1. CASE listing = "items"
    BY <1>6, <2>1, ListHasOrder DEF ListInit, LastingIsThere
  <2>2. CASE listing # "items"
    BY <2>2 DEF ListInit, LastingIsThere
  <2> QED
    BY <2>1, <2>2
<1>8. lasting \subseteq Range(InOrder) /\ Distinct(InOrder)
  <2>1. CASE listing = "items"
    BY <1>6, <1>7, <2>1, ListHasOrder DEF LastingIsThere
  <2>2. CASE listing # "items"
    BY <1>2, <1>6, <1>7, <2>2, ListHasOrder, EntryOrderIsOrder DEF LastingIsThere, EntryIds
  <2> QED
    BY <2>1, <2>2
<1>9. \A y \in lasting : 0 < Position(InOrder, y)
  BY <1>8, PlacesInOrder, LenProperties DEF Distinct
<1>10. Along(shown, InOrder)
  <2>1. DOMAIN shown = {}
    BY <1>1
  <2> QED
    BY <1>1, <1>3, <2>1 DEF Along
<1>11. ClientOK(InOrder, shown, walk, lasting)
  BY <1>1, <1>4, <1>9, <1>10 DEF ClientOK, CursorAt
<1> QED
  BY <1>4, <1>6, <1>7, <1>11 DEF ListIInv

(* The client's cursor divides the list: whatever was there all the time was *)
(* shown or lies behind it.  Within a page, the merge has a place up to      *)
(* which it has taken everything; every provider's page goes on behind that  *)
(* place, so nothing that lasts is skipped.  It holds whatever entries there *)
(* are and whichever come and go.                                            *)
THEOREM ListsInvariance == ListSpec => []ListIInv
<1>1. ListInit => ListIInv
  BY ListBegins
<1>2. ListIInv /\ [ListNext]_listVars => ListIInv'
  <2> SUFFICES ASSUME ListIInv, [ListNext]_listVars PROVE ListIInv'
    OBVIOUS
  <2>1. CASE AskBatches
    BY <2>1, AskBatchesKeeps
  <2>2. CASE AskItems
    BY <2>2, AskItemsKeeps
  <2>3. CASE AskOneProvider
    BY <2>3, AskOneProviderKeeps
  <2>4. CASE AskFiles
    BY <2>4, AskFilesKeeps
  <2>5. CASE LoadFirstPage
    BY <2>5, LoadFirstPageKeeps
  <2>6. CASE LoadsEnd
    BY <2>6, LoadsEndKeeps
  <2>7. CASE LoadNextPage
    BY <2>7, LoadNextPageKeeps
  <2>8. CASE TakeFile
    BY <2>8, TakeFileKeeps
  <2>9. CASE ListDone
    BY <2>9, ListDoneKeeps
  <2>10. CASE EntryCreated
    BY <2>10, EntryCreatedKeeps
  <2>11. CASE FileDeleted
    BY <2>11, FileDeletedKeeps
  <2>12. CASE UNCHANGED listVars
    <3>1. UNCHANGED <<listing, asks, input, there, lasting, shown, walk, merge>>
      BY <2>12 DEF listVars
    <3>2. InOrder' = InOrder
      BY <3>1, SameOrder
    <3> QED
      BY <3>1, <3>2 DEF ListIInv, ListTypeOK, LastingIsThere
  <2> QED
    BY <2>1, <2>2, <2>3, <2>4, <2>5, <2>6, <2>7, <2>8, <2>9, <2>10, <2>11, <2>12 DEF ListNext
<1> QED
  BY <1>1, <1>2, PTL DEF ListSpec

(* A client that follows the cursors to the end sees the list whole, for any *)
(* entries, inputs, providers and limits.                                    *)
THEOREM ListsStayWhole == ListSpec => []ListsAreWhole
<1>1. ListIInv => ListsAreWhole
  BY DEF ListIInv, ClientOK, Along, ListsAreWhole
<1> QED
  BY <1>1, ListsInvariance, PTL
=============================================================================
