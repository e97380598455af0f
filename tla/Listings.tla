------------------------------ MODULE Listings -------------------------------
(***************************************************************************)
(* A client that walks through a list page by page, each page asked for    *)
(* after the last entry of the one before, while entries come and go: the  *)
(* files of all providers merged into one list                             *)
(* (internal/server/native_file_service.go), the stored batches            *)
(* (internal/gateway/batch_orchestrator.go, internal/batch), the input     *)
(* items of a stored response (internal/server/response_input_items.go).   *)
(***************************************************************************)
EXTENDS Naturals, Sequences, FiniteSets, SequencesExt

CONSTANTS
  Sources,       \* the provider types that keep files, sorted by name
  ListEntries,   \* files or batches [at |-> second, id |-> id, from |-> provider]
  Inputs,        \* the inputs of the stored response: sequences of raw items
  NullItem,      \* an input item that is null or an empty text
  Limits,        \* what the client may ask for
  DefaultLimit,  \* 20
  MaxLimit       \* 100

(* An id identifies one entry across providers (the README says what       *)
(* happens otherwise).                                                     *)
ASSUME ListingsAssumption ==
  /\ IsFiniteSet(ListEntries)
  /\ Sources \in Seq(Range(Sources))
  /\ \A e \in ListEntries : e.at \in Nat /\ e.id \in Nat /\ e.from \in Range(Sources)
  /\ \A e, f \in ListEntries : e.id = f.id => e = f
  /\ \A items \in Inputs : items \in Seq(Range(items))
  /\ Limits \subseteq Nat /\ MaxLimit \in Nat /\ DefaultLimit \in 1 .. MaxLimit

VARIABLES
  listing,  \* "files", "batches" or "items"
  asks,     \* what every page is asked with: limit, order, one provider or all
  input,    \* the input of the stored response
  there,    \* the entries that exist
  lasting,  \* history: the entries that were there all the time
  shown,    \* the ids the client was given, in order
  walk,     \* the page being put together
  merge     \* merge[p]: providerFileListState of p

listVars == <<listing, asks, input, there, lasting, shown, walk, merge>>

Position(seq, id) == CHOOSE i \in DOMAIN seq : seq[i] = id
IdsOf(entries) == [i \in DOMAIN entries |-> entries[i].id]
Upto(seq, n) == SubSeq(seq, 1, IF n < Len(seq) THEN n ELSE Len(seq))

-----------------------------------------------------------------------------
(* Orders and limits.                                                       *)

ClampLimit(limit) ==
  IF limit = 0 THEN DefaultLimit ELSE IF limit > MaxLimit THEN MaxLimit ELSE limit

fileSortsBefore(left, right) ==
  \/ left.at > right.at
  \/ left.at = right.at /\ left.id > right.id
  \/ /\ left.at = right.at /\ left.id = right.id
     /\ Position(Sources, left.from) > Position(Sources, right.from)

(* The place of an entry is the number of those that come before it.        *)
Sorted(entries) ==
  [n \in 1 .. Cardinality(entries) |->
     CHOOSE e \in entries : Cardinality({f \in entries : fileSortsBefore(f, e)}) = n - 1]

(* Mutant of NormalizeLimit: the store's limit is the client's.             *)
NormalizeToMax(limit) == ClampLimit(limit)

(* The store lets one more through than a client may ask for.               *)
NormalizeLimit(limit) ==
  IF limit = 0 THEN DefaultLimit ELSE IF limit > MaxLimit + 1 THEN MaxLimit + 1 ELSE limit

-----------------------------------------------------------------------------
(* The three lists.  A page is [found, ids, more].                          *)

NoPage == [found |-> FALSE, ids |-> <<>>, more |-> FALSE]

After(ids, after) ==
  IF after = <<>> THEN ids ELSE SubSeq(ids, Position(ids, after[1]) + 1, Len(ids))

KnownCursor(ids, after) == after = <<>> \/ after[1] \in Range(ids)

(* List of the batch stores: created_at and id descending.                  *)
StoreList(limit, after) ==
  Upto(After(IdsOf(Sorted(there)), after), NormalizeLimit(limit))

ListBatches(limit, after) ==
  LET items == StoreList(limit + 1, after) IN
  IF ~KnownCursor(IdsOf(Sorted(there)), after) THEN NoPage
  ELSE [found |-> TRUE, ids |-> Upto(items, limit), more |-> Len(items) > limit]

(* The id a raw item gets: its own one, one made of the call it belongs to, *)
(* or one made of its type and place.                                       *)
generatedResponseInputItemID(item, index) ==
  IF item.type \in {"function_call", "function_call_output"} /\ item.call # <<>>
    THEN <<IF item.type = "function_call" THEN "fc" ELSE "fco", item.call[1]>>
    ELSE <<"msg", item.type, index>>

(* An item without a type is a message, and so is a text; null and empty    *)
(* texts are dropped, their places stay taken.                              *)
normalizedResponseInputItems(items) ==
  LET kept == {i \in DOMAIN items : items[i] # NullItem}
      place(n) == CHOOSE i \in kept : Cardinality({j \in kept : j < i}) = n - 1
      type(item) == IF item.type = "" THEN "message" ELSE item.type
  IN [n \in 1 .. Cardinality(kept) |-> LET item == items[place(n)] IN
        IF item.id # <<>> THEN <<"own", item.id[1]>>
        ELSE generatedResponseInputItemID([item EXCEPT !.type = type(item)], place(n))]

(* Input items with an id of their own have different ones, and a call and  *)
(* its output occur once.                                                   *)
ASSUME InputsAssumption ==
  \A items \in Inputs : \A i, j \in DOMAIN normalizedResponseInputItems(items) :
    normalizedResponseInputItems(items)[i] = normalizedResponseInputItems(items)[j] => i = j

(* A cursor that is not there gives an empty last page.                     *)
paginateStoredResponseInputItems(ids, limit, order, after) ==
  LET ordered == IF order = "asc" THEN ids ELSE Reverse(ids)
      rest == After(ordered, after)
  IN IF ~KnownCursor(ordered, after) THEN [NoPage EXCEPT !.found = TRUE]
     ELSE [found |-> TRUE, ids |-> Upto(rest, limit), more |-> Len(rest) > limit]

(* A provider's own list, which the gateway only forwards.                  *)
ProviderPage(p, limit, after) ==
  LET mine == IdsOf(Sorted({f \in there : f.from = p})) IN
  IF ~KnownCursor(mine, after) THEN NoPage
  ELSE [found |-> TRUE, ids |-> Upto(After(mine, after), limit),
        more |-> Len(After(mine, after)) > limit]

-----------------------------------------------------------------------------
(* The walk.                                                                *)

Listed == Range(Sources)

Unread == [items |-> <<>>, index |-> 0, more |-> FALSE, exhausted |-> TRUE, after |-> <<>>]
Asking == [at |-> "ask", after |-> <<>>, loading |-> 0, success |-> FALSE, error |-> FALSE,
           found |-> FALSE, collected |-> <<>>, partial |-> FALSE]

EntryIds(entries) == {e.id : e \in entries}

ListInit ==
  /\ \/ /\ listing = "files" /\ input = <<>>
        /\ asks \in [limit : Limits, order : {"desc"}, from : {<<>>} \cup {<<p>> : p \in Listed}]
     \/ listing = "batches" /\ input = <<>> /\ asks \in [limit : Limits, order : {"desc"}, from : {<<>>}]
     \/ listing = "items" /\ input \in Inputs /\ asks \in [limit : Limits, order : {"asc", "desc"}, from : {<<>>}]
  /\ there \in IF listing = "items" THEN {{}} ELSE SUBSET ListEntries
  /\ lasting = IF listing = "items" THEN Range(normalizedResponseInputItems(input))
               ELSE EntryIds({f \in there : asks.from # <<>> => f.from = asks.from[1]})
  /\ shown = <<>>
  /\ walk = Asking
  /\ merge = [p \in Listed |-> Unread]

Limit == ClampLimit(asks.limit)

Fail == walk' = [walk EXCEPT !.at = "failed"] /\ UNCHANGED shown

(* A page reaches the client, who asks for the next one while there is more.*)
Deliver(page) ==
  IF ~page.found THEN Fail
  ELSE /\ shown' = shown \o page.ids
       /\ walk' = [Asking EXCEPT !.at = IF page.more THEN "ask" ELSE "done",
                                 !.after = IF page.ids = <<>> THEN <<>> ELSE <<Last(page.ids)>>,
                                 !.partial = walk.partial]

AskBatches ==
  /\ walk.at = "ask" /\ listing = "batches"
  /\ Deliver(ListBatches(Limit, walk.after)) \/ Fail
  /\ UNCHANGED <<listing, asks, input, there, lasting, merge>>

AskItems ==
  /\ walk.at = "ask" /\ listing = "items"
  /\ Deliver(paginateStoredResponseInputItems(normalizedResponseInputItems(input), Limit,
                                              asks.order, walk.after))
  /\ UNCHANGED <<listing, asks, input, there, lasting, merge>>

(* ListFiles with ?provider= hands the page on; without it the merge starts *)
(* over at the first file for every page.                                   *)
AskOneProvider ==
  /\ walk.at = "ask" /\ listing = "files" /\ asks.from # <<>>
  /\ Deliver(ProviderPage(asks.from[1], Limit, walk.after)) \/ Fail
  /\ UNCHANGED <<listing, asks, input, there, lasting, merge>>

AskFiles ==
  /\ walk.at = "ask" /\ listing = "files" /\ asks.from = <<>>
  /\ walk' = [walk EXCEPT !.at = "load", !.loading = 1, !.found = walk.after = <<>>]
  /\ merge' = [p \in Listed |-> Unread]
  /\ UNCHANGED <<listing, asks, input, there, lasting, shown>>

(* What a page does to the state of its provider.                           *)
loadProviderFilePage(p, page) ==
  merge' = [merge EXCEPT ![p] =
    IF page.ids = <<>> THEN [Unread EXCEPT !.after = merge[p].after]
    ELSE [items |-> page.ids, index |-> 1, more |-> page.more, exhausted |-> FALSE,
          after |-> <<Last(page.ids)>>]]

(* The first page of every provider: one that fails or does not keep files  *)
(* is passed over.                                                          *)
LoadFirstPage ==
  /\ walk.at = "load" /\ walk.loading \in DOMAIN Sources
  /\ LET p == Sources[walk.loading] IN
     \/ /\ loadProviderFilePage(p, ProviderPage(p, Limit + 1, <<>>))
        /\ walk' = [walk EXCEPT !.loading = @ + 1, !.success = TRUE]
     \/ \E error \in BOOLEAN :
        /\ walk' = [walk EXCEPT !.loading = @ + 1, !.error = @ \/ error, !.partial = TRUE]
        /\ UNCHANGED merge
  /\ UNCHANGED <<listing, asks, input, there, lasting, shown>>

LoadsEnd ==
  /\ walk.at = "load" /\ walk.loading \notin DOMAIN Sources
  /\ IF ~walk.success /\ walk.error THEN Fail
     ELSE walk' = [walk EXCEPT !.at = "merge"] /\ UNCHANGED shown
  /\ UNCHANGED <<listing, asks, input, there, lasting, merge>>

Unexhausted == {p \in Listed : ~merge[p].exhausted}

UsedUp(p) == p \in Unexhausted /\ merge[p].index > Len(merge[p].items)

EntryOf(id) == CHOOSE e \in ListEntries : e.id = id

FirstLeft(p) == EntryOf(merge[p].items[merge[p].index])

(* The loop head of nextMergedFile: the next page of a provider whose page  *)
(* is used up.  A cursor the provider does not know any more ends it.       *)
LoadNextPage ==
  /\ walk.at = "merge"
  /\ \E n \in DOMAIN Sources :
     /\ UsedUp(Sources[n]) /\ \A m \in 1 .. n - 1 : ~UsedUp(Sources[m])
     /\ LET p == Sources[n]
            page == ProviderPage(p, Limit + 1, merge[p].after)
        IN \/ /\ ~merge[p].more
              /\ merge' = [merge EXCEPT ![p].exhausted = TRUE]
              /\ UNCHANGED <<walk, shown>>
           \/ /\ merge[p].more /\ page.found
              /\ loadProviderFilePage(p, page)
              /\ UNCHANGED <<walk, shown>>
           \/ /\ merge[p].more
              /\ merge' = [merge EXCEPT ![p].exhausted = TRUE]
              /\ walk' = [walk EXCEPT !.partial = TRUE]
              /\ UNCHANGED shown
           \/ /\ merge[p].more
              /\ Fail /\ UNCHANGED merge
  /\ UNCHANGED <<listing, asks, input, there, lasting>>

(* The best of the fronts is taken: passed over up to the cursor, then      *)
(* collected until there is one more than the page holds.                   *)
TakeFile ==
  /\ walk.at = "merge" /\ \A p \in Listed : ~UsedUp(p)
  /\ Len(walk.collected) <= Limit
  /\ \E p \in Listed :
     /\ p \in Unexhausted
     /\ \A q \in Unexhausted \ {p} : fileSortsBefore(FirstLeft(p), FirstLeft(q))
     /\ merge' = [merge EXCEPT ![p].index = @ + 1]
     /\ walk' = IF walk.found THEN [walk EXCEPT !.collected = Append(@, FirstLeft(p).id)]
                ELSE [walk EXCEPT !.found = <<FirstLeft(p).id>> = walk.after]
  /\ UNCHANGED <<listing, asks, input, there, lasting, shown>>

ListDone ==
  /\ walk.at = "merge"
  /\ \/ Len(walk.collected) > Limit
     \/ Unexhausted = {}
  /\ Deliver([found |-> walk.found, ids |-> Upto(walk.collected, Limit),
              more |-> Len(walk.collected) > Limit])
  /\ merge' = [p \in Listed |-> Unread]
  /\ UNCHANGED <<listing, asks, input, there, lasting>>

-----------------------------------------------------------------------------
(* Others upload and delete files, or create batches, which stay.           *)
EntryCreated ==
  /\ listing # "items" /\ walk.at \notin {"done", "failed"}
  /\ \E e \in ListEntries \ there : there' = there \cup {e}
  /\ UNCHANGED <<listing, asks, input, lasting, shown, walk, merge>>

FileDeleted ==
  /\ listing = "files" /\ walk.at \notin {"done", "failed"}
  /\ \E e \in there : there' = there \ {e} /\ lasting' = lasting \ {e.id}
  /\ UNCHANGED <<listing, asks, input, shown, walk, merge>>

ListNext ==
  \/ AskBatches \/ AskItems \/ AskOneProvider \/ AskFiles
  \/ LoadFirstPage \/ LoadsEnd \/ LoadNextPage \/ TakeFile \/ ListDone
  \/ EntryCreated \/ FileDeleted

ListSpec == ListInit /\ [][ListNext]_listVars

-----------------------------------------------------------------------------
(* The whole list in the order it should be shown.                          *)
InOrder ==
  IF listing # "items" THEN IdsOf(Sorted(ListEntries))
  ELSE IF asks.order = "asc" THEN normalizedResponseInputItems(input)
  ELSE Reverse(normalizedResponseInputItems(input))

(* A client that follows the cursors to the end sees the list whole:        *)
(* nothing twice, everything in order, and whatever was there all the time  *)
(* is shown, unless a page failed or a provider was passed over because it  *)
(* did not answer (native_file_service.go:372-441, batch_orchestrator.go    *)
(* :319-365 with batch/store.go:50, native_response_service.go:512-566).    *)
ListsAreWhole ==
  /\ \A i, j \in DOMAIN shown : i < j => Position(InOrder, shown[i]) < Position(InOrder, shown[j])
  /\ walk.at = "done" /\ ~walk.partial => lasting \subseteq Range(shown)
=============================================================================
