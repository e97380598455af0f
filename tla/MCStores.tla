------------------------------ MODULE MCStores -------------------------------
(* What clients come back to, for TLC: a behaviour is about a conversation,   *)
(* the in-memory stores, a native batch, a native response or file, or a      *)
(* list; the variables of the others stay as they began.                      *)
EXTENDS Conversations, MemoryStore, Batches, NativeObjects, Listings, TLC

CONSTANTS t1, t2, u1, u2, c1, c2, p1, p2, p3, a

TwoTurns == {t1, t2}
OneUpdater == {u1}
TwoUpdaters == {u1, u2}
TwoCallers == {c1, c2}
ThreeIds == 1 .. 3
StoreSizes == {1, 4}

ThreeProviders == {p1, p2, p3}
LastProviders == {p2, p3}
FirstProvider == {p1}
OneItem == {a}
ProbingOrder == <<p1, p2, p3>>

VARIABLE subject

TwoLimits == {0, 3}
FourEntries ==
  {[at |-> 1, id |-> 1, from |-> p2], [at |-> 1, id |-> 2, from |-> p3],
   [at |-> 1, id |-> 3, from |-> p2], [at |-> 2, id |-> 4, from |-> p2]}
RawItem(type, id, c) == [type |-> type, id |-> id, call |-> c]
ThreeInputs ==
  {<<RawItem("", <<>>, <<>>), Junk, RawItem("function_call", <<>>, <<1>>),
     RawItem("function_call_output", <<>>, <<1>>)>>,
   <<RawItem("message", <<7>>, <<>>), RawItem("function_call", <<>>, <<>>),
     RawItem("reasoning", <<>>, <<>>)>>, <<Junk>>}

FileSources == <<p2, p3>>

storesVars == <<vars, memoryVars, batchVars, objectVars, listVars, subject>>

(* p2 and p3 differ in the probing order only: one of them is named. A hint    *)
(* keeps the mapping from being read.                                          *)
SomeBatch == /\ request.hint # p3 /\ \A i \in DOMAIN request.models : request.models[i] # p3
             /\ mapping # p3 /\ (request.hint # None => mapping = None)
(* A list without the two oldest entries is short: they are there at first.    *)
SomeList == asks.from # <<p3>> /\ (listing # "items" => {e \in FourEntries : e.id < 3} \subseteq there)
NoBatch == request = [source |-> "inline", hint |-> None, models |-> <<>>] /\ holders = {} /\ mapping = None
NoObject == kind = "file" /\ record = None /\ holds = (p1 :> "absent" @@ p2 :> "active" @@ p3 :> "absent")
NoList == listing = "items" /\ input = <<Junk>> /\ asks = [limit |-> 0, order |-> "asc", from |-> <<>>]

StoresInit ==
  /\ \/ subject = "conversation" /\ storeKind = "responses" /\ NoBatch /\ NoObject /\ NoList
     \/ subject = "memory" /\ inMemory = TRUE /\ NoBatch /\ NoObject /\ NoList
     \/ subject = "batch" /\ inMemory = TRUE /\ storeKind = "responses" /\ NoObject /\ NoList
     \/ subject = "object" /\ inMemory = TRUE /\ storeKind = "responses" /\ NoBatch /\ NoList
     \/ subject = "list" /\ inMemory = TRUE /\ storeKind = "responses" /\ NoBatch /\ NoObject
  /\ Init /\ MemoryInit /\ BatchInit /\ ObjectInit /\ ListInit
  /\ SomeBatch /\ SomeList

StoresNext ==
  \/ subject = "conversation" /\ Next /\ UNCHANGED <<memoryVars, batchVars, objectVars, listVars, subject>>
  \/ subject = "memory" /\ MemoryNext /\ UNCHANGED <<vars, batchVars, objectVars, listVars, subject>>
  \/ subject = "batch" /\ BatchNext /\ UNCHANGED <<vars, memoryVars, objectVars, listVars, subject>>
  \/ subject = "object" /\ ObjectNext /\ UNCHANGED <<vars, memoryVars, batchVars, listVars, subject>>
  \/ subject = "list" /\ ListNext /\ UNCHANGED <<vars, memoryVars, batchVars, objectVars, subject>>

StoresSpec == StoresInit /\ [][StoresNext]_storesVars

CallSymmetry == Permutations(Turns) \cup Permutations(Updaters) \cup Permutations(TwoCallers)
=============================================================================
