---------------------------- MODULE Conversations ---------------------------
(***************************************************************************)
(* One gateway-managed conversation: the /v1/responses turns that read its *)
(* history and append their exchange when the model has answered           *)
(* (internal/server/conversation_responses.go), the metadata updates and   *)
(* the deletion of the Conversations API                                   *)
(* (internal/server/native_conversation_service.go), over either store of  *)
(* internal/conversationstore.  The SQLite store runs one statement per    *)
(* operation.  The in-memory store replaces an object on Update, grows it  *)
(* in place on AppendItems, and reads it after it gave up the lock on Get. *)
(***************************************************************************)
EXTENDS Naturals, Sequences, Nil

CONSTANTS
  Turns,       \* /v1/responses calls bound to the conversation
  Updaters,    \* POST /v1/conversations/{id} calls
  Created,     \* the object that Create stored
  Gone,        \* no object: deleted, expired or evicted
  Junk         \* what a read of a slice that is being written may yield

ASSUME ConversationAssumption ==
  /\ Turns \cap Updaters = {}
  /\ {Created, Gone, None} \cap (Turns \cup Updaters) = {}
  /\ Created # Gone

Clients == Turns \cup Updaters

(* An object is named by the call that stored it. *)
Objects == Updaters \cup {Created}

(* An exchange is two items: the request's input and the model's output.    *)
Items == (Turns \X {"input", "output"}) \cup {<<Junk, Junk>>}

VARIABLES
  inMemory,   \* which store this is: the in-memory one, or SQLite
  current,    \* the object the id leads to, or Gone
  items,      \* items[v]: the Items slice of object v
  appending,  \* the turn that holds mu in the middle of AppendItems, or None
  pc,         \* where each call is
  held,       \* held[c]: the object whose pointer Get found
  seen        \* seen[c]: the snapshot of the items that Get returned

vars == <<inMemory, current, items, appending, pc, held, seen>>

Init ==
  /\ inMemory \in BOOLEAN
  /\ current = Created
  /\ items = [v \in Objects |-> <<>>]
  /\ appending = None
  /\ pc = [c \in Clients |-> "idle"]
  /\ held = [c \in Clients |-> None]
  /\ seen = [c \in Clients |-> <<>>]

Goto(c, place) == pc' = [pc EXCEPT ![c] = place]

(* The in-memory store's mutex is free.  SQLite never keeps one over steps. *)
Free == appending = None

-----------------------------------------------------------------------------
(* Reading a conversation.                                                  *)

(* Get on SQLite is one SELECT. *)
GetRow(c) ==
  /\ ~inMemory
  /\ pc[c] = "idle"
  /\ IF current = Gone
       THEN Goto(c, "notfound") /\ UNCHANGED seen
       ELSE Goto(c, "loaded") /\ seen' = [seen EXCEPT ![c] = items[current]]
  /\ UNCHANGED <<inMemory, current, items, appending, held>>

NoPointer == current = Gone

(* Get in memory: the pointer is looked up under the lock ...               *)
GetPointer(c) ==
  /\ inMemory
  /\ pc[c] = "idle"
  /\ Free
  /\ IF NoPointer
       THEN Goto(c, "notfound") /\ UNCHANGED held
       ELSE Goto(c, "cloning") /\ held' = [held EXCEPT ![c] = current]
  /\ UNCHANGED <<inMemory, current, items, appending, seen>>

(* ... and cloneConversation reads the object after it was released.  A     *)
(* read during an append races with the writes to the slice header.         *)
Races(c) == appending # None /\ held[c] = current

CloneReads(c) ==
  {items[held[c]]} \cup IF Races(c) THEN {<<<<Junk, Junk>>>>} ELSE {}

Clone(c) ==
  /\ pc[c] = "cloning"
  /\ \E s \in CloneReads(c) : seen' = [seen EXCEPT ![c] = s]
  /\ Goto(c, "loaded")
  /\ UNCHANGED <<inMemory, current, items, appending, held>>

-----------------------------------------------------------------------------
(* A turn: the model answers with the history prepended to the input; the   *)
(* exchange of a complete answer is then appended.                          *)

(* The call fails, or its stream ends without response.completed.           *)
ModelFails(t) ==
  /\ pc[t] = "loaded"
  /\ Goto(t, "failed")
  /\ UNCHANGED <<inMemory, current, items, appending, held, seen>>

(* AppendItems or Update fails: the conversation is gone, the byte budget   *)
(* or the database refuses.  A turn only logs it, the client has its answer.*)
StoreFails(c) ==
  /\ pc[c] = "loaded"
  /\ Free
  /\ Goto(c, "unrecorded")
  /\ UNCHANGED <<inMemory, current, items, appending, held, seen>>

(* Mutant of Extend: the exchange is written after the snapshot of the      *)
(* turn, as a Get-then-Update would.                                        *)
ExtendSnapshot(t, added) == items' = [items EXCEPT ![current] = seen[t] \o added]

Extend(t, added) == items' = [items EXCEPT ![current] = @ \o added]

(* AppendItems on SQLite is one UPDATE. *)
AppendRow(t) ==
  /\ ~inMemory
  /\ pc[t] = "loaded"
  /\ current # Gone
  /\ Extend(t, <<<<t, "input">>, <<t, "output">>>>)
  /\ Goto(t, "recorded")
  /\ UNCHANGED <<inMemory, current, appending, held, seen>>

(* In memory the items are appended one by one under the lock.              *)
AppendInput(t) ==
  /\ inMemory
  /\ pc[t] = "loaded"
  /\ Free
  /\ current # Gone
  /\ Extend(t, <<<<t, "input">>>>)
  /\ appending' = t
  /\ Goto(t, "appending")
  /\ UNCHANGED <<inMemory, current, held, seen>>

AppendOutput(t) ==
  /\ appending = t
  /\ items' = [items EXCEPT ![current] = Append(@, <<t, "output">>)]
  /\ appending' = None
  /\ Goto(t, "recorded")
  /\ UNCHANGED <<inMemory, current, held, seen>>

-----------------------------------------------------------------------------
(* UpdateConversation and DeleteConversation.                               *)

Updatable == current # Gone

(* Update stores the whole snapshot, with its items, as a new object.       *)
Update(u) ==
  /\ pc[u] = "loaded"
  /\ Free
  /\ IF Updatable
       THEN /\ current' = u
            /\ items' = [items EXCEPT ![u] = seen[u]]
            /\ Goto(u, "updated")
       ELSE Goto(u, "notfound") /\ UNCHANGED <<current, items>>
  /\ UNCHANGED <<inMemory, appending, held, seen>>

Delete ==
  /\ Free
  /\ current # Gone
  /\ current' = Gone
  /\ UNCHANGED <<inMemory, items, appending, pc, held, seen>>

Next ==
  \/ \E c \in Clients : GetRow(c) \/ GetPointer(c) \/ Clone(c) \/ StoreFails(c)
  \/ \E t \in Turns : ModelFails(t) \/ AppendRow(t)
                        \/ AppendInput(t) \/ AppendOutput(t)
  \/ \E u \in Updaters : Update(u)
  \/ Delete

Spec == Init /\ [][Next]_vars

-----------------------------------------------------------------------------
(* Properties.                                                              *)

TypeOK ==
  /\ inMemory \in BOOLEAN
  /\ current \in Objects \cup {Gone}
  /\ items \in [Objects -> Seq(Items)]
  /\ appending \in Turns \cup {None}
  /\ pc \in [Clients -> {"idle", "notfound", "cloning", "loaded", "failed", "appending",
                         "unrecorded", "recorded", "updated"}]
  /\ held \in [Clients -> Objects \cup {None}]
  /\ seen \in [Clients -> Seq(Items)]

(* Both items of a turn are in s, one after the other.                      *)
Has(s, t) == \E i \in 1 .. Len(s) - 1 : s[i] = <<t, "input">> /\ s[i + 1] = <<t, "output">>

Recorded == {t \in Turns : pc[t] = "recorded"}

(* A recorded exchange only disappears from a living conversation through a *)
(* metadata update whose snapshot did not hold it whole: turns that end at  *)
(* once keep each other's (AppendItems, UpdateConversation).                *)
OnlyUpdatesLose ==
  current # Gone =>
    \A t \in Recorded : ~Has(items[current], t) =>
      \E u \in Updaters : pc[u] = "updated" /\ ~Has(seen[u], t)

(* A history is made of whole exchanges: no question without its answer.    *)
Whole(s) ==
  /\ Len(s) % 2 = 0
  /\ \A i \in 1 .. Len(s) \div 2 :
       \E t \in Turns : s[2 * i - 1] = <<t, "input">> /\ s[2 * i] = <<t, "output">>

(* On SQLite no turn is ever given half an exchange and no update stores    *)
(* one back, whatever interleaves (AppendItems is one UPDATE).              *)
RowsAreWhole ==
  ~inMemory => /\ \A c \in Clients : Whole(seen[c])
               /\ \A v \in Objects : Whole(items[v])

(* What the stores do keep of overlapping turns and updates.                *)
ExchangesAreKept == OnlyUpdatesLose /\ RowsAreWhole

(* What the comment of Store.AppendItems excludes: an exchange that was     *)
(* appended is overwritten "the way a Get-then-Update would".               *)
NoExchangeLost == current # Gone => \A t \in Recorded : Has(items[current], t)
=============================================================================
