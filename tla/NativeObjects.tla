---------------------------- MODULE NativeObjects ----------------------------
(***************************************************************************)
(* One object that a provider keeps for a client: a response               *)
(* (internal/server/native_response_service.go) or an uploaded file        *)
(* (internal/server/native_file_service.go).  The gateway may have a       *)
(* record of it, the stored response or the file's provider mapping; a     *)
(* call uses the record or asks the providers one after the other.         *)
(***************************************************************************)
EXTENDS Naturals, Sequences, Nil

CONSTANTS
  Candidates,  \* the provider types, in the order they are asked
  Supporting,  \* those that implement the native operations
  NativeCalls  \* concurrent API calls

ProviderSet == {Candidates[i] : i \in DOMAIN Candidates}

ASSUME ObjectsAssumption ==
  /\ Candidates \in Seq(ProviderSet)
  /\ None \notin {"ok", "notfound", "error"}

ResponseOps == {"get", "list items", "cancel", "delete"}
FileOps == {"get", "content", "delete"}

VARIABLES
  kind,      \* "response" or "file"
  holds,     \* holds[p]: "active", "cancelled" or "absent" at provider p
  record,    \* the stored response or mapping [provider, status], or None
  client     \* client[c]: where c is, with its copy of the record

objectVars == <<kind, holds, record, client>>

Ready == [op |-> None, at |-> "ready", named |-> FALSE, copy |-> None, ask |-> 0,
          error |-> FALSE, answer |-> None]

(* The object is at one provider, or it is a response that only the gateway *)
(* keeps because its provider has no such operations.  A response's record  *)
(* names the provider that made it; a file's mapping may be out of date.    *)
ObjectInit ==
  /\ kind \in {"response", "file"}
  /\ \E owner \in ProviderSet :
       /\ holds = [p \in ProviderSet |->
                     IF p = owner /\ p \in Supporting THEN "active" ELSE "absent"]
       /\ record \in {None} \cup
            [provider : IF kind = "response" THEN {owner} ELSE ProviderSet,
             status : {"active"}]
  /\ client = [c \in NativeCalls |-> Ready]

Set(c, fields) == client' = [client EXCEPT ![c] = fields]

Answer(c, result) ==
  Set(c, [client[c] EXCEPT !.at = "answered", !.answer = result])

-----------------------------------------------------------------------------
(* Finding the provider.                                                    *)

(* ?provider= goes there, a record leads to its provider, and without one   *)
(* the candidates are asked in order.  GetResponse and                      *)
(* ListResponseInputItems answer from the stored response.                  *)
Start(c, op) ==
  /\ client[c] = Ready
  /\ op \in IF kind = "response" THEN ResponseOps ELSE FileOps
  /\ LET begun == [Ready EXCEPT !.op = op, !.copy = record] IN
     \/ /\ kind = "file" \/ record = None
        /\ \E p \in ProviderSet : Set(c, [begun EXCEPT
             !.at = "explicit", !.named = TRUE,
             !.copy = [provider |-> p, status |-> "active"]])
     \/ record = None /\ Set(c, [begun EXCEPT !.at = "probe", !.ask = 1])
     \/ /\ record # None
        /\ IF kind = "response" /\ op \in {"get", "list items"}
             THEN Set(c, [begun EXCEPT !.at = "answered", !.answer = "ok"])
             ELSE Set(c, [begun EXCEPT !.at = "recorded"])
  /\ UNCHANGED <<kind, holds, record>>

(* The store does not answer: a response call fails, a file call goes on    *)
(* without a mapping.                                                       *)
StoreUnreadable(c, op) ==
  /\ client[c] = Ready
  /\ op \in IF kind = "response" THEN ResponseOps ELSE FileOps
  /\ IF kind = "response"
       THEN Set(c, [Ready EXCEPT !.op = op, !.at = "answered", !.answer = "error"])
       ELSE Set(c, [Ready EXCEPT !.op = op, !.at = "probe", !.ask = 1])
  /\ UNCHANGED <<kind, holds, record>>

(* What provider p makes of c's request: it may fail, it answers 404 or     *)
(* "unsupported", or does what is asked.                                    *)
Absent(p) == p \notin Supporting \/ holds[p] = "absent"

Outcomes(p) == {"error", IF Absent(p) THEN "notfound" ELSE "ok"}

Effect(c, p, outcome) ==
  holds' = IF outcome # "ok" THEN holds
           ELSE CASE client[c].op = "delete" -> [holds EXCEPT ![p] = "absent"]
                  [] client[c].op = "cancel" -> [holds EXCEPT ![p] = "cancelled"]
                  [] OTHER -> holds

(* A provider that the request named: its answer is the answer.  A file     *)
(* that was deleted loses its mapping, whether or not the store obeys.      *)
AskExplicit(c) ==
  /\ client[c].at = "explicit"
  /\ LET p == client[c].copy.provider IN \E outcome \in Outcomes(p) :
       /\ Effect(c, p, outcome)
       /\ IF outcome = "ok" /\ kind = "file" /\ client[c].op = "delete"
            THEN Set(c, [client[c] EXCEPT !.at = "unmap"])
            ELSE Answer(c, outcome)
  /\ UNCHANGED <<kind, record>>

(* fileByID: a mapping that led nowhere is deleted and everyone is asked.   *)
AfterStaleMapping(c) == Set(c, [client[c] EXCEPT !.at = "forget"])

AskRecordedFile(c) ==
  /\ client[c].at = "recorded" /\ kind = "file"
  /\ LET p == client[c].copy.provider IN \E outcome \in Outcomes(p) :
       /\ Effect(c, p, outcome)
       /\ CASE outcome = "notfound" -> AfterStaleMapping(c)
            [] outcome = "ok" /\ client[c].op = "delete" ->
                 Set(c, [client[c] EXCEPT !.at = "unmap"])
            [] OTHER -> Answer(c, outcome)
  /\ UNCHANGED <<kind, record>>

(* A response that the provider does not know any more is deleted here too. *)
DeleteMayProceed(outcome) == outcome # "error"

(* CancelResponse and DeleteResponse of a stored response.                  *)
AskRecordedResponse(c) ==
  /\ client[c].at = "recorded" /\ kind = "response"
  /\ LET p == client[c].copy.provider IN \E outcome \in Outcomes(p) :
       /\ Effect(c, p, outcome)
       /\ CASE client[c].op = "delete" /\ DeleteMayProceed(outcome) ->
                 Set(c, [client[c] EXCEPT !.at = "drop"])
            [] client[c].op = "cancel" /\ outcome = "ok" ->
                 Set(c, [client[c] EXCEPT !.at = "update", !.copy.status = "cancelled"])
            [] OTHER -> Answer(c, outcome)
  /\ UNCHANGED <<kind, record>>

(* nativeResponseByProvider and the loop of fileByID: the first provider    *)
(* that does not answer 404 or "unsupported" with an error decides; another *)
(* error is kept for the end.                                               *)
Probe(c) ==
  /\ client[c].at = "probe"
  /\ client[c].ask \in DOMAIN Candidates
  /\ LET p == Candidates[client[c].ask] IN \E outcome \in Outcomes(p) :
       /\ Effect(c, p, outcome)
       /\ IF outcome = "ok"
            THEN IF kind = "file" /\ client[c].op = "delete"
                   THEN Set(c, [client[c] EXCEPT !.at = "unmap"])
                   ELSE Answer(c, "ok")
            ELSE Set(c, [client[c] EXCEPT !.ask = @ + 1,
                                          !.error = @ \/ outcome = "error"])
  /\ UNCHANGED <<kind, record>>

ProbeEnds(c) ==
  /\ client[c].at = "probe"
  /\ client[c].ask \notin DOMAIN Candidates
  /\ Answer(c, IF client[c].error THEN "error" ELSE "notfound")
  /\ UNCHANGED <<kind, holds, record>>

(* A client that hung up: a response call stops before the next provider.   *)
HangUp(c) ==
  /\ client[c].at = "probe" /\ kind = "response"
  /\ Answer(c, "error")
  /\ UNCHANGED <<kind, holds, record>>

-----------------------------------------------------------------------------
(* Keeping the record in step.                                              *)

(* The stale mapping is deleted, or the store fails and only a warning is   *)
(* logged; the probe follows.                                               *)
Forget(c) ==
  /\ client[c].at = "forget"
  /\ record' \in {record, None}
  /\ Set(c, [client[c] EXCEPT !.at = "probe", !.ask = 1])
  /\ UNCHANGED <<kind, holds>>

Unmap(c) ==
  /\ client[c].at = "unmap"
  /\ record' \in {record, None}
  /\ Answer(c, "ok")
  /\ UNCHANGED <<kind, holds>>

Drop(c) ==
  /\ client[c].at = "drop"
  /\ \/ record' = None /\ Answer(c, "ok")
     \/ record' = record /\ Answer(c, "error")
  /\ UNCHANGED <<kind, holds>>

(* Mutant of UpdateRecord: the response is stored whether it was there.     *)
UpsertRecord(c) == record' = client[c].copy

(* Update replaces a stored response and does nothing for a deleted one.    *)
UpdateRecord(c) == record' = IF record = None THEN None ELSE client[c].copy

UpdateStored(c) ==
  /\ client[c].at = "update"
  /\ \/ UpdateRecord(c) /\ Answer(c, "ok")
     \/ record' = record /\ Answer(c, "error")
  /\ UNCHANGED <<kind, holds>>

-----------------------------------------------------------------------------
(* The record expires, or the provider drops the object.                    *)
RecordExpires ==
  /\ kind = "response" /\ record # None
  /\ record' = None
  /\ UNCHANGED <<kind, holds, client>>

ObjectExpires ==
  /\ \E p \in ProviderSet : holds[p] # "absent" /\ holds' = [holds EXCEPT ![p] = "absent"]
  /\ UNCHANGED <<kind, record, client>>

ObjectNext ==
  \/ \E c \in NativeCalls :
       \/ \E op \in ResponseOps \cup FileOps : Start(c, op) \/ StoreUnreadable(c, op)
       \/ AskExplicit(c) \/ AskRecordedFile(c) \/ AskRecordedResponse(c)
       \/ Probe(c) \/ ProbeEnds(c) \/ HangUp(c)
       \/ Forget(c) \/ Unmap(c) \/ Drop(c) \/ UpdateStored(c)
  \/ RecordExpires \/ ObjectExpires

ObjectSpec == ObjectInit /\ [][ObjectNext]_objectVars

-----------------------------------------------------------------------------
(* Properties.                                                              *)

HeldNowhere == \A p \in ProviderSet : holds[p] = "absent"

(* What a client was told is true, and stays true. A file call that named   *)
(* no provider answers 404 only when no provider has the file, however      *)
(* stale its mapping was (native_file_service.go:88-124); and a deletion    *)
(* that was confirmed leaves no object at any provider and no stored        *)
(* response, also when the record it started from was replaced meanwhile or *)
(* a cancellation that was waiting for the provider writes its copy back    *)
(* (native_response_service.go:128, :162-168, native_file_service.go:266).  *)
AnswersAreTrue ==
  \A c \in NativeCalls :
    /\ kind = "file" /\ client[c].answer = "notfound" /\ ~client[c].named => HeldNowhere
    /\ client[c].answer = "ok" /\ client[c].op = "delete"
         => HeldNowhere /\ (kind = "response" => record = None)
=============================================================================
