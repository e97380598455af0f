-------------------------- MODULE Operations_proofs --------------------------
(* Machine-checked proofs about the life of the process and about the        *)
(* virtual models: for any number of requests in flight, and any rows.       *)
EXTENDS Lifecycle, VirtualModels, FiniteSetTheorems, NaturalsInduction, WellFoundedInduction,
        TLAPS

-----------------------------------------------------------------------------
(* The process.                                                              *)

Shutters ==
  [at : {"idle", "claim", "stop", "wait", "close", "done"}, server : BOOLEAN,
   closed : 0 .. 9, expired : BOOLEAN]

LifeTypeOK ==
  /\ main \in {"new", "unwinding", "starting", "serving", "failed", "shutting", "returned",
               "exited"}
  /\ opened \in 0 .. 9
  /\ comps \in [Components -> {"absent", "open", "closed"}]
  /\ http \in {"down", "up", "draining", "stopped"}
  /\ registered \in {"no", "yes", "sent"}
  /\ shutdown \in BOOLEAN
  /\ shutter \in [Callers -> Shutters]
  /\ inflight \in Nat /\ recorded \in Nat /\ pending \in Nat
  /\ late \in BOOLEAN

(* New opens in order, a failed New closes in the reverse order, and nobody  *)
(* shuts down what New has not finished.                                     *)
NewIsInOrder ==
  /\ main = "new" =>
       /\ opened < 9
       /\ \A i \in 1 .. 9 : comps[OpenOrder[i]] = IF i <= opened THEN "open" ELSE "absent"
  /\ main = "unwinding" => \A i \in 1 .. 9 : i > opened => comps[OpenOrder[i]] # "open"
  /\ main \in {"new", "unwinding"} => \A c \in Callers : shutter[c].at = "idle"

(* What a caller of Shutdown has closed; nobody else closes anything once    *)
(* the process has started.                                                  *)
ClosedSoFar ==
  \A c \in Callers :
    /\ \A n \in 1 .. 9 : n <= shutter[c].closed => comps[CloseOrder[n]] = "closed"
    /\ shutter[c].at \in {"idle", "claim", "stop", "wait"} => shutter[c].closed = 0
    /\ shutter[c].at = "close" => shutter[c].closed < 9

AllOpen == \A c \in Components : comps[c] = "open"

UntouchedUntilClosed ==
  /\ main = "starting" \/ registered # "no"
  /\ \A c \in Callers : shutter[c].closed = 0
  => AllOpen

(* The server's own states; a request needs a server, and Run shuts down     *)
(* itself only after a failed start.                                         *)
ServerStates ==
  /\ main \in {"new", "unwinding", "starting"} => registered = "no"
  /\ main \in {"serving", "failed", "shutting", "returned"} => registered # "no"
  /\ registered = "no" <=> http = "down"
  /\ registered = "sent" => http = "stopped"
  /\ inflight > 0 => registered # "no"
  /\ main \notin {"shutting", "exited"} => shutter["startFailure"].at = "idle"

(* Whoever closes had waited for the server, or had a reason not to.         *)
ClosersWaited ==
  \A c \in Callers : shutter[c].at = "close" \/ shutter[c].closed > 0 =>
    http = "stopped" \/ late \/ shutter[c].expired = TRUE \/ registered = "no"

LifeIInv ==
  /\ LifeTypeOK
  /\ NewIsInOrder
  /\ ClosedSoFar
  /\ UntouchedUntilClosed
  /\ ServerStates
  /\ ClosersWaited
  /\ StorageOutlivesItsUsers

(* The two orders name every component once.                                 *)
LEMMA Orders ==
  /\ Len(OpenOrder) = 9 /\ Len(CloseOrder) = 9 /\ DOMAIN OpenOrder = 1 .. 9
  /\ \A i \in 1 .. 9 : OpenOrder[i] \in Components /\ CloseOrder[i] \in Components
  /\ \A i, j \in 1 .. 9 : OpenOrder[i] = OpenOrder[j] => i = j
  /\ \A c \in Components : \E i \in 1 .. 9 : c = OpenOrder[i]
<1>1. Len(OpenOrder) = 9 /\ Len(CloseOrder) = 9 /\ DOMAIN OpenOrder = 1 .. 9
  BY DEF OpenOrder, CloseOrder
<1>2. Components = {OpenOrder[i] : i \in 1 .. 9}
  BY <1>1 DEF Components
<1>3. \A i \in 1 .. 9 : i \in {1, 2, 3, 4, 5, 6, 7, 8, 9}
  OBVIOUS
<1>4. \A i \in 1 .. 9 : \E j \in 1 .. 9 : CloseOrder[i] = OpenOrder[j]
  BY <1>3 DEF OpenOrder, CloseOrder
<1>5. \A i, j \in 1 .. 9 : OpenOrder[i] = OpenOrder[j] => i = j
  BY <1>3 DEF OpenOrder
<1> QED
  BY <1>1, <1>2, <1>4, <1>5

(* The usage storage is opened before the stores on it, and closed after     *)
(* them.                                                                     *)
LEMMA StorageInOrder ==
  /\ OpenOrder[3] = "usage" /\ CloseOrder[8] = "usage"
  /\ \A i \in 1 .. 9 : OpenOrder[i] = "usage" => i = 3
  /\ \A i \in 1 .. 9 : CloseOrder[i] = "usage" => i = 8
  /\ \A c \in SharedStorage : c \in Components /\ c # "usage"
  /\ \A c \in SharedStorage : \E i \in 4 .. 9 : c = OpenOrder[i]
  /\ \A c \in SharedStorage : \E i \in 1 .. 7 : c = CloseOrder[i]
<1>1. \A i \in 1 .. 9 : i \in {1, 2, 3, 4, 5, 6, 7, 8, 9}
  OBVIOUS
<1>2. /\ OpenOrder[3] = "usage" /\ CloseOrder[8] = "usage"
      /\ \A i \in 1 .. 9 : OpenOrder[i] = "usage" => i = 3
      /\ \A i \in 1 .. 9 : CloseOrder[i] = "usage" => i = 8
  BY <1>1 DEF OpenOrder, CloseOrder
<1>3. /\ OpenOrder[4] = "batch" /\ OpenOrder[5] = "files" /\ OpenOrder[6] = "responses"
      /\ OpenOrder[7] = "conversations"
      /\ CloseOrder[7] = "batch" /\ CloseOrder[6] = "files" /\ CloseOrder[2] = "responses"
      /\ CloseOrder[3] = "conversations"
  BY DEF OpenOrder, CloseOrder
<1>4. 4 \in 4 .. 9 /\ 5 \in 4 .. 9 /\ 6 \in 4 .. 9 /\ 7 \in 4 .. 9
      /\ 7 \in 1 .. 7 /\ 6 \in 1 .. 7 /\ 2 \in 1 .. 7 /\ 3 \in 1 .. 7
  OBVIOUS
<1>5. \A c \in SharedStorage : c # "usage" /\ (\E i \in 4 .. 9 : c = OpenOrder[i])
                               /\ (\E i \in 1 .. 7 : c = CloseOrder[i])
  BY <1>3, <1>4 DEF SharedStorage
<1>6. \A c \in SharedStorage : c \in Components
  BY <1>5, Orders
<1> QED
  BY <1>2, <1>5, <1>6

(* The process begins with nothing open.                                     *)
LEMMA LifeBegins == LifeInit => LifeIInv
<1> SUFFICES ASSUME LifeInit PROVE LifeIInv
  OBVIOUS
<1> USE DEF LifeInit
<1>1. LifeTypeOK
  <2>1. [at |-> "idle", server |-> FALSE, closed |-> 0, expired |-> FALSE] \in Shutters
    BY DEF Shutters
  <2>2. shutter \in [Callers -> Shutters]
    BY <2>1
  <2>3. comps \in [Components -> {"absent", "open", "closed"}]
    OBVIOUS
  <2>4. shutdown \in BOOLEAN /\ late \in BOOLEAN
    OBVIOUS
  <2>5. opened \in 0 .. 9 /\ inflight \in Nat /\ recorded \in Nat /\ pending \in Nat
    OBVIOUS
  <2> QED
    BY <2>2, <2>3, <2>4, <2>5 DEF LifeTypeOK
<1>2. NewIsInOrder
  BY Orders DEF NewIsInOrder
<1>3. ClosedSoFar /\ ClosersWaited
  BY DEF ClosedSoFar, ClosersWaited
<1>4. UntouchedUntilClosed
  BY DEF UntouchedUntilClosed
<1>5. shutter["startFailure"].at = "idle"
  BY DEF Callers
<1>6. ServerStates
  <2>1. inflight = 0 /\ ~ (inflight > 0)
    OBVIOUS
  <2> QED
    BY <1>5, <2>1 DEF ServerStates
<1>7. StorageOutlivesItsUsers
  BY StorageInOrder DEF StorageOutlivesItsUsers, Components
<1> QED
  BY <1>1, <1>2, <1>3, <1>4, <1>6, <1>7 DEF LifeIInv

(* Steps of New.                                                             *)
LEMMA NewKeeps ==
  ASSUME LifeIInv, Open \/ OpenFails \/ Unwind
  PROVE  LifeIInv'
<1> USE DEF LifeIInv
<1>1. CASE Open
  <2>1. main = "new" /\ opened + 1 \in 1 .. 9 /\ OpenOrder[opened + 1] \in Components
    BY <1>1, Orders DEF Open, NewIsInOrder, LifeTypeOK
  <2>2. LifeTypeOK'
    BY <1>1, <2>1 DEF Open, LifeTypeOK
  <2>3. \A i \in 1 .. 9 : comps'[OpenOrder[i]] = IF i <= opened' THEN "open" ELSE "absent"
    BY <1>1, <2>1, Orders DEF Open, NewIsInOrder, LifeTypeOK
  <2>4. \A c \in Callers : shutter'[c] = shutter[c] /\ shutter[c].at = "idle" /\ shutter[c].closed = 0
    BY <1>1, <2>1 DEF Open, NewIsInOrder, ClosedSoFar
  <2>5. NewIsInOrder'
    BY <1>1, <2>1, <2>3, <2>4, Orders DEF Open, NewIsInOrder
  <2>6. ClosedSoFar' /\ ClosersWaited'
    BY <2>2, <2>4 DEF ClosedSoFar, ClosersWaited
  <2>7. UntouchedUntilClosed'
    BY <1>1, <2>1, <2>3, Orders DEF Open, UntouchedUntilClosed, AllOpen, ServerStates
  <2>8. ServerStates'
    BY <1>1 DEF Open, ServerStates
  <2>9. StorageOutlivesItsUsers'
    BY <2>3, StorageInOrder DEF StorageOutlivesItsUsers
  <2> QED
    BY <2>2, <2>5, <2>6, <2>7, <2>8, <2>9
<1>2. CASE OpenFails
  <2>1. LifeTypeOK' /\ ServerStates'
    BY <1>2 DEF OpenFails, LifeTypeOK, ServerStates
  <2>2. NewIsInOrder'
    BY <1>2 DEF OpenFails, NewIsInOrder, LifeTypeOK
  <2>3. ClosedSoFar' /\ ClosersWaited'
    BY <1>2 DEF OpenFails, ClosedSoFar, ClosersWaited
  <2>4. UntouchedUntilClosed' /\ StorageOutlivesItsUsers'
    BY <1>2 DEF OpenFails, UntouchedUntilClosed, AllOpen, ServerStates, StorageOutlivesItsUsers
  <2> QED
    BY <2>1, <2>2, <2>3, <2>4
<1>3. CASE Unwind
  <2>1. CASE opened = 0
    <3>1. LifeTypeOK' /\ ServerStates' /\ NewIsInOrder'
      BY <1>3, <2>1 DEF Unwind, LifeTypeOK, ServerStates, NewIsInOrder
    <3>2. ClosedSoFar' /\ ClosersWaited'
      BY <1>3, <2>1 DEF Unwind, ClosedSoFar, ClosersWaited
    <3>3. UntouchedUntilClosed' /\ StorageOutlivesItsUsers'
      BY <1>3, <2>1 DEF Unwind, UntouchedUntilClosed, AllOpen, ServerStates, StorageOutlivesItsUsers
    <3> QED
      BY <3>1, <3>2, <3>3
  <2>2. CASE opened # 0
    <3>1. main = "unwinding" /\ opened \in 1 .. 9 /\ OpenOrder[opened] \in Components
      BY <1>3, <2>2, Orders DEF Unwind, LifeTypeOK
    <3>2. LifeTypeOK'
      BY <1>3, <2>2, <3>1 DEF Unwind, LifeTypeOK
    <3>3. \A i \in 1 .. 9 : i > opened - 1 => comps'[OpenOrder[i]] # "open"
      BY <1>3, <2>2, <3>1, Orders DEF Unwind, NewIsInOrder, LifeTypeOK
    <3>4. \A c \in Callers : shutter'[c] = shutter[c] /\ shutter[c].at = "idle" /\ shutter[c].closed = 0
      BY <1>3, <3>1 DEF Unwind, NewIsInOrder, ClosedSoFar
    <3>5. NewIsInOrder'
      BY <1>3, <2>2, <3>1, <3>3, <3>4 DEF Unwind, NewIsInOrder
    <3>6. ClosedSoFar' /\ ClosersWaited'
      BY <3>2, <3>4 DEF ClosedSoFar, ClosersWaited
    <3>7. UntouchedUntilClosed' /\ ServerStates'
      BY <1>3, <2>2, <3>1 DEF Unwind, UntouchedUntilClosed, ServerStates
    <3>8. StorageOutlivesItsUsers'
      <4>1. CASE OpenOrder[opened] = "usage"
        <5>1. opened = 3
          BY <3>1, <4>1, StorageInOrder
        <5>2. \A i \in 4 .. 9 : comps'[OpenOrder[i]] # "open"
          BY <3>3, <5>1
        <5> QED
          BY <5>2, StorageInOrder DEF StorageOutlivesItsUsers
      <4>2. CASE OpenOrder[opened] # "usage"
        <5>1. comps'["usage"] = comps["usage"]
          BY <1>3, <2>2, <4>2, Orders, StorageInOrder DEF Unwind, LifeTypeOK
        <5>2. \A c \in Components : comps'[c] = "open" => comps[c] = "open"
          BY <1>3, <2>2, <3>1 DEF Unwind, LifeTypeOK
        <5> QED
          BY <5>1, <5>2, StorageInOrder DEF StorageOutlivesItsUsers
      <4> QED
        BY <4>1, <4>2
    <3> QED
      BY <3>2, <3>5, <3>6, <3>7, <3>8
  <2> QED
    BY <2>1, <2>2
<1> QED
  BY <1>1, <1>2, <1>3

(* Steps of Run and of the server.                                           *)
LEMMA RunKeeps ==
  ASSUME LifeIInv, Start \/ ServerReturns \/ RunReturns \/ StartFailed \/ Signal
  PROVE  LifeIInv'
<1> USE DEF LifeIInv
<1>1. CASE Start
  <2>1. \A c \in Callers : shutter[c].at = "close" \/ shutter[c].closed > 0 => late'
    BY <1>1 DEF Start, ClosedSoFar, LifeTypeOK, Shutters
  <2>2. LifeTypeOK' /\ ServerStates' /\ ClosersWaited'
    BY <1>1, <2>1 DEF Start, LifeTypeOK, ServerStates, ClosersWaited
  <2>3. NewIsInOrder' /\ ClosedSoFar' /\ UntouchedUntilClosed' /\ StorageOutlivesItsUsers'
    BY <1>1 DEF Start, NewIsInOrder, ClosedSoFar, UntouchedUntilClosed, AllOpen,
                StorageOutlivesItsUsers
  <2> QED
    BY <2>2, <2>3
<1>2. CASE ServerReturns
  <2>1. LifeTypeOK' /\ ServerStates' /\ ClosersWaited'
    BY <1>2 DEF ServerReturns, LifeTypeOK, ServerStates, ClosersWaited
  <2>2. NewIsInOrder' /\ ClosedSoFar' /\ UntouchedUntilClosed' /\ StorageOutlivesItsUsers'
    BY <1>2 DEF ServerReturns, NewIsInOrder, ClosedSoFar, UntouchedUntilClosed, AllOpen,
                ServerStates, StorageOutlivesItsUsers
  <2> QED
    BY <2>1, <2>2
<1>3. CASE RunReturns
  <2>1. LifeTypeOK' /\ ServerStates' /\ ClosersWaited'
    BY <1>3 DEF RunReturns, LifeTypeOK, ServerStates, ClosersWaited
  <2>2. NewIsInOrder' /\ ClosedSoFar' /\ UntouchedUntilClosed' /\ StorageOutlivesItsUsers'
    BY <1>3 DEF RunReturns, NewIsInOrder, ClosedSoFar, UntouchedUntilClosed, AllOpen,
                ServerStates, StorageOutlivesItsUsers
  <2> QED
    BY <2>1, <2>2
<1>4. CASE StartFailed \/ Signal
  <2>1. PICK c \in Callers :
          /\ shutter' = [shutter EXCEPT ![c].at = "claim"]
          /\ shutter[c].at = "idle"
          /\ c = "startFailure" => main' = "shutting"
    BY <1>4 DEF StartFailed, Signal, Callers, ServerStates
  <2>2. /\ UNCHANGED <<opened, comps, http, registered, shutdown, inflight, recorded, pending, late>>
        /\ main' = main \/ (main = "failed" /\ main' = "shutting")
        /\ main \notin {"new", "unwinding", "exited"}
    BY <1>4 DEF StartFailed, Signal
  <2>3. /\ shutter' \in [Callers -> Shutters] /\ shutter'[c].at = "claim"
        /\ shutter'[c].closed = shutter[c].closed /\ shutter'[c].expired = shutter[c].expired
        /\ \A d \in Callers : d # c => shutter'[d] = shutter[d]
    BY <2>1 DEF LifeTypeOK, Shutters
  <2>4. LifeTypeOK' /\ NewIsInOrder' /\ UntouchedUntilClosed' /\ StorageOutlivesItsUsers'
    BY <2>2, <2>3 DEF LifeTypeOK, NewIsInOrder, UntouchedUntilClosed, AllOpen, ServerStates,
                      StorageOutlivesItsUsers
  <2>5. ClosedSoFar' /\ ClosersWaited'
    BY <2>1, <2>2, <2>3 DEF ClosedSoFar, ClosersWaited
  <2>6. ServerStates'
    BY <2>1, <2>2, <2>3 DEF ServerStates, Callers
  <2> QED
    BY <2>4, <2>5, <2>6
<1> QED
  BY <1>1, <1>2, <1>3, <1>4

(* Steps of Shutdown up to the closing of components.                        *)
LEMMA StoppingKeeps ==
  ASSUME LifeIInv, NEW c \in Callers,
         Claim(c) \/ StopServer(c) \/ ServerStopped(c) \/ Expire(c)
  PROVE  LifeIInv'
<1> USE DEF LifeIInv
<1>1. /\ UNCHANGED <<main, opened, comps, registered, inflight, recorded, pending, late>>
      /\ shutdown' \in BOOLEAN
      /\ http' = http \/ (http = "up" /\ http' = "draining")
  BY DEF Claim, StopServer, ServerStopped, Expire, LifeTypeOK
<1>2. /\ shutter' \in [Callers -> Shutters]
      /\ \A d \in Callers : d # c => shutter'[d] = shutter[d]
      /\ shutter'[c].closed = shutter[c].closed
      /\ shutter[c].expired = TRUE => shutter'[c].expired = TRUE
      /\ shutter[c].at # "idle" /\ shutter'[c].at # "idle"
  <2> PICK old \in Shutters : old = shutter[c]
    BY DEF LifeTypeOK
  <2>1. CASE Claim(c)
    <3> DEFINE state == [old EXCEPT !.at = IF shutdown THEN "done" ELSE "stop"]
    <3>1. /\ state \in Shutters /\ state.closed = old.closed /\ state.expired = old.expired
          /\ state.at # "idle"
      BY DEF Shutters
    <3>2. shutter' = [shutter EXCEPT ![c] = state]
      BY <2>1 DEF Claim, LifeTypeOK
    <3> QED
      BY <2>1, <3>1, <3>2 DEF Claim, LifeTypeOK
  <2>2. CASE StopServer(c)
    <3> DEFINE state == [old EXCEPT !.at = IF registered = "yes" THEN "wait" ELSE "close",
                                    !.server = registered = "yes"]
    <3>1. /\ state \in Shutters /\ state.closed = old.closed /\ state.expired = old.expired
          /\ state.at # "idle"
      BY DEF Shutters
    <3>2. shutter' = [shutter EXCEPT ![c] = state]
      BY <2>2 DEF StopServer, LifeTypeOK
    <3> QED
      BY <2>2, <3>1, <3>2 DEF StopServer, LifeTypeOK
  <2>3. CASE ServerStopped(c)
    BY <2>3 DEF ServerStopped, LifeTypeOK, Shutters
  <2>4. CASE Expire(c)
    <3> DEFINE state == [old EXCEPT !.expired = TRUE, !.at = "close"]
    <3>1. /\ state \in Shutters /\ state.closed = old.closed /\ state.expired = TRUE
          /\ state.at # "idle"
      BY DEF Shutters
    <3>2. shutter' = [shutter EXCEPT ![c] = state]
      BY <2>4 DEF Expire, LifeTypeOK
    <3> QED
      BY <2>4, <3>1, <3>2 DEF Expire, LifeTypeOK
  <2> QED
    BY <2>1, <2>2, <2>3, <2>4
<1>3. shutter'[c].at = "close" =>
        /\ shutter[c].closed < 9
        /\ http = "stopped" \/ late \/ shutter'[c].expired = TRUE \/ registered = "no"
  <2>1. CASE StopServer(c)
    <3>1. shutter'[c].at = IF registered = "yes" THEN "wait" ELSE "close"
      BY <2>1 DEF StopServer, LifeTypeOK, Shutters
    <3> QED
      BY <2>1, <3>1 DEF StopServer, LifeTypeOK, ClosedSoFar, ServerStates
  <2>2. CASE ServerStopped(c)
    BY <2>2 DEF ServerStopped, ClosedSoFar, ServerStates
  <2>3. CASE Expire(c)
    <3>1. shutter'[c].expired = TRUE
      BY <2>3 DEF Expire, LifeTypeOK, Shutters
    <3> QED
      BY <2>3, <3>1 DEF Expire, ClosedSoFar
  <2>4. CASE Claim(c)
    BY <2>4 DEF Claim, LifeTypeOK, Shutters
  <2> QED
    BY <2>1, <2>2, <2>3, <2>4
<1>4. shutter'[c].at \in {"idle", "claim", "stop", "wait"} => shutter[c].closed = 0
  BY DEF Claim, StopServer, ServerStopped, Expire, LifeTypeOK, Shutters, ClosedSoFar
<1>5. LifeTypeOK' /\ UntouchedUntilClosed' /\ StorageOutlivesItsUsers'
  BY <1>1, <1>2 DEF LifeTypeOK, UntouchedUntilClosed, AllOpen, StorageOutlivesItsUsers
<1>6. NewIsInOrder'
  BY <1>1, <1>2, <1>3 DEF NewIsInOrder
<1>7. ClosedSoFar'
  BY <1>1, <1>2, <1>3, <1>4 DEF ClosedSoFar
<1>8. ClosersWaited'
  BY <1>1, <1>2, <1>3 DEF ClosersWaited
<1>9. ServerStates'
  <2>1. main \notin {"shutting", "exited"} => c # "startFailure"
    BY <1>2 DEF ServerStates
  <2> QED
    BY <1>1, <1>2, <2>1 DEF ServerStates, Callers
<1> QED
  BY <1>5, <1>6, <1>7, <1>8, <1>9

(* The components are closed in their order.                                 *)
LEMMA ClosingKeeps ==
  ASSUME LifeIInv, NEW c \in Callers, CloseNext(c)
  PROVE  LifeIInv'
<1> USE DEF LifeIInv
<1> DEFINE n == shutter[c].closed + 1
<1>1. n \in 1 .. 9 /\ CloseOrder[n] \in Components
  BY Orders DEF CloseNext, ClosedSoFar, LifeTypeOK, Shutters
<1>2. /\ UNCHANGED <<main, opened, http, registered, shutdown, inflight, recorded, late>>
      /\ comps' = [comps EXCEPT ![CloseOrder[n]] = "closed"]
      /\ pending' \in {0, pending}
  BY DEF CloseNext
<1>3. /\ shutter' \in [Callers -> Shutters]
      /\ \A d \in Callers : d # c => shutter'[d] = shutter[d]
      /\ shutter'[c].closed = n /\ shutter'[c].expired = shutter[c].expired
      /\ shutter'[c].at = IF n = 9 THEN "done" ELSE "close"
      /\ shutter[c].at = "close"
  <2> PICK old \in Shutters : old = shutter[c]
    BY DEF LifeTypeOK
  <2> DEFINE state == [old EXCEPT !.closed = n, !.at = IF n = 9 THEN "done" ELSE "close"]
  <2>1. n \in 0 .. 9
    BY <1>1
  <2> HIDE DEF n
  <2>2. /\ state \in Shutters /\ state.closed = n /\ state.expired = old.expired
        /\ state.at = IF n = 9 THEN "done" ELSE "close"
    BY <2>1 DEF Shutters
  <2>3. shutter' = [shutter EXCEPT ![c] = state]
    BY Orders DEF CloseNext, LifeTypeOK, n
  <2> HIDE DEF state
  <2> QED
    BY <2>2, <2>3 DEF CloseNext, LifeTypeOK
<1>4. \A d \in Components : comps'[d] = IF d = CloseOrder[n] THEN "closed" ELSE comps[d]
  BY <1>2 DEF LifeTypeOK
<1> HIDE DEF n
<1>5. LifeTypeOK'
  BY <1>1, <1>2, <1>3 DEF LifeTypeOK
<1>6. NewIsInOrder' /\ ServerStates'
  <2>1. main \notin {"new", "unwinding"}
    BY <1>3 DEF NewIsInOrder
  <2>2. main \notin {"shutting", "exited"} => c # "startFailure"
    BY <1>3 DEF ServerStates
  <2>3. NewIsInOrder'
    BY <1>2, <2>1 DEF NewIsInOrder
  <2> QED
    BY <1>2, <1>3, <2>2, <2>3 DEF ServerStates, Callers
<1>7. ClosedSoFar'
  BY <1>1, <1>3, <1>4, Orders DEF ClosedSoFar, LifeTypeOK, Shutters, n
<1>8. UntouchedUntilClosed'
  BY <1>1, <1>3 DEF UntouchedUntilClosed
<1>9. ClosersWaited'
  BY <1>2, <1>3 DEF ClosersWaited
<1>10. StorageOutlivesItsUsers'
  <2>1. CASE CloseOrder[n] = "usage"
    <3>1. shutter[c].closed = 7
      BY <1>1, <2>1, StorageInOrder DEF n, LifeTypeOK, Shutters
    <3>2. \A i \in 1 .. 7 : comps[CloseOrder[i]] = "closed"
      BY <3>1 DEF ClosedSoFar
    <3> QED
      BY <1>4, <3>2, StorageInOrder DEF StorageOutlivesItsUsers
  <2>2. CASE CloseOrder[n] # "usage"
    <3>1. "usage" \in Components
      BY Orders, StorageInOrder
    <3> QED
      BY <1>4, <2>2, <3>1, StorageInOrder DEF StorageOutlivesItsUsers
  <2> QED
    BY <2>1, <2>2
<1> QED
  BY <1>5, <1>6, <1>7, <1>8, <1>9, <1>10

(* Requests come, end and leave entries to flush.                            *)
LEMMA RequestsKeep ==
  ASSUME LifeIInv, Request \/ Respond \/ Flush
  PROVE  LifeIInv'
<1> USE DEF LifeIInv
<1>1. UNCHANGED <<main, opened, comps, http, registered, shutdown, shutter, late>>
  BY DEF Request, Respond, Flush
<1>2. LifeTypeOK'
  BY <1>1 DEF Request, Respond, Flush, LifeTypeOK
<1>3. ServerStates'
  BY <1>1 DEF Request, Respond, Flush, ServerStates, LifeTypeOK
<1>4. NewIsInOrder' /\ ClosedSoFar' /\ ClosersWaited'
  BY <1>1 DEF NewIsInOrder, ClosedSoFar, ClosersWaited
<1>5. UntouchedUntilClosed' /\ StorageOutlivesItsUsers'
  BY <1>1 DEF UntouchedUntilClosed, AllOpen, StorageOutlivesItsUsers
<1> QED
  BY <1>2, <1>3, <1>4, <1>5

(* The invariant of the process, whatever fails, whoever shuts it down, and  *)
(* however many requests are in flight.                                      *)
THEOREM LifeInvariance == LifeSpec => []LifeIInv
<1>1. LifeIInv /\ [LifeNext]_lifeVars => LifeIInv'
  <2> SUFFICES ASSUME LifeIInv, [LifeNext]_lifeVars PROVE LifeIInv'
    OBVIOUS
  <2>1. CASE UNCHANGED lifeVars
    <3> USE <2>1 DEF lifeVars, LifeIInv
    <3>1. LifeTypeOK' /\ ServerStates' /\ ClosersWaited'
      BY DEF LifeTypeOK, ServerStates, ClosersWaited
    <3>2. NewIsInOrder' /\ ClosedSoFar'
      BY DEF NewIsInOrder, ClosedSoFar
    <3>3. UntouchedUntilClosed' /\ StorageOutlivesItsUsers'
      BY DEF UntouchedUntilClosed, AllOpen, StorageOutlivesItsUsers
    <3> QED
      BY <3>1, <3>2, <3>3
  <2>2. CASE LifeNext
    BY <2>2, NewKeeps, RunKeeps, StoppingKeeps, ClosingKeeps, RequestsKeep DEF LifeNext
  <2> QED
    BY <2>1, <2>2
<1> QED
  BY <1>1, LifeBegins, PTL DEF LifeSpec

(* Nothing is closed under somebody who uses it: ClosedInOrder (app.go,      *)
(* New's unwinding and Shutdown), for any number of requests.                *)
THEOREM TakenDownInOrder == LifeSpec => []ClosedInOrder
<1>1. LifeIInv => ClosedInOrder
  <2> SUFFICES ASSUME LifeIInv PROVE DrainedBeforeClose
    BY DEF LifeIInv, ClosedInOrder
  <2> SUFFICES ASSUME inflight > 0, http # "stopped", ~ late,
                      \A c \in Callers : ~ shutter[c].expired
               PROVE  \A c \in Components : comps[c] = "open"
    BY DEF DrainedBeforeClose
  <2>1. registered # "no"
    BY DEF LifeIInv, ServerStates
  <2>2. \A c \in Callers : shutter[c].closed = 0
    BY <2>1 DEF LifeIInv, ClosersWaited, LifeTypeOK, Shutters
  <2> QED
    BY <2>1, <2>2 DEF LifeIInv, UntouchedUntilClosed, AllOpen
<1> QED
  BY <1>1, LifeInvariance, PTL

-----------------------------------------------------------------------------
(* The virtual models.                                                       *)

(* A row that normalizing leaves alone.                                      *)
Settled(row) == row \in Rows /\ normalizeRow(row) = row

(* The store holds settled rows, one per source and none of the              *)
(* configuration's.                                                          *)
RowsAreSettled ==
  /\ \A row \in store : Settled(row) /\ ~ isManagedSource(row.source)
  /\ \A row, other \in store : row.source = other.source => row = other
  /\ \A row \in snapshot : row \in Rows /\ (~ isManagedSource(row.source) => Settled(row))

(* What an operation may have to restore is what is served.                  *)
HeldRows ==
  /\ op \in [stage : {"free", "refresh", "delete", "restore"}, prior : {op.prior}]
  /\ op.stage = "free" <=> op = Free
  /\ op.prior \in [DOMAIN op.prior -> SUBSET Rows]
  /\ \A source \in DOMAIN op.prior :
       /\ ~ isManagedSource(source)
       /\ op.prior[source] = lookupCanonicalSource(snapshot, source)

(* The store as it would be with the operation undone.                       *)
Undone == {row \in store : row.source \notin DOMAIN op.prior}
          \cup UNION {op.prior[source] : source \in DOMAIN op.prior}

UndoIsSnapshot == ~ strayed => snapshot = buildSnapshot(mergeConfigModels(Undone))

VMIInv == RowsAreSettled /\ HeldRows /\ UndoIsSnapshot

(* A set of numbers has a least one.                                         *)
LEMMA LeastIsThere ==
  ASSUME NEW S \in SUBSET Nat, S # {}
  PROVE  Min(S) \in S /\ \A n \in S : Min(S) <= n
<1> DEFINE less == {pair \in Nat \X Nat : pair[1] < pair[2]}
<1>1. IsWellFoundedOn(less, Nat)
  BY NatLessThanWellFounded DEF OpToRel
<1>2. \A i, j \in Nat : <<j, i>> \notin less => i <= j
  OBVIOUS
<1> HIDE DEF less
<1>3. \E i \in S : \A j \in S : <<j, i>> \notin less
  BY <1>1, WFMin
<1>4. \E i \in S : \A j \in S : i <= j
  BY <1>2, <1>3
<1> QED
  BY <1>4 DEF Min

(* The places of a sequence that are kept, counted up to each of them, take  *)
(* every number up to how many there are.                                    *)
LEMMA PlacesAreCounted ==
  ASSUME NEW m \in Nat, NEW kept \in SUBSET (1 .. m), NEW n \in 1 .. Cardinality(kept)
  PROVE  \E i \in kept : Cardinality({j \in kept : j <= i}) = n
<1> DEFINE upTo(i) == {j \in kept : j <= i}
           enough == {i \in Nat : Cardinality(upTo(i)) >= n}
<1>1. IsFiniteSet(kept) /\ Cardinality(kept) \in Nat /\ n \in Nat /\ n >= 1
  <2>1. IsFiniteSet(1 .. m)
    BY FS_Interval
  <2>2. IsFiniteSet(kept)
    BY <2>1, FS_Subset
  <2>3. Cardinality(kept) \in Nat
    BY <2>2, FS_CardinalityType
  <2> QED
    BY <2>2, <2>3
<1>0. \A j \in kept : j \in Nat /\ 1 <= j /\ j <= m
  OBVIOUS
<1>2. \A i \in Nat : IsFiniteSet(upTo(i)) /\ Cardinality(upTo(i)) \in Nat
  <2> TAKE i \in Nat
  <2>1. upTo(i) \in SUBSET kept
    OBVIOUS
  <2> HIDE DEF upTo
  <2>2. IsFiniteSet(upTo(i))
    BY <1>1, <2>1, FS_Subset
  <2> QED
    BY <2>2, FS_CardinalityType
<1>3. upTo(m) = kept /\ upTo(0) = {}
  <2>1. \A j \in kept : j <= m /\ ~ (j <= 0)
    BY <1>0
  <2> QED
    BY <2>1
<1>4. m \in enough /\ 0 \notin enough /\ enough \subseteq Nat
  <2>1. Cardinality(upTo(0)) = 0
    BY <1>3, FS_EmptySet
  <2>2. Cardinality(upTo(m)) >= n
    <3> HIDE DEF upTo
    <3> QED
      BY <1>1, <1>3
  <2> HIDE DEF upTo
  <2> QED
    BY <1>1, <2>1, <2>2
<1>5. PICK i \in enough : \A j \in enough : i <= j
  <2> HIDE DEF enough
  <2> QED
    BY <1>4, LeastIsThere
<1>6. i \in Nat /\ i # 0 /\ i - 1 \in Nat /\ i - 1 \notin enough
  <2> HIDE DEF enough
  <2>1. i \in Nat /\ i # 0
    BY <1>4
  <2>2. i - 1 \in Nat /\ ~ (i <= i - 1)
    BY <2>1
  <2> QED
    BY <1>5, <2>1, <2>2
<1>7. Cardinality(upTo(i - 1)) < n /\ Cardinality(upTo(i)) >= n
  <2> HIDE DEF upTo
  <2> QED
    BY <1>2, <1>6
<1>8. i \in kept
  <2> SUFFICES ASSUME i \notin kept PROVE FALSE
    OBVIOUS
  <2>0. \A j \in kept : j <= i <=> j <= i - 1
    BY <1>0, <1>6
  <2>1. upTo(i) = upTo(i - 1)
    BY <2>0
  <2> HIDE DEF upTo
  <2> QED
    BY <1>2, <1>6, <1>7, <2>1
<1>9. Cardinality(upTo(i)) = Cardinality(upTo(i - 1)) + 1
  <2>0. \A j \in kept : j <= i <=> (j <= i - 1 \/ j = i)
    BY <1>0, <1>6
  <2>1. upTo(i) = upTo(i - 1) \cup {i} /\ i \notin upTo(i - 1)
    BY <1>6, <1>8, <2>0
  <2> HIDE DEF upTo
  <2> QED
    BY <1>2, <1>6, <2>1, FS_AddElement
<1>10. Cardinality(upTo(i)) = n
  <2> HIDE DEF upTo
  <2> QED
    BY <1>2, <1>6, <1>7, <1>9
<1> QED
  BY <1>8, <1>10

(* What is kept of a sequence, and that nothing else is.                     *)
LEMMA KeptElements ==
  ASSUME NEW S, NEW seq \in Seq(S), NEW kept \in SUBSET DOMAIN seq
  PROVE  /\ Kept(seq, kept) \in Seq(S)
         /\ \A n \in DOMAIN Kept(seq, kept) : \E i \in kept : Kept(seq, kept)[n] = seq[i]
         /\ \A i \in kept : \E n \in DOMAIN Kept(seq, kept) : Kept(seq, kept)[n] = seq[i]
<1> DEFINE upTo(i) == {j \in kept : j <= i}
           place(n) == CHOOSE i \in kept : Cardinality(upTo(i)) = n
           l == Cardinality(kept)
<1>1. Len(seq) \in Nat /\ DOMAIN seq = 1 .. Len(seq) /\ \A i \in kept : seq[i] \in S
  OBVIOUS
<1>2. IsFiniteSet(kept) /\ l \in Nat
  <2>1. IsFiniteSet(1 .. Len(seq))
    BY <1>1, FS_Interval
  <2>2. IsFiniteSet(kept)
    BY <1>1, <2>1, FS_Subset
  <2> QED
    BY <2>2, FS_CardinalityType
<1>3. \A n \in 1 .. l : place(n) \in kept /\ Cardinality(upTo(place(n))) = n
  <2> TAKE n \in 1 .. l
  <2>1. kept \in SUBSET (1 .. Len(seq)) /\ n \in 1 .. Cardinality(kept)
    BY <1>1
  <2>2. \E i \in kept : Cardinality({j \in kept : j <= i}) = n
    BY <1>1, <2>1, PlacesAreCounted
  <2> QED
    BY <2>2
<1>4. Kept(seq, kept) = [n \in 1 .. l |-> seq[place(n)]]
  BY DEF Kept
<1>5. \A i \in kept : IsFiniteSet(upTo(i)) /\ Cardinality(upTo(i)) \in 1 .. l
  <2> TAKE i \in kept
  <2>1. upTo(i) \in SUBSET kept /\ i \in upTo(i)
    BY <1>1
  <2> HIDE DEF upTo
  <2>2. IsFiniteSet(upTo(i)) /\ Cardinality(upTo(i)) <= l
    BY <1>2, <2>1, FS_Subset
  <2>3. Cardinality(upTo(i)) \in Nat /\ Cardinality(upTo(i)) # 0
    BY <2>1, <2>2, FS_CardinalityType, FS_EmptySet
  <2> QED
    BY <1>2, <2>2, <2>3
<1>6. ASSUME NEW i \in kept, NEW k \in kept, Cardinality(upTo(i)) = Cardinality(upTo(k)), i < k
      PROVE  FALSE
  <2>1. upTo(i) \subseteq upTo(k) /\ k \in upTo(k) /\ k \notin upTo(i)
    BY <1>1, <1>6
  <2> HIDE DEF upTo
  <2>2. upTo(i) = upTo(k)
    BY <1>5, <1>6, <2>1, FS_Subset
  <2> QED
    BY <2>1, <2>2
<1>7. \A i \in kept : place(Cardinality(upTo(i))) = i
  <2> TAKE i \in kept
  <2> DEFINE k == place(Cardinality(upTo(i)))
  <2>1. k \in kept /\ Cardinality(upTo(k)) = Cardinality(upTo(i))
    BY <1>3, <1>5
  <2> HIDE DEF k, upTo, place
  <2>2. ~ (k < i) /\ ~ (i < k)
    BY <1>6, <2>1
  <2>3. k = i
    BY <1>1, <2>1, <2>2
  <2> QED
    BY <2>3 DEF k
<1> HIDE DEF place, upTo
<1>8. Kept(seq, kept) \in [1 .. l -> S]
  BY <1>1, <1>3, <1>4
<1>9. Kept(seq, kept) \in Seq(S)
  <2> HIDE DEF l
  <2>1. \A n \in Nat : \A f \in [1 .. n -> S] : f \in Seq(S)
    OBVIOUS
  <2> QED
    BY <1>2, <1>8, <2>1
<1>10. DOMAIN Kept(seq, kept) = 1 .. l /\ \A n \in 1 .. l : Kept(seq, kept)[n] = seq[place(n)]
  BY <1>4
<1> HIDE DEF l
<1>11. \A n \in DOMAIN Kept(seq, kept) : \E i \in kept : Kept(seq, kept)[n] = seq[i]
  BY <1>3, <1>10
<1>12. \A i \in kept : Kept(seq, kept)[Cardinality(upTo(i))] = seq[i]
  BY <1>5, <1>7, <1>10
<1> QED
  BY <1>5, <1>9, <1>10, <1>11, <1>12

(* A normalized path has no empty segment.                                   *)
LEMMA NormalizedPaths ==
  ASSUME NEW raw \in Names
  PROVE  /\ NormalizeUserPath(raw) \in Names
         /\ \A n \in DOMAIN NormalizeUserPath(raw) : NormalizeUserPath(raw)[n] # Blank
<1> DEFINE kept == {i \in DOMAIN raw : raw[i] # Blank}
<1>1. raw \in Seq(STRING) /\ kept \in SUBSET DOMAIN raw
  BY DEF Names
<1>2. \A i \in kept : raw[i] # Blank
  OBVIOUS
<1>3. NormalizeUserPath(raw) = Kept(raw, kept)
  BY DEF NormalizeUserPath
<1> HIDE DEF kept
<1>4. /\ Kept(raw, kept) \in Seq(STRING)
      /\ \A n \in DOMAIN Kept(raw, kept) : \E i \in kept : Kept(raw, kept)[n] = raw[i]
  BY <1>1, KeptElements
<1> QED
  BY <1>2, <1>3, <1>4 DEF Names

(* A path without empty segments is its own normal form.                     *)
LEMMA NormalPathsStay ==
  ASSUME NEW raw \in Names, \A i \in DOMAIN raw : raw[i] # Blank
  PROVE  NormalizeUserPath(raw) = raw
<1> SUFFICES ASSUME NEW m \in Nat, m = Len(raw)
             PROVE  NormalizeUserPath(raw) = raw
  <2>1. Len(raw) \in Nat
    BY DEF Names
  <2> QED
    BY <2>1
<1> DEFINE kept == {i \in DOMAIN raw : raw[i] # Blank}
           place(n) == CHOOSE i \in kept : Cardinality({j \in kept : j <= i}) = n
<1>1. NormalizeUserPath(raw) = [n \in 1 .. Cardinality(kept) |-> raw[place(n)]]
  BY DEF NormalizeUserPath, Kept
<1>2. DOMAIN raw = 1 .. m /\ raw = [n \in 1 .. m |-> raw[n]]
  BY DEF Names
<1>3. kept = 1 .. m
  BY <1>2
<1> HIDE DEF kept
<1>4. \A i \in 0 .. m : Cardinality(1 .. i) = i
  BY FS_Interval
<1>5. \A i \in kept : Cardinality({j \in kept : j <= i}) = i
  <2> TAKE i \in kept
  <2>1. \A j : (j \in kept /\ j <= i) <=> j \in 1 .. i
    BY <1>3
  <2>2. {j \in kept : j <= i} = 1 .. i
    BY <2>1
  <2>3. i \in 0 .. m
    BY <1>3
  <2> QED
    BY <1>4, <2>2, <2>3
<1>6. \A n \in 1 .. m : place(n) = n
  BY <1>3, <1>5
<1>7. m \in 0 .. m
  OBVIOUS
<1>8. Cardinality(kept) = m
  BY <1>3, <1>4, <1>7
<1> HIDE DEF place
<1> QED
  BY <1>1, <1>2, <1>6, <1>8

(* The paths of a row, normalized, stay as they are.                         *)
LEMMA PathsSettle ==
  ASSUME NEW paths \in SUBSET Names
  PROVE  LET new == {NormalizeUserPath(p) : p \in paths} IN
         new \in SUBSET Names /\ new = {NormalizeUserPath(p) : p \in new}
<1>1. \A p \in Names : NormalizeUserPath(p) \in Names
  BY NormalizedPaths
<1>2. \A p \in Names : NormalizeUserPath(NormalizeUserPath(p)) = NormalizeUserPath(p)
  BY NormalizedPaths, NormalPathsStay
<1> QED
  BY <1>1, <1>2

(* The scope of a policy is one.                                             *)
LEMMA PolicyScopes ==
  ASSUME NEW source \in Names, NEW providers
  PROVE  PolicyScope(source, providers) \in Scopes
<1>1. <<>> \in Names
  BY DEF Names
<1>2. Len(source) >= 2 => source[1] \in STRING /\ Tail(source) \in Names
  BY DEF Names
<1> QED
  BY <1>1, <1>2 DEF PolicyScope, Scopes

(* Two rows are one if their parts are.                                      *)
LEMMA RowsAreTheirParts ==
  ASSUME NEW row \in Rows, NEW other \in Rows,
         row.source = other.source, row.targets = other.targets, row.strategy = other.strategy,
         row.enabled = other.enabled, row.paths = other.paths, row.scope = other.scope
  PROVE  row = other
BY DEF Rows

(* Normalizing keeps the source and the kind of a row.                       *)
LEMMA NormalizedRow ==
  ASSUME NEW row \in Rows
  PROVE  /\ normalizeRow(row) \in Rows
         /\ normalizeRow(row).source = row.source
         /\ normalizeRow(row).targets = row.targets
         /\ normalizeRow(row).strategy = row.strategy
         /\ normalizeRow(row).enabled = row.enabled
         /\ normalizeRow(row).paths = {NormalizeUserPath(p) : p \in row.paths}
         /\ normalizeRow(row).scope = IF IsRedirect(row) THEN None ELSE NormalizeStored(row)
<1> DEFINE paths == {NormalizeUserPath(p) : p \in row.paths}
           scope == IF IsRedirect(row) THEN None ELSE NormalizeStored(row)
<1>1. row.paths \in SUBSET Names /\ row.source \in Names /\ row.scope \in {None} \cup Scopes
  BY DEF Rows
<1>2. paths \in SUBSET Names
  BY <1>1, PathsSettle
<1>3. scope \in {None} \cup Scopes
  BY <1>1, PolicyScopes DEF NormalizeStored
<1>4. normalizeRow(row) = [row EXCEPT !.paths = paths, !.scope = scope]
  BY DEF normalizeRow
<1> HIDE DEF paths, scope
<1>5. /\ normalizeRow(row) \in Rows /\ normalizeRow(row).source = row.source
      /\ normalizeRow(row).targets = row.targets /\ normalizeRow(row).strategy = row.strategy
      /\ normalizeRow(row).enabled = row.enabled
      /\ normalizeRow(row).paths = paths /\ normalizeRow(row).scope = scope
  BY <1>2, <1>3, <1>4 DEF Rows
<1> QED
  BY <1>5 DEF paths, scope

(* Normalizing a second time changes nothing.                                *)
LEMMA NormalRowsStay ==
  ASSUME NEW row \in Rows,
         IsRedirect(row) => row.scope = None,
         row.paths = {NormalizeUserPath(p) : p \in row.paths},
         ~ IsRedirect(row) => row.scope # None
  PROVE  Settled(row)
<1>1. normalizeRow(row).scope = row.scope
  BY NormalizedRow DEF NormalizeStored
<1>2. normalizeRow(row) = row
  BY <1>1, NormalizedRow, RowsAreTheirParts
<1> QED
  BY <1>2 DEF Settled

(* What a client writes is settled: the policy's scope is worked out first.  *)
LEMMA WritesAreSettled ==
  ASSUME NEW draft \in Drafts
  PROVE  Settled(normalizeForUpsert(draft)) /\ normalizeForUpsert(draft).source = draft.source
<1> PICK row \in Rows : row = draft
  BY VMAssumption
<1>1. row.source \in Names /\ row.paths \in SUBSET Names /\ NormalizeInput(row.source) \in Scopes
  BY PolicyScopes DEF Rows, NormalizeInput
<1> DEFINE scoped == [row EXCEPT !.scope = NormalizeInput(row.source)]
           input == IF IsRedirect(row) THEN row ELSE scoped
<1>2. /\ scoped \in Rows /\ scoped.source = row.source /\ scoped.targets = row.targets
      /\ scoped.paths = row.paths /\ scoped.scope = NormalizeInput(row.source)
  BY <1>1 DEF Rows
<1>3. /\ input \in Rows /\ input.source = row.source /\ input.targets = row.targets
      /\ input.paths = row.paths /\ (~ IsRedirect(row) => input.scope \in Scopes)
  BY <1>1, <1>2
<1>4. normalizeForUpsert(draft) = normalizeRow(input)
  BY DEF normalizeForUpsert
<1> HIDE DEF scoped, input
<1> DEFINE new == normalizeRow(input)
<1>5. /\ new \in Rows /\ new.source = row.source /\ new.targets = row.targets
      /\ new.paths = {NormalizeUserPath(p) : p \in row.paths}
      /\ new.scope = IF IsRedirect(input) THEN None ELSE NormalizeStored(input)
  <2>1. /\ new \in Rows /\ new.source = input.source /\ new.targets = input.targets
        /\ new.scope = IF IsRedirect(input) THEN None ELSE NormalizeStored(input)
    BY <1>3, NormalizedRow
  <2>2. new.paths = {NormalizeUserPath(p) : p \in input.paths}
    BY <1>3, NormalizedRow
  <2> HIDE DEF new
  <2> QED
    BY <1>3, <2>1, <2>2
<1>6. new.paths = {NormalizeUserPath(p) : p \in new.paths}
  BY <1>1, <1>5, PathsSettle
<1>7. (IsRedirect(new) <=> IsRedirect(row)) /\ (IsRedirect(input) <=> IsRedirect(row))
  BY <1>3, <1>5 DEF IsRedirect
<1>8. ~ IsRedirect(row) => new.scope \in Scopes
  <2>1. ~ IsRedirect(row) => new.scope = NormalizeStored(input) /\ input.scope \in Scopes
    BY <1>3, <1>5, <1>7
  <2>2. input.scope \in Scopes => NormalizeStored(input) = input.scope
    BY VMAssumption DEF NormalizeStored
  <2> HIDE DEF new
  <2> QED
    BY <2>1, <2>2
<1>9. Settled(new)
  <2> HIDE DEF new
  <2> QED
    BY <1>5, <1>6, <1>7, <1>8, VMAssumption, NormalRowsStay
<1> QED
  BY <1>4, <1>5, <1>9

(* A held row is the only one of its source in the store, and what is served *)
(* from it.                                                                  *)
LEMMA ServedFromStore ==
  ASSUME RowsAreSettled, snapshot = buildSnapshot(mergeConfigModels(store)),
         NEW source, ~ isManagedSource(source)
  PROVE  lookupCanonicalSource(snapshot, source) = {row \in store : row.source = source}
<1>1. \A row \in snapshot : row.source = source => row \in store
  <2> TAKE row \in snapshot
  <2> HAVE row.source = source
  <2>1. PICK r \in mergeConfigModels(store) : row = normalizeRow(r)
    BY DEF buildSnapshot
  <2>2. r \in Rows
    BY <2>1, VMAssumption DEF mergeConfigModels, RowsAreSettled, Settled
  <2>3. r.source = source
    BY <2>1, <2>2, NormalizedRow
  <2>4. r \in store
    BY <2>1, <2>3 DEF mergeConfigModels, isManagedSource, Has
  <2> QED
    BY <2>1, <2>4 DEF RowsAreSettled, Settled
<1>2. \A row \in store : row.source = source => row \in snapshot
  <2> TAKE row \in store
  <2>1. normalizeRow(row) = row /\ row \in mergeConfigModels(store)
    BY DEF mergeConfigModels, RowsAreSettled, Settled
  <2> QED
    BY <2>1 DEF buildSnapshot
<1>3. Has(snapshot, source) =>
        RowAt(snapshot, source) \in snapshot /\ RowAt(snapshot, source).source = source
  BY DEF Has, RowAt
<1>4. CASE Has(snapshot, source)
  <2>1. lookupCanonicalSource(snapshot, source) = {RowAt(snapshot, source)}
    BY <1>4 DEF lookupCanonicalSource
  <2>2. RowAt(snapshot, source) \in store
    BY <1>1, <1>3, <1>4
  <2> QED
    BY <1>3, <1>4, <2>1, <2>2 DEF RowsAreSettled
<1>5. CASE ~ Has(snapshot, source)
  <2>1. lookupCanonicalSource(snapshot, source) = {}
    BY <1>5 DEF lookupCanonicalSource
  <2> QED
    BY <1>2, <1>5, <2>1 DEF Has
<1> QED
  BY <1>4, <1>5

(* What is looked up is settled.                                             *)
LEMMA LookedUp ==
  ASSUME RowsAreSettled, NEW source, ~ isManagedSource(source)
  PROVE  /\ lookupCanonicalSource(snapshot, source) \in SUBSET Rows
         /\ \A row \in lookupCanonicalSource(snapshot, source) : Settled(row) /\ row.source = source
         /\ \A row, other \in lookupCanonicalSource(snapshot, source) : row = other
<1>1. Has(snapshot, source) =>
        RowAt(snapshot, source) \in snapshot /\ RowAt(snapshot, source).source = source
  BY DEF Has, RowAt
<1>2. Has(snapshot, source) => Settled(RowAt(snapshot, source))
  BY <1>1 DEF RowsAreSettled
<1>3. \A row \in lookupCanonicalSource(snapshot, source) :
        row = RowAt(snapshot, source) /\ Has(snapshot, source)
  BY DEF lookupCanonicalSource
<1> QED
  BY <1>1, <1>2, <1>3 DEF Settled

(* New serves the configuration's rows.                                      *)
LEMMA VMBegins == VMInit => VMIInv
<1> SUFFICES ASSUME VMInit PROVE VMIInv
  OBVIOUS
<1> USE DEF VMInit
<1>1. op.stage = "free" /\ op.prior = <<>> /\ DOMAIN op.prior = {}
  BY DEF Free
<1>2. HeldRows
  <2>1. op \in [stage : {"free", "refresh", "delete", "restore"}, prior : {op.prior}]
    BY DEF Free
  <2>2. op.prior \in [DOMAIN op.prior -> SUBSET Rows]
    BY <1>1
  <2> QED
    BY <1>1, <2>1, <2>2 DEF HeldRows
<1>3. \A row \in snapshot : row \in Rows /\ isManagedSource(row.source)
  <2> TAKE row \in snapshot
  <2>1. PICK r \in ConfigRows : row = normalizeRow(r)
    BY DEF buildSnapshot, mergeConfigModels
  <2>2. r \in Rows /\ normalizeRow(r).source = r.source /\ normalizeRow(r) \in Rows
    BY VMAssumption, NormalizedRow
  <2> QED
    BY <2>1, <2>2 DEF isManagedSource, Has
<1>4. RowsAreSettled
  BY <1>3 DEF RowsAreSettled
<1>5. Undone = {}
  BY <1>1 DEF Undone
<1>6. UndoIsSnapshot
  BY <1>5 DEF UndoIsSnapshot
<1> QED
  BY <1>2, <1>4, <1>6 DEF VMIInv

(* A first write, with what was served of the sources it touches kept.       *)
LEMMA WriteKeeps ==
  ASSUME VMIInv, op = Free, NEW touched, NEW stage \in {"refresh", "delete"},
         \A s \in touched : ~ isManagedSource(s),
         Holding(stage, [s \in touched |-> PriorRow(s)]),
         {row \in store' : row.source \notin touched} = {row \in store : row.source \notin touched},
         \A row \in store' : Settled(row) /\ ~ isManagedSource(row.source),
         \A row, other \in store' : row.source = other.source => row = other,
         UNCHANGED <<snapshot, strayed>>
  PROVE  VMIInv'
<1> USE DEF VMIInv
<1>1. RowsAreSettled'
  BY DEF RowsAreSettled
<1> DEFINE prior == [s \in touched |-> PriorRow(s)]
<1>2. op'.stage = stage /\ op'.prior = prior /\ op' = [stage |-> stage, prior |-> prior]
  BY DEF Holding
<1>3. \A s \in touched : prior[s] = lookupCanonicalSource(snapshot, s)
  BY DEF PriorRow
<1>4. DOMAIN prior = touched /\ prior \in [touched -> SUBSET Rows]
  <2>1. \A s \in touched : PriorRow(s) \in SUBSET Rows
    BY LookedUp DEF PriorRow
  <2> QED
    BY <2>1
<1> HIDE DEF prior
<1>5. HeldRows'
  <2>1. op' \in [stage : {"free", "refresh", "delete", "restore"}, prior : {op'.prior}]
    BY <1>2
  <2>2. op'.stage # "free" /\ op' # Free
    BY <1>2 DEF Free
  <2> QED
    BY <1>2, <1>3, <1>4, <2>1, <2>2 DEF HeldRows
<1>6. UndoIsSnapshot'
  <2> SUFFICES ASSUME ~ strayed PROVE snapshot = buildSnapshot(mergeConfigModels(Undone'))
    BY DEF UndoIsSnapshot
  <2>1. Undone = store
    BY DEF Undone, Free
  <2>2. snapshot = buildSnapshot(mergeConfigModels(store))
    BY <2>1 DEF UndoIsSnapshot
  <2>3. \A s \in touched : prior[s] = {row \in store : row.source = s}
    BY <1>3, <2>2, ServedFromStore
  <2>4. Undone' = {row \in store : row.source \notin touched} \cup UNION {prior[s] : s \in touched}
    BY <1>2, <1>4 DEF Undone
  <2>5. Undone' = store
    BY <2>3, <2>4
  <2> QED
    BY <2>2, <2>5
<1> QED
  BY <1>1, <1>5, <1>6

(* The writes of a row.                                                      *)
LEMMA WritesKeep ==
  ASSUME VMIInv, NEW draft \in Drafts, NEW source,
         Upsert(draft) \/ Rename(source, draft)
  PROVE  VMIInv'
<1> USE DEF VMIInv
<1> DEFINE row == normalizeForUpsert(draft)
<1>1. Settled(row) /\ row.source = draft.source
  BY WritesAreSettled
<1> HIDE DEF row
<1>2. ASSUME store' = upsertRow(store, row), ~ isManagedSource(row.source)
      PROVE  /\ \A touched : row.source \in touched =>
                  {r \in store' : r.source \notin touched} = {r \in store : r.source \notin touched}
             /\ \A r \in store' : Settled(r) /\ ~ isManagedSource(r.source)
             /\ \A r, other \in store' : r.source = other.source => r = other
  BY <1>1, <1>2 DEF upsertRow, Without, RowsAreSettled
<1>3. CASE Upsert(draft)
  <2>1. /\ op = Free /\ ~ isManagedSource(row.source) /\ store' = upsertRow(store, row)
        /\ Holding("refresh", [s \in {row.source} |-> PriorRow(s)])
        /\ UNCHANGED <<snapshot, strayed>>
    BY <1>1, <1>3 DEF Upsert, row
  <2> QED
    BY <1>2, <2>1, WriteKeeps
<1>4. CASE Rename(source, draft)
  <2>1. /\ op = Free /\ ~ isManagedSource(row.source) /\ ~ isManagedSource(source)
        /\ store' = upsertRow(store, row)
        /\ Holding("delete", [s \in {row.source, source} |-> PriorRow(s)])
        /\ UNCHANGED <<snapshot, strayed>>
    BY <1>1, <1>4 DEF Rename, row
  <2> QED
    BY <1>2, <2>1, WriteKeeps
<1> QED
  BY <1>3, <1>4

(* A deletion.                                                               *)
LEMMA DeletionKeeps ==
  ASSUME VMIInv, NEW source, Delete(source)
  PROVE  VMIInv'
<1>1. /\ op = Free /\ ~ isManagedSource(source) /\ store' = Without(store, source)
      /\ Holding("refresh", [s \in {source} |-> PriorRow(s)])
      /\ UNCHANGED <<snapshot, strayed>>
  BY DEF Delete
<1>2. /\ {r \in store' : r.source \notin {source}} = {r \in store : r.source \notin {source}}
      /\ \A r \in store' : Settled(r) /\ ~ isManagedSource(r.source)
      /\ \A r, other \in store' : r.source = other.source => r = other
  BY <1>1 DEF Without, VMIInv, RowsAreSettled
<1> QED
  BY <1>1, <1>2, WriteKeeps

(* The second write of a rename.                                             *)
LEMMA RenameKeeps ==
  ASSUME VMIInv, RenameDeletesOld
  PROVE  VMIInv'
<1> USE DEF VMIInv
<1>1. PICK stage \in {"refresh", "restore"}, old \in DOMAIN op.prior :
        /\ Holding(stage, op.prior)
        /\ store' = Without(store, old) \/ store' = store
  BY DEF RenameDeletesOld
<1>2. UNCHANGED <<snapshot, strayed>>
  BY DEF RenameDeletesOld
<1>3. op' = [stage |-> stage, prior |-> op.prior] /\ op'.stage = stage /\ op'.prior = op.prior
  BY <1>1 DEF Holding
<1>4. RowsAreSettled'
  BY <1>1, <1>2 DEF RowsAreSettled, Without
<1>5. HeldRows'
  <2>1. op' \in [stage : {"free", "refresh", "delete", "restore"}, prior : {op'.prior}]
    BY <1>1, <1>3
  <2>2. op'.stage # "free" /\ op' # Free
    BY <1>1, <1>3 DEF Free
  <2> QED
    BY <1>2, <1>3, <2>1, <2>2 DEF HeldRows
<1>6. Undone' = Undone
  BY <1>1, <1>3 DEF Undone, Without
<1>7. UndoIsSnapshot'
  BY <1>2, <1>6 DEF UndoIsSnapshot
<1> QED
  BY <1>4, <1>5, <1>7

(* A refresh, of its own or at the end of an operation.                      *)
LEMMA RefreshKeeps ==
  ASSUME VMIInv, Refresh \/ CommitSucceeds
  PROVE  VMIInv'
<1> USE DEF VMIInv
<1>1. /\ store' = store /\ op' = Free
      /\ snapshot' = buildSnapshot(mergeConfigModels(store))
  BY DEF Refresh, CommitSucceeds, refreshLocked
<1>2. op'.stage = "free" /\ op'.prior = <<>> /\ DOMAIN op'.prior = {}
  BY <1>1 DEF Free
<1>3. HeldRows'
  <2>1. op' \in [stage : {"free", "refresh", "delete", "restore"}, prior : {op'.prior}]
    BY <1>1 DEF Free
  <2>2. op'.prior \in [DOMAIN op'.prior -> SUBSET Rows]
    BY <1>2
  <2> QED
    BY <1>1, <1>2, <2>1, <2>2 DEF HeldRows
<1>4. \A row \in snapshot' : row \in Rows /\ (~ isManagedSource(row.source) => Settled(row))
  <2> TAKE row \in snapshot'
  <2>1. PICK r \in mergeConfigModels(store) : row = normalizeRow(r)
    BY <1>1 DEF buildSnapshot
  <2>2. r \in Rows
    BY <2>1, VMAssumption DEF mergeConfigModels, RowsAreSettled, Settled
  <2>3. row \in Rows /\ row.source = r.source
    BY <2>1, <2>2, NormalizedRow
  <2>4. ~ isManagedSource(r.source) => r \in store
    BY <2>1 DEF mergeConfigModels, isManagedSource, Has
  <2>5. r \in store => row = r /\ Settled(r)
    BY <2>1 DEF RowsAreSettled, Settled
  <2> QED
    BY <2>3, <2>4, <2>5
<1>5. RowsAreSettled'
  BY <1>1, <1>4 DEF RowsAreSettled
<1>6. Undone' = store
  BY <1>1, <1>2 DEF Undone
<1>7. UndoIsSnapshot'
  BY <1>1, <1>6 DEF UndoIsSnapshot
<1> QED
  BY <1>3, <1>5, <1>7

(* The rollback: a source after the other.                                   *)
LEMMA RestoreKeeps ==
  ASSUME VMIInv, CommitFails \/ Restore
  PROVE  VMIInv'
<1> USE DEF VMIInv
<1>1. CASE CommitFails
  <2>1. /\ op' = [stage |-> "restore", prior |-> op.prior] /\ op'.prior = op.prior
        /\ op'.stage = "restore"
        /\ UNCHANGED <<store, snapshot, strayed>>
    BY <1>1 DEF CommitFails, Holding
  <2>2. RowsAreSettled'
    BY <2>1 DEF RowsAreSettled
  <2>3. op' # Free
    BY <2>1 DEF Free
  <2>4. HeldRows'
    BY <2>1, <2>3 DEF HeldRows
  <2>5. Undone' = Undone
    BY <2>1 DEF Undone
  <2>6. UndoIsSnapshot'
    BY <2>1, <2>5 DEF UndoIsSnapshot
  <2> QED
    BY <2>2, <2>4, <2>6
<1>2. CASE Restore
  <2>1. PICK source \in DOMAIN op.prior :
          /\ op' = IF DOMAIN op.prior = {source} THEN Free
                   ELSE [op EXCEPT !.prior = Restrict(@, DOMAIN @ \ {source})]
          /\ \/ store' = Without(store, source) \cup op.prior[source] /\ UNCHANGED strayed
             \/ strayed' = TRUE /\ UNCHANGED store
    BY <1>2 DEF Restore
  <2>2. UNCHANGED snapshot /\ op.stage = "restore"
    BY <1>2 DEF Restore
  <2> DEFINE left == DOMAIN op.prior \ {source}
             prior == [s \in left |-> op.prior[s]]
  <2>3. /\ op'.prior \in [left -> SUBSET Rows] /\ DOMAIN op'.prior = left
        /\ \A s \in left : op'.prior[s] = op.prior[s]
        /\ op' \in [stage : {"free", "refresh", "delete", "restore"}, prior : {op'.prior}]
        /\ op'.stage = "free" <=> op' = Free
    <3>1. CASE DOMAIN op.prior = {source}
      <4>1. op' = Free /\ left = {} /\ op'.prior = <<>>
        BY <2>1, <3>1 DEF Free
      <4> HIDE DEF left
      <4>2. op'.prior \in [left -> SUBSET Rows] /\ DOMAIN op'.prior = left
        BY <4>1
      <4>3. op' \in [stage : {"free", "refresh", "delete", "restore"}, prior : {op'.prior}]
            /\ op'.stage = "free"
        BY <4>1 DEF Free
      <4> QED
        BY <4>1, <4>2, <4>3
    <3>2. CASE DOMAIN op.prior # {source}
      <4>1. op' = [op EXCEPT !.prior = prior]
        BY <2>1, <3>2 DEF Restrict
      <4>2. prior \in [left -> SUBSET Rows] /\ DOMAIN prior = left
            /\ \A s \in left : prior[s] = op.prior[s]
        BY DEF HeldRows
      <4> HIDE DEF left, prior
      <4>3. op' \in [stage : {"free", "refresh", "delete", "restore"}, prior : {prior}]
            /\ op'.prior = prior /\ op'.stage = op.stage
        BY <4>1 DEF HeldRows
      <4>4. op' # Free
        BY <2>2, <4>3 DEF Free
      <4> QED
        BY <2>2, <4>2, <4>3, <4>4
    <3> QED
      BY <3>1, <3>2
  <2>4. /\ ~ isManagedSource(source) /\ op.prior[source] \in SUBSET Rows
        /\ \A row \in op.prior[source] : Settled(row) /\ row.source = source
        /\ \A row, other \in op.prior[source] : row = other
    BY LookedUp DEF HeldRows
  <2>5. RowsAreSettled'
    BY <2>1, <2>2, <2>4 DEF RowsAreSettled, Without
  <2>6. HeldRows'
    BY <2>2, <2>3 DEF HeldRows
  <2>7. UndoIsSnapshot'
    <3> SUFFICES ASSUME ~ strayed' PROVE snapshot = buildSnapshot(mergeConfigModels(Undone'))
      BY <2>2 DEF UndoIsSnapshot
    <3>1. store' = Without(store, source) \cup op.prior[source] /\ ~ strayed
      BY <2>1
    <3>2. Undone' = {row \in store' : row.source \notin left} \cup UNION {op.prior[s] : s \in left}
      BY <2>3 DEF Undone
    <3>3. Undone' = Undone
      BY <2>4, <3>1, <3>2 DEF Undone, Without
    <3> QED
      BY <3>1, <3>3 DEF UndoIsSnapshot
  <2> QED
    BY <2>5, <2>6, <2>7
<1> QED
  BY <1>1, <1>2

(* The invariant of the virtual models, whatever store call fails.           *)
THEOREM VMInvariance == VMSpec => []VMIInv
<1>1. VMIInv /\ [VMNext]_vmVars => VMIInv'
  <2> SUFFICES ASSUME VMIInv, [VMNext]_vmVars PROVE VMIInv'
    OBVIOUS
  <2>1. ASSUME UNCHANGED <<store, snapshot, op, strayed>> PROVE VMIInv'
    <3>1. RowsAreSettled' /\ HeldRows'
      BY <2>1 DEF VMIInv, RowsAreSettled, HeldRows
    <3>2. Undone' = Undone
      BY <2>1 DEF Undone
    <3>3. UndoIsSnapshot'
      BY <2>1, <3>2 DEF VMIInv, UndoIsSnapshot
    <3> QED
      BY <3>1, <3>3 DEF VMIInv
  <2>2. CASE UNCHANGED vmVars
    BY <2>1, <2>2 DEF vmVars
  <2>3. ASSUME NEW draft \in Drafts, NEW old \in Sources, Upsert(draft) \/ Rename(old, draft)
        PROVE  VMIInv'
    BY <2>3, WritesKeep
  <2>4. ASSUME NEW draft \in Drafts, Upsert(draft) PROVE VMIInv'
    BY <2>4, WritesKeep
  <2>5. ASSUME NEW source \in Sources, Delete(source) PROVE VMIInv'
    BY <2>5, DeletionKeeps
  <2>6. CASE RenameDeletesOld \/ Refresh \/ CommitSucceeds \/ CommitFails \/ Restore
    BY <2>6, RenameKeeps, RefreshKeeps, RestoreKeeps
  <2>7. ASSUME NEW name, NEW path, Resolve(name, path) PROVE VMIInv'
    BY <2>1, <2>7 DEF Resolve
  <2>8. ASSUME NEW name, CatalogChanges(name) PROVE VMIInv'
    BY <2>1, <2>8 DEF CatalogChanges
  <2> QED
    BY <2>2, <2>3, <2>4, <2>5, <2>6, <2>7, <2>8 DEF VMNext
<1> QED
  BY <1>1, VMBegins, PTL DEF VMSpec

(* A write whose refresh failed is undone completely: SnapshotFollowsStore   *)
(* (service.go, commitRefresh and restore), for any rows and any order of    *)
(* the rollback.                                                             *)
THEOREM FailedWritesAreUndone == VMSpec => []SnapshotFollowsStore
<1>1. VMIInv => SnapshotFollowsStore
  <2> SUFFICES ASSUME VMIInv, op = Free, ~ strayed
               PROVE  snapshot = buildSnapshot(mergeConfigModels(store))
    BY DEF SnapshotFollowsStore
  <2>1. DOMAIN op.prior = {}
    BY DEF Free
  <2>2. Undone = store
    BY <2>1 DEF Undone
  <2> QED
    BY <2>2 DEF VMIInv, UndoIsSnapshot
<1> QED
  BY <1>1, VMInvariance, PTL

-----------------------------------------------------------------------------
(* Numbers modulo the sum of the weights.                                    *)

LEMMA Times ==
  ASSUME NEW T \in Nat, NEW k \in Int, k >= 1
  PROVE  T * k >= T
<1>1. k - 1 \in Nat /\ k = 1 + (k - 1)
  OBVIOUS
<1>2. T * (k - 1) >= 0
  BY <1>1
<1>3. T * k = T + T * (k - 1)
  BY <1>1
<1> QED
  BY <1>2, <1>3

LEMMA DivisionAndRest ==
  ASSUME NEW T \in Int, T > 0, NEW n \in Int
  PROVE  n % T = n - T * (n \div T)
BY SMT

LEMMA RestIsItself ==
  ASSUME NEW T \in Int, T > 0, NEW a \in Int, NEW s \in 0 .. T - 1
  PROVE  (T * a + s) % T = s
BY SMT

(* T numbers in a row have every rest once.                                  *)
LEMMA EveryRestOnce ==
  ASSUME NEW T \in Nat \ {0}, NEW start \in Nat
  PROVE  /\ \A n, m \in start .. start + T - 1 : n % T = m % T => n = m
         /\ \A s \in 0 .. T - 1 : \E n \in start .. start + T - 1 : n % T = s
<1>0. T \in Int /\ T > 0
  OBVIOUS
<1>1. ASSUME NEW n \in start .. start + T - 1, NEW m \in start .. start + T - 1,
             n % T = m % T, n < m
      PROVE  FALSE
  <2> DEFINE a == n \div T
             b == m \div T
             r == n % T
  <2>1. a \in Int /\ b \in Int /\ r \in Int /\ n \in Int /\ m \in Int
    BY <1>0
  <2>2. n % T = n - T * a /\ m % T = m - T * b
    BY <1>0, <2>1, DivisionAndRest
  <2>3. r = n - T * a /\ r = m - T * b
    BY <1>1, <2>2
  <2> HIDE DEF a, b, r
  <2>4. T * a \in Int /\ T * b \in Int /\ T * b - T * a = m - n
    BY <2>1, <2>3
  <2>5. m - n < T /\ m - n > 0
    BY <1>1
  <2>6. T * (b - a) = T * b - T * a
    BY <2>1
  <2>7. b - a >= 1
    <3> SUFFICES ASSUME b - a <= 0 PROVE FALSE
      BY <2>1
    <3> DEFINE x == T * (b - a)
               y == T * (a - b)
    <3>1. x \in Int /\ y \in Int /\ y >= 0 /\ x = - y
      BY <2>1
    <3>2. x > 0
      BY <2>4, <2>5, <2>6
    <3> HIDE DEF x, y
    <3> QED
      BY <3>1, <3>2
  <2>8. T * (b - a) >= T
    BY <2>1, <2>7, Times
  <2> QED
    BY <2>4, <2>5, <2>6, <2>8
<1>2. ASSUME NEW s \in 0 .. T - 1 PROVE \E n \in start .. start + T - 1 : n % T = s
  <2> DEFINE q == start \div T
             r == start % T
  <2>1. q \in Int /\ r \in 0 .. T - 1
    BY <1>0
  <2>2. r = start - T * q
    BY <1>0, DivisionAndRest
  <2> HIDE DEF q, r
  <2>3. T * q \in Int /\ start = T * q + r /\ T * (q + 1) = T * q + T /\ q + 1 \in Int
    BY <2>1, <2>2
  <2>4. (T * q + s) % T = s /\ (T * (q + 1) + s) % T = s
    BY <1>0, <2>1, <2>3, RestIsItself
  <2>5. CASE s >= r
    <3>1. T * q + s \in start .. start + T - 1
      BY <2>1, <2>3, <2>5
    <3> QED
      BY <2>4, <3>1
  <2>6. CASE s < r
    <3>1. T * (q + 1) + s \in start .. start + T - 1
      BY <2>1, <2>3, <2>6
    <3> QED
      BY <2>4, <3>1
  <2> QED
    BY <2>1, <2>5, <2>6
<1>3. \A n, m \in start .. start + T - 1 : n < m \/ m < n \/ n = m
  OBVIOUS
<1> QED
  BY <1>1, <1>2, <1>3

(* Every target has a slot at least.                                         *)
LEMMA SharesArePositive ==
  ASSUME NEW targets \in Seq(RowTargets), NEW i \in DOMAIN targets
  PROVE  Share(targets, i) \in Nat \ {0}
<1>0. targets[i] \in RowTargets
  OBVIOUS
<1>1. targets[i].weight \in Int
  BY <1>0 DEF RowTargets
<1>2. \A weight \in Int : normalizeWeight(weight) \in Nat \ {0}
  BY DEF normalizeWeight
<1> QED
  BY <1>1, <1>2 DEF Share

(* The slots of the first n targets are those of the first n - 1 and its own.*)
LEMMA SharesAddUp ==
  ASSUME NEW targets \in Seq(RowTargets)
  PROVE  /\ ShareUpTo(targets, 0) = 0
         /\ \A n \in 0 .. Len(targets) : ShareUpTo(targets, n) \in Nat
         /\ \A n \in 1 .. Len(targets) :
              ShareUpTo(targets, n) = ShareUpTo(targets, n - 1) + Share(targets, n)
         /\ \A n, m \in 0 .. Len(targets) :
              n <= m => ShareUpTo(targets, n) <= ShareUpTo(targets, m)
<1> DEFINE l == Len(targets)
           own(i) == {i} \X (1 .. Share(targets, i))
<1>1. l \in Nat /\ DOMAIN targets = 1 .. l
  OBVIOUS
<1>2. \A i \in 1 .. l : IsFiniteSet(own(i)) /\ Cardinality(own(i)) = Share(targets, i)
  <2> TAKE i \in 1 .. l
  <2> DEFINE w == Share(targets, i)
  <2>1. w \in Nat /\ w >= 1
    BY <1>1, SharesArePositive
  <2> HIDE DEF w
  <2>2. IsFiniteSet(1 .. w) /\ Cardinality(1 .. w) = w
    BY <2>1, FS_Interval
  <2>3. IsFiniteSet({i}) /\ Cardinality({i}) = 1
    BY FS_Singleton
  <2>4. IsFiniteSet({i} \X (1 .. w)) /\ Cardinality({i} \X (1 .. w)) = Cardinality({i}) * Cardinality(1 .. w)
    BY <2>2, <2>3, FS_Product
  <2> QED
    BY <2>1, <2>2, <2>3, <2>4 DEF w
<1>3. \A n \in 0 .. l : IsFiniteSet(Slots(targets, n)) /\ ShareUpTo(targets, n) \in Nat
  <2> TAKE n \in 0 .. l
  <2> DEFINE each == {own(i) : i \in 1 .. n}
             slotsOf == [i \in 1 .. n |-> own(i)]
  <2>1. Slots(targets, n) = UNION each
    BY DEF Slots
  <2>2. slotsOf \in Surjection(1 .. n, each)
    BY DEF Surjection
  <2>3. IsFiniteSet(1 .. n)
    BY <1>1, FS_Interval
  <2>4. \A B \in each : IsFiniteSet(B)
    BY <1>1, <1>2
  <2> HIDE DEF each, slotsOf
  <2>5. IsFiniteSet(each)
    BY <2>2, <2>3, FS_Surjection
  <2>6. IsFiniteSet(UNION each)
    BY <2>4, <2>5, FS_UNION
  <2> QED
    BY <2>1, <2>6, FS_CardinalityType DEF ShareUpTo
<1>4. ShareUpTo(targets, 0) = 0
  <2>1. Slots(targets, 0) = {}
    BY DEF Slots
  <2> QED
    BY <2>1, FS_EmptySet DEF ShareUpTo
<1>5. \A n \in 1 .. l : ShareUpTo(targets, n) = ShareUpTo(targets, n - 1) + Share(targets, n)
  <2> TAKE n \in 1 .. l
  <2>0. n - 1 \in 0 .. l /\ n \in 0 .. l
    BY <1>1
  <2>1. \A i : i \in 1 .. n <=> (i \in 1 .. n - 1 \/ i = n)
    BY <1>1
  <2>2. Slots(targets, n) = Slots(targets, n - 1) \cup own(n)
    BY <2>1 DEF Slots
  <2>3. Slots(targets, n - 1) \cap own(n) = {}
    BY <1>1 DEF Slots
  <2>4. IsFiniteSet(Slots(targets, n - 1)) /\ IsFiniteSet(own(n)) /\ Cardinality(own(n)) = Share(targets, n)
    BY <1>2, <1>3, <2>0
  <2> HIDE DEF own
  <2>5. Cardinality(Slots(targets, n - 1) \cup own(n))
          = Cardinality(Slots(targets, n - 1)) + Cardinality(own(n)) - Cardinality({})
    BY <2>3, <2>4, FS_Union
  <2>6. Cardinality({}) = 0
    BY FS_EmptySet
  <2>7. Share(targets, n) \in Nat /\ ShareUpTo(targets, n - 1) \in Nat
    BY <1>1, <1>3, <2>0, SharesArePositive
  <2>8. ShareUpTo(targets, n) = ShareUpTo(targets, n - 1) + Share(targets, n) - 0
    BY <2>2, <2>4, <2>5, <2>6 DEF ShareUpTo
  <2> QED
    BY <2>7, <2>8
<1>6. \A n, m \in 0 .. l : n <= m => ShareUpTo(targets, n) <= ShareUpTo(targets, m)
  <2> TAKE n, m \in 0 .. l
  <2> HAVE n <= m
  <2>1. \A i : i \in 1 .. n => i \in 1 .. m
    BY <1>1
  <2>2. Slots(targets, n) \subseteq Slots(targets, m)
    BY <2>1 DEF Slots
  <2> QED
    BY <1>3, <2>2, FS_Subset DEF ShareUpTo
<1> QED
  BY <1>3, <1>4, <1>5, <1>6

(* The target of a slot is the one whose stretch of slots it lies in.        *)
LEMMA SlotsHaveTargets ==
  ASSUME NEW targets \in Seq(RowTargets), targets # <<>>, NEW n \in Nat
  PROVE  LET s == n % ShareUpTo(targets, Len(targets)) IN
         /\ weightedIndex(targets, n) \in DOMAIN targets
         /\ \A i \in DOMAIN targets :
              weightedIndex(targets, n) = i
                <=> ShareUpTo(targets, i - 1) <= s /\ s < ShareUpTo(targets, i)
<1> DEFINE l == Len(targets)
           T == ShareUpTo(targets, l)
           s == n % T
           later == {i \in DOMAIN targets : s < ShareUpTo(targets, i)}
<1>1. l \in Nat /\ l >= 1 /\ DOMAIN targets = 1 .. l
  OBVIOUS
<1>2. /\ ShareUpTo(targets, 0) = 0
      /\ \A i \in 0 .. l : ShareUpTo(targets, i) \in Nat
      /\ \A i, j \in 0 .. l : i <= j => ShareUpTo(targets, i) <= ShareUpTo(targets, j)
  BY SharesAddUp
<1>3. T \in Nat /\ T > 0
  <2>1. ShareUpTo(targets, l) = ShareUpTo(targets, l - 1) + Share(targets, l)
    BY <1>1, SharesAddUp
  <2>2. Share(targets, l) \in Nat \ {0} /\ ShareUpTo(targets, l - 1) \in Nat
    BY <1>1, <1>2, SharesArePositive
  <2> QED
    BY <2>1, <2>2
<1>4. s \in Nat /\ s < T
  <2> HIDE DEF T
  <2> QED
    BY <1>3
<1>5. l \in later /\ later \subseteq 1 .. l /\ later \in SUBSET Nat
  BY <1>1, <1>4
<1>6. weightedIndex(targets, n) = Min(later)
  BY DEF weightedIndex
<1> HIDE DEF l, T, s
<1>7. \A i \in 1 .. l : i \in later <=> s < ShareUpTo(targets, i)
  BY <1>1
<1> HIDE DEF later
<1>8. Min(later) \in later /\ \A i \in later : Min(later) <= i
  BY <1>5, LeastIsThere
<1>9. ASSUME NEW i \in 1 .. l, i = Min(later)
      PROVE  ShareUpTo(targets, i - 1) <= s /\ s < ShareUpTo(targets, i)
  <2>1. s < ShareUpTo(targets, i)
    BY <1>7, <1>8, <1>9
  <2>2. i - 1 \in 0 .. l /\ i - 1 \notin later
    BY <1>1, <1>8, <1>9
  <2>3. ShareUpTo(targets, i - 1) <= s
    <3>1. CASE i = 1
      BY <1>2, <1>4, <3>1
    <3>2. CASE i # 1
      <4>1. i - 1 \in 1 .. l
        BY <1>1, <3>2
      <4>2. ~ (s < ShareUpTo(targets, i - 1)) /\ ShareUpTo(targets, i - 1) \in Nat
        BY <1>2, <1>7, <2>2, <4>1
      <4> QED
        BY <1>4, <4>2
    <3> QED
      BY <3>1, <3>2
  <2> QED
    BY <2>1, <2>3
<1>10. ASSUME NEW i \in 1 .. l, ShareUpTo(targets, i - 1) <= s, s < ShareUpTo(targets, i)
       PROVE  i = Min(later)
  <2>1. i \in later
    BY <1>7, <1>10
  <2> DEFINE j == Min(later)
  <2>2. j \in later /\ j <= i /\ j \in 1 .. l /\ s < ShareUpTo(targets, j)
    BY <1>5, <1>7, <1>8, <2>1
  <2> HIDE DEF j
  <2>3. ~ (j <= i - 1)
    <3> SUFFICES ASSUME j <= i - 1 PROVE FALSE
      OBVIOUS
    <3>1. j \in 0 .. l /\ i - 1 \in 0 .. l
      BY <1>1, <2>2
    <3>2. ShareUpTo(targets, j) <= ShareUpTo(targets, i - 1)
      BY <1>2, <3>1
    <3> QED
      BY <1>2, <1>4, <1>10, <2>2, <3>1, <3>2
  <2>4. j = i
    BY <1>1, <2>2, <2>3
  <2> QED
    BY <2>4 DEF j
<1>11. Min(later) \in DOMAIN targets
  BY <1>1, <1>5, <1>8
<1>12. \A i \in DOMAIN targets :
         weightedIndex(targets, n) = i <=> (ShareUpTo(targets, i - 1) <= s /\ s < ShareUpTo(targets, i))
  BY <1>1, <1>6, <1>9, <1>10
<1> QED
  BY <1>6, <1>11, <1>12 DEF s, T, l

(* As many numbers in a row as there are slots give every target its share.  *)
LEMMA SharesAreServed ==
  ASSUME NEW targets \in Seq(RowTargets), targets # <<>>, NEW start \in Nat, NEW i \in DOMAIN targets
  PROVE  Cardinality({n \in start .. start + ShareUpTo(targets, Len(targets)) - 1 :
                        weightedIndex(targets, n) = i}) = Share(targets, i)
<1> DEFINE l == Len(targets)
           T == ShareUpTo(targets, l)
           low == ShareUpTo(targets, i - 1)
           high == ShareUpTo(targets, i)
           window == start .. start + T - 1
           turns == {n \in window : weightedIndex(targets, n) = i}
           stretch == low .. high - 1
           slotOf == [n \in turns |-> n % T]
<1>1. l \in Nat /\ i \in 1 .. l /\ i - 1 \in 0 .. l /\ i \in 0 .. l
  OBVIOUS
<1>2. low \in Nat /\ high \in Nat /\ T \in Nat /\ high <= T
  BY <1>1, SharesAddUp
<1>3. high = low + Share(targets, i) /\ Share(targets, i) \in Nat \ {0}
  BY <1>1, SharesAddUp, SharesArePositive
<1>4. T \in Nat \ {0}
  <2> HIDE DEF T, low, high
  <2> QED
    BY <1>2, <1>3
<1>5. \A n \in Nat : weightedIndex(targets, n) = i <=> (low <= n % T /\ n % T < high)
  BY SlotsHaveTargets
<1> HIDE DEF T, low, high
<1>6. /\ \A n, m \in window : n % T = m % T => n = m
      /\ \A s \in 0 .. T - 1 : \E n \in window : n % T = s
  BY <1>4, EveryRestOnce
<1>7. \A n \in window : n \in Nat /\ n % T \in Nat
  BY <1>4
<1>8. \A n \in turns : n % T \in stretch
  BY <1>2, <1>5, <1>7
<1>9. \A s \in stretch : \E n \in turns : n % T = s
  <2> TAKE s \in stretch
  <2>1. s \in 0 .. T - 1 /\ low <= s /\ s < high
    BY <1>2
  <2>2. PICK n \in window : n % T = s
    BY <1>6, <2>1
  <2>3. n \in turns
    BY <1>5, <1>7, <2>1, <2>2
  <2> QED
    BY <2>2, <2>3
<1>10. \A n, m \in turns : n % T = m % T => n = m
  BY <1>6
<1>11. IsFiniteSet(window)
  BY <1>4, FS_Interval
<1> HIDE DEF stretch
<1>12. IsFiniteSet(turns)
  <2>1. turns \subseteq window
    OBVIOUS
  <2> HIDE DEF turns, window
  <2> QED
    BY <1>11, <2>1, FS_Subset
<1> HIDE DEF turns
<1>13. slotOf \in Bijection(turns, stretch)
  <2>1. slotOf \in [turns -> stretch]
    BY <1>8
  <2>2. IsInjective(slotOf)
    BY <1>10 DEF IsInjective
  <2>3. \A s \in stretch : \E n \in turns : slotOf[n] = s
    BY <1>9
  <2> HIDE DEF slotOf
  <2> QED
    BY <2>1, <2>2, <2>3 DEF Bijection, Injection, Surjection
<1>14. Cardinality(stretch) = Cardinality(turns)
  BY <1>12, <1>13, FS_Bijection DEF ExistsBijection
<1>15. Cardinality(stretch) = high - low
  <2>1. Cardinality(low .. high - 1) = IF low > high - 1 THEN 0 ELSE high - 1 - low + 1
    BY <1>2, FS_Interval
  <2> QED
    BY <1>2, <1>3, <2>1 DEF stretch
<1>16. Cardinality(turns) = Share(targets, i)
  BY <1>2, <1>3, <1>14, <1>15
<1> QED
  BY <1>16 DEF turns, T

-----------------------------------------------------------------------------
(* What the virtual models serve.                                            *)

(* No two targets of a redirect are the same model.                          *)
TargetsDiffer(row) == IsRedirect(row) => Cardinality(TargetNames(row)) = Len(row.targets)

(* One row for a source is served, and the balancers count.                  *)
ServedOnce ==
  /\ \A row, other \in snapshot : row.source = other.source => row = other
  /\ \A row \in ConfigRows \cup store \cup snapshot : TargetsDiffer(row)
  /\ \A source \in DOMAIN counters : counters[source] \in Nat
  /\ slot \in Nat

(* A name of a redirect is the name of one of its targets.                   *)
LEMMA NamesAreOnce ==
  ASSUME NEW row \in Rows, IsRedirect(row), TargetsDiffer(row),
         NEW i \in DOMAIN row.targets, NEW j \in DOMAIN row.targets,
         TargetName(row.targets[i]) = TargetName(row.targets[j])
  PROVE  i = j
<1> DEFINE l == Len(row.targets)
           nameOf == [k \in 1 .. l |-> TargetName(row.targets[k])]
<1>1. row.targets \in Seq(RowTargets)
  BY DEF Rows
<1>2. l \in Nat /\ DOMAIN row.targets = 1 .. l
  BY <1>1
<1>3. TargetNames(row) = {nameOf[k] : k \in 1 .. l}
  BY <1>2 DEF TargetNames
<1>4. nameOf \in Surjection(1 .. l, TargetNames(row))
  <2>1. nameOf \in [1 .. l -> TargetNames(row)]
    BY <1>3
  <2>2. \A name \in TargetNames(row) : \E k \in 1 .. l : nameOf[k] = name
    BY <1>3
  <2> QED
    BY <2>1, <2>2 DEF Surjection
<1>5. IsFiniteSet(1 .. l) /\ Cardinality(1 .. l) = l
  BY <1>2, FS_Interval
<1>6. Cardinality(TargetNames(row)) = Cardinality(1 .. l)
  BY <1>5 DEF TargetsDiffer
<1> HIDE DEF nameOf, l
<1>7. nameOf \in Injection(1 .. l, TargetNames(row))
  BY <1>4, <1>5, <1>6, FS_Surjection
<1>8. IsInjective(nameOf) /\ DOMAIN nameOf = 1 .. l
  BY <1>7 DEF Injection
<1>9. nameOf[i] = nameOf[j]
  BY <1>2 DEF nameOf
<1> QED
  BY <1>2, <1>8, <1>9 DEF IsInjective

(* The targets that are available, and the pool of them that is used.        *)
LEMMA PoolIsSupported ==
  ASSUME NEW row \in Rows
  PROVE  /\ supportedTargets(row) \in Seq(RowTargets)
         /\ balancedPool(row) \in Seq(RowTargets)
         /\ \A n \in DOMAIN supportedTargets(row) : \E i \in DOMAIN row.targets :
              supportedTargets(row)[n] = row.targets[i] /\ TargetName(row.targets[i]) \in available
         /\ \A i \in DOMAIN row.targets : TargetName(row.targets[i]) \in available
              => \E n \in DOMAIN supportedTargets(row) : supportedTargets(row)[n] = row.targets[i]
         /\ \A n \in DOMAIN balancedPool(row) : \E m \in DOMAIN supportedTargets(row) :
              balancedPool(row)[n] = supportedTargets(row)[m]
         /\ supportedTargets(row) # <<>> => balancedPool(row) # <<>>
         /\ \/ \A n \in DOMAIN balancedPool(row) : ~ balancedPool(row)[n].fallback
            \/ \A m \in DOMAIN supportedTargets(row) : supportedTargets(row)[m].fallback
<1> DEFINE up == {i \in DOMAIN row.targets : TargetName(row.targets[i]) \in available}
           supported == supportedTargets(row)
           first == {i \in DOMAIN supported : ~ supported[i].fallback}
           primary == Kept(supported, first)
           pool == balancedPool(row)
<1>1. row.targets \in Seq(RowTargets)
  BY DEF Rows
<1>2. supported = Kept(row.targets, up) /\ up \in SUBSET DOMAIN row.targets
  BY DEF supportedTargets
<1>3. /\ supported \in Seq(RowTargets)
      /\ \A n \in DOMAIN supported : \E i \in up : supported[n] = row.targets[i]
      /\ \A i \in up : \E n \in DOMAIN supported : supported[n] = row.targets[i]
  <2> HIDE DEF supported, up
  <2> QED
    BY <1>1, <1>2, KeptElements
<1>4. pool = IF primary # <<>> THEN primary ELSE supported
  BY DEF balancedPool
<1> HIDE DEF supported, pool
<1>5. first \in SUBSET DOMAIN supported
  OBVIOUS
<1> HIDE DEF first
<1>6. /\ primary \in Seq(RowTargets)
      /\ \A n \in DOMAIN primary : \E i \in first : primary[n] = supported[i]
      /\ \A i \in first : \E n \in DOMAIN primary : primary[n] = supported[i]
  BY <1>3, <1>5, KeptElements
<1> HIDE DEF primary
<1>7. CASE primary # <<>>
  <2>1. pool = primary
    BY <1>4, <1>7
  <2>2. \A n \in DOMAIN pool : ~ pool[n].fallback /\ \E m \in DOMAIN supported : pool[n] = supported[m]
    BY <1>6, <2>1 DEF first
  <2> QED
    BY <1>3, <1>6, <1>7, <2>1, <2>2 DEF supported, pool
<1>8. CASE primary = <<>>
  <2>1. pool = supported
    BY <1>4, <1>8
  <2>2. DOMAIN primary = {}
    BY <1>8
  <2>3. \A m \in DOMAIN supported : supported[m].fallback
    BY <1>6, <2>2 DEF first
  <2> QED
    BY <1>3, <2>1, <2>3 DEF supported, pool
<1> QED
  BY <1>7, <1>8

(* The cheapest target with a price is one of the pool.                      *)
LEMMA CheapestIsOne ==
  ASSUME NEW targets \in Seq(RowTargets), targets # <<>>
  PROVE  cheapestTargets(targets) \in DOMAIN targets
<1> DEFINE priced == {i \in DOMAIN targets : TargetName(targets[i]) \in DOMAIN Price}
           cost(i) == Price[TargetName(targets[i])]
           costs == {cost(i) : i \in priced}
           best == {i \in priced : \A j \in priced : cost(i) <= cost(j)}
<1>1. DOMAIN targets = 1 .. Len(targets) /\ Len(targets) \in Nat /\ 1 \in DOMAIN targets
  OBVIOUS
<1>2. cheapestTargets(targets) = IF priced = {} THEN 1 ELSE Min(best)
  BY DEF cheapestTargets
<1>3. \A i \in priced : cost(i) \in Nat
  BY VMAssumption
<1>4. costs \in SUBSET Nat
  BY <1>3
<1>5. best \in SUBSET Nat /\ best \subseteq DOMAIN targets
  BY <1>1
<1> HIDE DEF cost
<1>6. priced # {} => best # {}
  <2> SUFFICES ASSUME priced # {} PROVE best # {}
    OBVIOUS
  <2>1. costs # {}
    OBVIOUS
  <2>2. Min(costs) \in costs /\ \A n \in costs : Min(costs) <= n
    <3> HIDE DEF costs
    <3> QED
      BY <1>4, <2>1, LeastIsThere
  <2>3. PICK i \in priced : cost(i) = Min(costs)
    BY <2>2
  <2>4. \A j \in priced : cost(i) <= cost(j)
    BY <2>2, <2>3
  <2> QED
    BY <2>4
<1> HIDE DEF priced, best
<1>7. priced # {} => Min(best) \in best
  BY <1>5, <1>6, LeastIsThere
<1> QED
  BY <1>1, <1>2, <1>5, <1>7

(* A balancer always picks a target of the pool.                             *)
LEMMA SomebodyIsPicked ==
  ASSUME ServedOnce, NEW row \in Rows, balancedPool(row) # <<>>
  PROVE  balancedChoices(row) # {} /\ balancedChoices(row) \subseteq DOMAIN balancedPool(row)
<1> DEFINE pool == balancedPool(row)
           strategy == autoStrategy(row.strategy)
           l == Len(pool)
<1>1. pool \in Seq(RowTargets) /\ pool # <<>>
  BY PoolIsSupported
<1>2. balancedChoices(row) =
        IF l <= 1 THEN DOMAIN pool
        ELSE IF strategy = "cost" THEN {cheapestTargets(pool)}
        ELSE IF strategy \in {"weighted", "random"} THEN DOMAIN pool
        ELSE IF strategy = "least_used" THEN {((slot + 1) % l) + 1}
        ELSE IF strategy = "health_aware" THEN healthyTargets(pool)
        ELSE {weightedIndex(pool, Counter(row.source))}
  BY DEF balancedChoices
<1> HIDE DEF strategy
<1>3. l \in Nat /\ l >= 1 /\ DOMAIN pool = 1 .. l
  <2> HIDE DEF pool
  <2> QED
    BY <1>1
<1> HIDE DEF l, pool
<1>4. DOMAIN pool # {}
  BY <1>3
<1>5. cheapestTargets(pool) \in DOMAIN pool
  BY <1>1, CheapestIsOne
<1>6. ((slot + 1) % l) + 1 \in DOMAIN pool
  <2>1. slot + 1 \in Nat
    BY DEF ServedOnce
  <2>2. \A n \in Nat : (n % l) + 1 \in 1 .. l
    BY <1>3
  <2> QED
    BY <1>3, <2>1, <2>2
<1>7. healthyTargets(pool) # {} /\ healthyTargets(pool) \subseteq DOMAIN pool
  BY <1>3 DEF healthyTargets
<1>8. weightedIndex(pool, Counter(row.source)) \in DOMAIN pool
  <2>1. Counter(row.source) \in Nat
    BY DEF Counter, ServedOnce
  <2> QED
    BY <1>1, <2>1, SlotsHaveTargets
<1> QED
  BY <1>2, <1>4, <1>5, <1>6, <1>7, <1>8 DEF pool

(* A balancer's counter stands at a number.                                  *)
LEMMA CounterIsNumber ==
  ASSUME ServedOnce, NEW source
  PROVE  Counter(source) \in Nat
BY DEF Counter, ServedOnce

(* Rotation is fair from any counter on.                                     *)
LEMMA RotationsAreFair ==
  ASSUME RowsAreSettled, ServedOnce
  PROVE  RotationIsFair
<1> SUFFICES ASSUME NEW row \in Redirects(snapshot), balancedPool(row) # <<>>,
                    NEW i \in DOMAIN balancedPool(row)
             PROVE  Cardinality({n \in Counter(row.source) .. Counter(row.source)
                                     + ShareUpTo(balancedPool(row), Len(balancedPool(row))) - 1 :
                                   weightedIndex(balancedPool(row), n) = i})
                      = Share(balancedPool(row), i)
  BY DEF RotationIsFair
<1>1. row \in Rows
  BY DEF Redirects, RowsAreSettled
<1>2. balancedPool(row) \in Seq(RowTargets)
  BY <1>1, PoolIsSupported
<1>3. Counter(row.source) \in Nat
  BY CounterIsNumber
<1> QED
  BY <1>2, <1>3, SharesAreServed

(* What a redirect that answers to a path resolves to.                       *)
LEMMA ResolvedByRow ==
  ASSUME RowsAreSettled, ServedOnce, NEW row \in Redirects(snapshot), NEW path
  PROVE  LET answers == row.enabled /\ userPathAllowed(path, row.paths)
             served == resolvedNames(row.source, path, TRUE)
         IN  /\ answers => served = {TargetName(balancedPool(row)[i]) : i \in balancedChoices(row)}
             /\ ~ answers => served = {}
             /\ row.source \in exposedModels(path) <=>
                  /\ answers
                  /\ \E i \in DOMAIN supportedTargets(row) :
                       AllowsModel(ParseModelSelector(TargetName(supportedTargets(row)[i]), Blank), path)
<1> DEFINE answers == row.enabled /\ userPathAllowed(path, row.paths)
           found == findRedirect(row.source, path, TRUE)
           picked(r) == {TargetName(balancedPool(r)[i]) : i \in balancedChoices(r)}
           listed(r) == \E i \in DOMAIN supportedTargets(r) :
                          AllowsModel(ParseModelSelector(TargetName(supportedTargets(r)[i]), Blank), path)
<1>1. \A r \in Redirects(snapshot) : r.source = row.source => r = row
  BY DEF ServedOnce, Redirects
<1>2. found = {r \in Redirects(snapshot) : r.source = row.source /\ r.enabled /\ userPathAllowed(path, r.paths)}
  BY DEF findRedirect
<1>3. found = IF answers THEN {row} ELSE {}
  BY <1>1, <1>2
<1>4. resolvedNames(row.source, path, TRUE) = UNION {picked(r) : r \in found}
  BY DEF resolvedNames
<1>5. exposedModels(path) =
        {r.source : r \in {r \in Redirects(snapshot) :
                             r.enabled /\ userPathAllowed(path, r.paths) /\ listed(r)}}
  BY DEF exposedModels
<1> HIDE DEF found, picked, listed
<1>6. row.source \in exposedModels(path) <=> (answers /\ listed(row))
  BY <1>1, <1>5
<1> HIDE DEF answers
<1>7. answers => resolvedNames(row.source, path, TRUE) = picked(row)
  BY <1>3, <1>4
<1>8. ~ answers => resolvedNames(row.source, path, TRUE) = {}
  BY <1>3, <1>4
<1> QED
  BY <1>6, <1>7, <1>8 DEF answers, picked, listed

(* A listed redirect serves, and one that is not listed does not.            *)
LEMMA ListedAreServed ==
  ASSUME RowsAreSettled, ServedOnce
  PROVE  ListedIsServed
<1> SUFFICES ASSUME NEW row \in Redirects(snapshot), NEW path \in UserPaths
             PROVE  LET served == resolvedNames(row.source, path, TRUE)
                        fallbacks == {TargetName(row.targets[i]) : i \in {j \in DOMAIN row.targets : row.targets[j].fallback}}
                        allowed == {name \in TargetNames(row) \cap available : AllowsModel(ParseModelSelector(name, Blank), path)}
                    IN /\ row.source \in exposedModels(path) =>
                            /\ served # {} /\ served \subseteq TargetNames(row) \cap available
                            /\ served \cap fallbacks # {} => TargetNames(row) \cap available \subseteq fallbacks
                       /\ row.source \notin exposedModels(path) /\ allowed # {} => served = {}
  BY DEF ListedIsServed
<1> DEFINE supported == supportedTargets(row)
           pool == balancedPool(row)
           served == resolvedNames(row.source, path, TRUE)
           fallbacks == {TargetName(row.targets[i]) : i \in {j \in DOMAIN row.targets : row.targets[j].fallback}}
           answers == row.enabled /\ userPathAllowed(path, row.paths)
           may(name) == AllowsModel(ParseModelSelector(name, Blank), path)
           allowed == {name \in TargetNames(row) \cap available : may(name)}
<1>1. row \in Rows /\ IsRedirect(row) /\ TargetsDiffer(row)
  BY DEF Redirects, RowsAreSettled, ServedOnce
<1>2. /\ \A n \in DOMAIN supported : \E i \in DOMAIN row.targets :
           supported[n] = row.targets[i] /\ TargetName(row.targets[i]) \in available
      /\ \A i \in DOMAIN row.targets : TargetName(row.targets[i]) \in available
           => \E n \in DOMAIN supported : supported[n] = row.targets[i]
      /\ \A n \in DOMAIN pool : \E m \in DOMAIN supported : pool[n] = supported[m]
      /\ supported # <<>> => pool # <<>>
      /\ \/ \A n \in DOMAIN pool : ~ pool[n].fallback
         \/ \A m \in DOMAIN supported : supported[m].fallback
  BY <1>1, PoolIsSupported
<1>3. /\ answers => served = {TargetName(pool[i]) : i \in balancedChoices(row)}
      /\ ~ answers => served = {}
      /\ row.source \in exposedModels(path) <=>
           (answers /\ \E i \in DOMAIN supported : may(TargetName(supported[i])))
  BY ResolvedByRow
<1>4. pool # <<>> => balancedChoices(row) # {} /\ balancedChoices(row) \subseteq DOMAIN pool
  BY <1>1, SomebodyIsPicked
<1> HIDE DEF supported, pool, served, answers, may
<1>5. \A name \in TargetNames(row) \cap available : \E n \in DOMAIN supported : TargetName(supported[n]) = name
  BY <1>2 DEF TargetNames
<1>6. ASSUME row.source \in exposedModels(path)
      PROVE  /\ served # {} /\ served \subseteq TargetNames(row) \cap available
             /\ served \cap fallbacks # {} => TargetNames(row) \cap available \subseteq fallbacks
  <2>1. answers /\ supported # <<>>
    BY <1>3, <1>6
  <2>2. /\ served = {TargetName(pool[i]) : i \in balancedChoices(row)}
        /\ balancedChoices(row) # {} /\ balancedChoices(row) \subseteq DOMAIN pool
    BY <1>2, <1>3, <1>4, <2>1
  <2>3. \A n \in DOMAIN pool : \E i \in DOMAIN row.targets :
          pool[n] = row.targets[i] /\ TargetName(row.targets[i]) \in available
    BY <1>2
  <2>4. served # {} /\ served \subseteq TargetNames(row) \cap available
    BY <2>2, <2>3 DEF TargetNames
  <2>5. ASSUME served \cap fallbacks # {} PROVE TargetNames(row) \cap available \subseteq fallbacks
    <3>1. PICK n \in DOMAIN pool, j \in DOMAIN row.targets :
            TargetName(pool[n]) = TargetName(row.targets[j]) /\ row.targets[j].fallback
      BY <2>2, <2>5
    <3>2. PICK i \in DOMAIN row.targets : pool[n] = row.targets[i]
      BY <2>3
    <3>3. i = j
      BY <1>1, <3>1, <3>2, NamesAreOnce
    <3>4. pool[n].fallback
      BY <3>1, <3>2, <3>3
    <3>5. \A m \in DOMAIN supported : supported[m].fallback
      BY <1>2, <3>4
    <3>6. \A i2 \in DOMAIN row.targets : TargetName(row.targets[i2]) \in available => row.targets[i2].fallback
      BY <1>2, <3>5
    <3> QED
      BY <3>6 DEF TargetNames
  <2> QED
    BY <2>4, <2>5
<1>7. ASSUME row.source \notin exposedModels(path), allowed # {}
      PROVE  served = {}
  <2>1. PICK name \in TargetNames(row) \cap available : may(name)
    BY <1>7
  <2>2. \E i \in DOMAIN supported : may(TargetName(supported[i]))
    BY <1>5, <2>1
  <2> QED
    BY <1>3, <1>7, <2>2
<1> QED
  BY <1>6, <1>7 DEF served, may

-----------------------------------------------------------------------------
(* The invariant: a row for a source, different targets, and counters.       *)

(* What is served is built from the rows.                                    *)
LEMMA ServedAreBuilt ==
  ASSUME NEW rows, rows \subseteq Rows, NEW row \in buildSnapshot(rows)
  PROVE  \E r \in rows : row.source = r.source /\ row.targets = r.targets /\ row = normalizeRow(r)
<1>1. PICK r \in rows : row = normalizeRow(r)
  BY DEF buildSnapshot
<1>2. normalizeRow(r).source = r.source /\ normalizeRow(r).targets = r.targets
  BY NormalizedRow
<1> QED
  BY <1>1, <1>2

LEMMA DifferentTargetsStay ==
  ASSUME NEW row, NEW other, row.targets = other.targets, TargetsDiffer(other)
  PROVE  TargetsDiffer(row)
BY DEF TargetsDiffer, IsRedirect, TargetNames

(* A snapshot of the store and the configuration.                            *)
LEMMA SnapshotsServeOnce ==
  ASSUME RowsAreSettled, \A row \in ConfigRows \cup store : TargetsDiffer(row)
  PROVE  LET next == buildSnapshot(mergeConfigModels(store)) IN
         /\ \A row, other \in next : row.source = other.source => row = other
         /\ \A row \in next : TargetsDiffer(row)
<1> DEFINE rows == mergeConfigModels(store)
           next == buildSnapshot(rows)
<1>1. rows \subseteq ConfigRows \cup store /\ rows \subseteq Rows
  BY VMAssumption DEF mergeConfigModels, RowsAreSettled, Settled
<1>2. \A row, other \in rows : row.source = other.source => row = other
  <2> TAKE row, other \in rows
  <2> HAVE row.source = other.source
  <2>1. /\ (row \in ConfigRows \/ (row \in store /\ ~ isManagedSource(row.source)))
        /\ (other \in ConfigRows \/ (other \in store /\ ~ isManagedSource(other.source)))
    BY DEF mergeConfigModels
  <2>2. (row \in ConfigRows => isManagedSource(row.source)) /\ (other \in ConfigRows => isManagedSource(other.source))
    BY DEF isManagedSource, Has
  <2>3. CASE row \in ConfigRows /\ other \in ConfigRows
    BY <2>3, VMAssumption
  <2>4. CASE row \in store /\ other \in store
    BY <2>4 DEF RowsAreSettled
  <2> QED
    BY <2>1, <2>2, <2>3, <2>4
<1> HIDE DEF rows
<1>3. \A row \in next : \E r \in rows : row.source = r.source /\ row.targets = r.targets /\ row = normalizeRow(r)
  BY <1>1, ServedAreBuilt
<1> HIDE DEF next
<1>4. \A row, other \in next : row.source = other.source => row = other
  BY <1>2, <1>3
<1>5. \A row \in next : TargetsDiffer(row)
  BY <1>1, <1>3, DifferentTargetsStay
<1> QED
  BY <1>4, <1>5 DEF next, rows

LEMMA ServedOnceBegins == VMInit => ServedOnce
<1> SUFFICES ASSUME VMInit PROVE ServedOnce
  OBVIOUS
<1>1. RowsAreSettled
  BY VMBegins DEF VMIInv
<1>2. \A row \in ConfigRows \cup store : TargetsDiffer(row)
  <2>1. (\A row \in ConfigRows : Valid(row)) /\ store = {}
    BY DEF VMInit
  <2>2. \A row : Valid(row) => TargetsDiffer(row)
    BY DEF Valid, ValidRedirect, TargetsDiffer
  <2> QED
    BY <2>1, <2>2
<1>3. snapshot = buildSnapshot(mergeConfigModels(store)) /\ counters = <<>> /\ slot = 0
  BY DEF VMInit
<1> QED
  BY <1>1, <1>2, <1>3, SnapshotsServeOnce DEF ServedOnce

(* The store's rows: the new one of a write, or what was there and served.   *)
LEMMA StoreChanges ==
  ASSUME ServedOnce, UNCHANGED <<snapshot, counters, slot>>,
         \A row \in store' : row \in store \cup snapshot \/ TargetsDiffer(row)
  PROVE  ServedOnce'
<1>1. \A row \in ConfigRows \cup store \cup snapshot : TargetsDiffer(row)
  BY DEF ServedOnce
<1>2. \A row \in ConfigRows \cup store' \cup snapshot' : TargetsDiffer(row)
  BY <1>1
<1> QED
  BY <1>2 DEF ServedOnce, TargetsDiffer, IsRedirect, TargetNames

(* A draft that is written has different targets.                            *)
LEMMA DraftsDiffer ==
  ASSUME NEW draft \in Drafts, Valid(draft)
  PROVE  TargetsDiffer(normalizeForUpsert(draft))
<1>1. draft \in Rows
  BY VMAssumption
<1>2. TargetsDiffer(draft)
  BY DEF Valid, ValidRedirect, TargetsDiffer
<1> DEFINE scoped == [draft EXCEPT !.scope = NormalizeInput(draft.source)]
           input == IF IsRedirect(draft) THEN draft ELSE scoped
<1>3. scoped \in Rows /\ scoped.targets = draft.targets
  BY <1>1, PolicyScopes DEF Rows, NormalizeInput
<1>4. input \in Rows /\ input.targets = draft.targets
  BY <1>1, <1>3
<1>5. normalizeForUpsert(draft) = normalizeRow(input)
  BY DEF normalizeForUpsert
<1> HIDE DEF input, scoped
<1>6. normalizeForUpsert(draft).targets = draft.targets
  BY <1>4, <1>5, NormalizedRow
<1> QED
  BY <1>2, <1>6, DifferentTargetsStay

LEMMA ServedOnceKept ==
  ASSUME VMIInv, ServedOnce, [VMNext]_vmVars
  PROVE  ServedOnce'
<1>1. CASE UNCHANGED vmVars
  BY <1>1, StoreChanges DEF vmVars
<1>2. ASSUME NEW draft \in Drafts, NEW old, Upsert(draft) \/ Rename(old, draft) PROVE ServedOnce'
  <2>1. /\ Valid(draft) /\ UNCHANGED <<snapshot, counters, slot>>
        /\ store' = upsertRow(store, normalizeForUpsert(draft))
    BY <1>2 DEF Upsert, Rename
  <2>2. \A row \in store' : row \in store \/ row = normalizeForUpsert(draft)
    BY <2>1 DEF upsertRow, Without
  <2> QED
    BY <2>1, <2>2, DraftsDiffer, StoreChanges
<1>3. ASSUME NEW source, Delete(source) \/ RenameDeletesOld \/ CommitFails PROVE ServedOnce'
  <2>1. UNCHANGED <<snapshot, counters, slot>> /\ store' \subseteq store
    BY <1>3 DEF Delete, RenameDeletesOld, CommitFails, Without
  <2> QED
    BY <2>1, StoreChanges
<1>4. CASE Restore
  <2>1. PICK source \in DOMAIN op.prior :
          store' = Without(store, source) \cup op.prior[source] \/ store' = store
    BY <1>4 DEF Restore
  <2>2. UNCHANGED <<snapshot, counters, slot>>
    BY <1>4 DEF Restore
  <2>3. op.prior[source] = lookupCanonicalSource(snapshot, source)
    BY DEF VMIInv, HeldRows
  <2>4. lookupCanonicalSource(snapshot, source) \subseteq snapshot
    BY DEF lookupCanonicalSource, Has, RowAt
  <2>5. store' \subseteq store \cup snapshot
    BY <2>1, <2>3, <2>4 DEF Without
  <2> QED
    BY <2>2, <2>5, StoreChanges
<1>5. CASE Refresh \/ CommitSucceeds
  <2>1. /\ snapshot' = buildSnapshot(mergeConfigModels(store)) /\ UNCHANGED <<store, slot>>
        /\ \E S : counters' = Restrict(counters, S \cap DOMAIN counters)
    BY <1>5 DEF Refresh, CommitSucceeds, refreshLocked
  <2>2. \A row \in ConfigRows \cup store : TargetsDiffer(row)
    BY DEF ServedOnce
  <2>3. /\ \A row, other \in snapshot' : row.source = other.source => row = other
        /\ \A row \in snapshot' : TargetsDiffer(row)
    BY <2>1, <2>2, SnapshotsServeOnce DEF VMIInv
  <2>4. \A source \in DOMAIN counters' : counters'[source] \in Nat
    BY <2>1 DEF Restrict, ServedOnce
  <2>5. slot' \in Nat
    BY <2>1 DEF ServedOnce
  <2> QED
    BY <2>1, <2>2, <2>3, <2>4, <2>5 DEF ServedOnce
<1>6. ASSUME NEW name, NEW path, Resolve(name, path) PROVE ServedOnce'
  <2>1. UNCHANGED <<store, snapshot>>
    BY <1>6 DEF Resolve
  <2>2. \/ /\ counters' = [s \in DOMAIN counters \cup {name} |->
                             IF s = name THEN Counter(s) + 1 ELSE counters[s]]
           /\ UNCHANGED slot
        \/ slot' = slot + 1 /\ UNCHANGED counters
    BY <1>6 DEF Resolve
  <2>3. Counter(name) + 1 \in Nat
    BY CounterIsNumber
  <2>4. \A source \in DOMAIN counters' : counters'[source] \in Nat
    BY <2>2, <2>3 DEF ServedOnce
  <2>5. slot' \in Nat
    BY <2>2 DEF ServedOnce
  <2> QED
    BY <2>1, <2>4, <2>5 DEF ServedOnce
<1>7. ASSUME NEW name, CatalogChanges(name) PROVE ServedOnce'
  <2>1. UNCHANGED <<store, snapshot, counters, slot>>
    BY <1>7 DEF CatalogChanges
  <2> QED
    BY <2>1, StoreChanges
<1> QED
  BY <1>1, <1>2, <1>3, <1>4, <1>5, <1>6, <1>7 DEF VMNext

(* A row for a source, different targets and counters that count hold with   *)
(* the invariant of the writes.                                              *)
THEOREM ServingInvariance == VMSpec => [](VMIInv /\ ServedOnce)
<1>1. VMIInv /\ ServedOnce /\ [VMNext]_vmVars => ServedOnce'
  BY ServedOnceKept
<1> QED
  BY <1>1, ServedOnceBegins, VMInvariance, PTL DEF VMSpec

(* RedirectsServe: a redirect serves the callers it is listed to, and its    *)
(* targets in their shares (resolve.go, balancer.go), for any rows, weights, *)
(* prices and counters.                                                      *)
THEOREM RedirectsServeAll == VMSpec => []RedirectsServe
<1>1. VMIInv /\ ServedOnce => RedirectsServe
  BY RotationsAreFair, ListedAreServed DEF VMIInv, RedirectsServe
<1> QED
  BY <1>1, ServingInvariance, PTL
=============================================================================
