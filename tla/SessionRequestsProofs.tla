------------------------- MODULE SessionRequestsProofs -------------------------
(***************************************************************************)
(* What is proved about SessionRequests, for every finite set of requests, *)
(* any number of msg_ids and failures and every size of the containers.    *)
(***************************************************************************)
EXTENDS SessionRequests, FiniteSetTheorems, SequenceTheorems, TLAPS

-----------------------------------------------------------------------------
(* The ids of a container.                                                 *)

renewedBefore(r) == {q \in batch : q < r /\ renewed(q)}
renewedBatch == {r \in batch : renewed(r)}

\* The msg_ids that a container hands out are distinct, and smaller than its
\* own.
LEMMA BatchIds ==
    ASSUME TypeOK
    PROVE  /\ Cardinality(renewedBatch) \in Nat
           /\ \A r \in renewedBatch :
                 /\ newId(r) \in Int
                 /\ server.nextId <= newId(r)
                 /\ newId(r) < server.nextId + Cardinality(renewedBatch)
           /\ \A q, r \in renewedBatch : q < r => newId(q) < newId(r)
<1>. batch \subseteq Requests
  BY DEF TypeOK, Data, batch
<1>1. \A S \in SUBSET Requests : IsFiniteSet(S) /\ Cardinality(S) \in Nat
  BY RequestsAssumption, FS_Subset, FS_CardinalityType
<1>2. \A S, T \in SUBSET Requests :
         S \subseteq T /\ S # T => Cardinality(S) < Cardinality(T)
  <2>. SUFFICES ASSUME NEW S \in SUBSET Requests, NEW T \in SUBSET Requests,
                       S \subseteq T, S # T
                PROVE  Cardinality(S) < Cardinality(T)
    OBVIOUS
  <2>1. Cardinality(S) <= Cardinality(T) /\ (Cardinality(S) = Cardinality(T) => S = T)
    BY <1>1, FS_Subset
  <2>. QED BY <1>1, <2>1
<1>3. \A r \in batch : renewedBefore(r) \in SUBSET Requests
  BY DEF renewedBefore
<1>4. renewedBatch \in SUBSET Requests
  BY DEF renewedBatch
<1>5. \A r \in renewedBatch :
         renewedBefore(r) \subseteq renewedBatch /\ renewedBefore(r) # renewedBatch
  BY RequestsAssumption DEF renewedBefore, renewedBatch
<1>6. \A q, r \in renewedBatch : q < r =>
         renewedBefore(q) \subseteq renewedBefore(r) /\ renewedBefore(q) # renewedBefore(r)
  <2>. SUFFICES ASSUME NEW q \in renewedBatch, NEW r \in renewedBatch, q < r
                PROVE  /\ renewedBefore(q) \subseteq renewedBefore(r)
                       /\ renewedBefore(q) # renewedBefore(r)
    OBVIOUS
  <2>1. \A p \in Requests : p \in Int
    BY RequestsAssumption
  <2>2. q \in renewedBefore(r) /\ q \notin renewedBefore(q)
    BY <1>4, <2>1 DEF renewedBefore, renewedBatch
  <2>3. renewedBefore(q) \subseteq renewedBefore(r)
    BY <1>4, <2>1 DEF renewedBefore, renewedBatch
  <2>. QED BY <2>2, <2>3
<1>7. server.nextId \in Int
  BY BoundsAssumption DEF TypeOK, Server
<1>8. \A r \in renewedBatch : r \in batch
  BY DEF renewedBatch
<1>9. \A r : newId(r) = server.nextId + Cardinality(renewedBefore(r))
  BY DEF newId, renewedBefore
<1>. QED BY <1>1, <1>2, <1>3, <1>4, <1>5, <1>6, <1>7, <1>8, <1>9

-----------------------------------------------------------------------------
(* The inductive invariant.                                                *)

\* A msg_id belongs to the request that carries it, a container to nobody,
\* and cancel() holds a msg_id of the request it cancels.
Owned ==
    /\ \A r \in Requests : data.msgId[r] # NoId => owner[data.msgId[r]] = r
    /\ \A m \in Id : m >= server.nextId => owner[m] = NoRequest
    /\ \A c \in priv.containers : c.id < server.nextId /\ owner[c.id] = NoRequest
    /\ \A m \in data.haveSent \cup priv.moving : owner[m] # NoRequest
    /\ \A r \in main.cancelling : main.cancelId # NoId => owner[main.cancelId] = r

\* What is in the maps was asked for, and what the server has got it has
\* carried out.
Justified ==
    /\ \A r \in data.toSend \cup priv.sending \cup main.delayed : status[r] # "new"
    /\ \A m \in Id : owner[m] # NoRequest => status[owner[m]] # "new"
    /\ \A r \in main.cancelling : hasCallback(r)
    /\ \A k \in 1 .. Len(server.up) : \A m \in server.up[k].ids : owner[m] # NoRequest
    /\ \A m \in server.got : owner[m] \in executed
    /\ \A a \in data.received :
         owner[a.id] # NoRequest /\ (~a.again => owner[a.id] \in executed)

Inductive == TypeOK /\ Owned /\ Justified

\* Nothing has happened yet.
LEMMA InductiveInit == Init => Inductive
<1>. SUFFICES ASSUME Init PROVE Inductive
  OBVIOUS
<1>. USE BoundsAssumption, RequestsAssumption
<1>1. server.up = << >> /\ << >> \in Seq(Packet) /\ Len(server.up) = 0
  BY DEF Init
<1>2. TypeOK
  <2>1. main \in Main
    BY DEF Init, Main
  <2>2. data \in Data
    BY DEF Init, Data
  <2>3. priv \in Private
    BY DEF Init, Private
  <2>4. server \in Server
    BY <1>1 DEF Init, Server
  <2>5. owner \in [Id -> Requests \cup {NoRequest}]
    BY DEF Init
  <2>6. status \in [Requests -> Rpc!Status] /\ executed \subseteq Requests
    BY DEF Init, Rpc!Init, Rpc!Status
  <2>. QED BY <2>1, <2>2, <2>3, <2>4, <2>5, <2>6 DEF TypeOK
<1>3. Owned
  BY DEF Init, Owned
<1>4. Justified
  BY <1>1 DEF Init, Justified
<1>. QED BY <1>2, <1>3, <1>4 DEF Inductive

-----------------------------------------------------------------------------
(* The steps of the main thread.                                           *)

LEMMA SendRequestStep ==
    ASSUME Inductive, NEW r \in Requests, sendRequest(r)
    PROVE  Inductive'
<1>. USE DEF Inductive
<1>1. TypeOK'
  BY DEF TypeOK, sendRequest, prepared, woken, Data, Private, Rpc!Status
<1>2. Owned'
  BY BoundsAssumption DEF TypeOK, Owned, sendRequest, prepared, woken, Data, Private, NoId
<1>3. Justified'
  BY DEF TypeOK, Owned, Justified, sendRequest, prepared, woken, hasCallback,
         mainIdle, Data, Private, Rpc!Status
<1>. QED BY <1>1, <1>2, <1>3

LEMMA CheckDelayedStep ==
    ASSUME Inductive, NEW r \in Requests, checkDelayedRequests(r)
    PROVE  Inductive'
<1>. USE DEF Inductive
<1>1. /\ main' = [main EXCEPT !.delayed = @ \ {r}]
      /\ UNCHANGED <<server, owner, status, executed>>
      /\ r \in main.delayed
  BY DEF checkDelayedRequests
<1>2. CASE hasCallback(r)
  <2>1. /\ data' = [data EXCEPT !.toSend = @ \cup {r}, !.msgId[r] = NoId]
        /\ priv' = [priv EXCEPT !.wake = TRUE]
    BY <1>2 DEF checkDelayedRequests, prepared, woken
  <2>2. TypeOK'
    BY <1>1, <2>1 DEF TypeOK, Main, Data, Private
  <2>3. Owned'
    BY <1>1, <2>1 DEF TypeOK, Owned, Main, Data, Private, NoId
  <2>4. Justified'
    BY <1>1, <2>1 DEF TypeOK, Justified, hasCallback, Main, Data, Private
  <2>. QED BY <2>2, <2>3, <2>4
<1>3. CASE ~hasCallback(r)
  <2>1. data' = data /\ priv' = priv
    BY <1>3 DEF checkDelayedRequests
  <2>2. TypeOK'
    BY <1>1, <2>1 DEF TypeOK, Main
  <2>3. Owned'
    BY <1>1, <2>1 DEF TypeOK, Owned, Main
  <2>4. Justified'
    BY <1>1, <2>1 DEF TypeOK, Justified, hasCallback, Main
  <2>. QED BY <2>2, <2>3, <2>4
<1>. QED BY <1>2, <1>3

LEMMA CancelStep ==
    ASSUME Inductive, NEW r \in Requests,
           cancel(r) \/ cancelToSend(r) \/ cancelHaveSent(r)
    PROVE  Inductive'
<1>. USE DEF Inductive
<1>1. CASE cancel(r)
  <2>1. TypeOK'
    BY <1>1 DEF TypeOK, cancel, Main, Data
  <2>2. Owned'
    BY <1>1 DEF TypeOK, Owned, cancel, Main, Data
  <2>3. Justified'
    BY <1>1 DEF TypeOK, Justified, cancel, hasCallback, Main, Data
  <2>. QED BY <2>1, <2>2, <2>3
<1>2. CASE cancelToSend(r)
  <2>1. TypeOK'
    BY <1>2 DEF TypeOK, cancelToSend, Main, Data
  <2>2. Owned'
    BY <1>2 DEF TypeOK, Owned, cancelToSend, Main, Data
  <2>3. Justified'
    BY <1>2 DEF TypeOK, Justified, cancelToSend, hasCallback, Main, Data
  <2>. QED BY <2>1, <2>2, <2>3
<1>3. CASE cancelHaveSent(r)
  <2>1. TypeOK'
    BY <1>3 DEF TypeOK, cancelHaveSent, Main, Data, Rpc!Status
  <2>2. Owned'
    BY <1>3 DEF TypeOK, Owned, cancelHaveSent, Main, Data
  <2>3. Justified'
    BY <1>3 DEF TypeOK, Justified, cancelHaveSent, hasCallback, Main, Data, Rpc!Status
  <2>. QED BY <2>1, <2>2, <2>3
<1>. QED BY <1>1, <1>2, <1>3

LEMMA ProcessCallbackStep ==
    ASSUME Inductive, NEW r \in Requests, processCallback(r)
    PROVE  Inductive'
<1>. USE DEF Inductive
<1>1. PICK a \in data.received :
         /\ owner[a.id] = r
         /\ data' = [data EXCEPT !.received = @ \ {a}]
         /\ status' = IF handler(r) /\ ~a.again
                      THEN [status EXCEPT ![r] = "answered"]
                      ELSE status
         /\ main' = IF handler(r) /\ a.again
                    THEN [main EXCEPT !.delayed = @ \cup {r},
                                      !.delays = @ \cup {r}]
                    ELSE [main EXCEPT !.delays = @ \ {r}]
  BY DEF processCallback
<1>2. /\ mainIdle
      /\ UNCHANGED <<priv, server, owner, executed>>
  BY DEF processCallback
<1>3. TypeOK'
  BY <1>1, <1>2 DEF TypeOK, Main, Data, Rpc!Status
<1>4. Owned'
  BY <1>1, <1>2 DEF TypeOK, Owned, Main, Data
<1>5. Justified'
  BY <1>1, <1>2 DEF TypeOK, Justified, Main, Data, mainIdle, hasCallback, handler,
                    Rpc!Status
<1>. QED BY <1>3, <1>4, <1>5

-----------------------------------------------------------------------------
(* The steps of the session's thread that send.                            *)

\* The packets that are on their way when one more is sent.
LEMMA OneMorePacket ==
    ASSUME NEW up \in Seq(Packet), NEW p \in Packet
    PROVE  /\ Append(up, p) \in Seq(Packet)
           /\ \A k \in 1 .. Len(Append(up, p)) :
                 \/ k \in 1 .. Len(up) /\ Append(up, p)[k] = up[k]
                 \/ Append(up, p)[k] = p
  OBVIOUS

LEMMA SendSingleStep ==
    ASSUME Inductive, NEW r \in Requests, sendSingle(r)
    PROVE  Inductive'
<1>. USE DEF Inductive
<1>1. r \in data.toSend
  BY DEF sendSingle, batch
<1>2. someSkipped \in BOOLEAN
  BY DEF someSkipped
<1>3. TypeOK'
  BY <1>2 DEF TypeOK, sendSingle, Data, Private
<1>4. Owned'
  BY DEF TypeOK, Owned, sendSingle, Data, Private
<1>5. Justified'
  BY <1>1 DEF TypeOK, Justified, sendSingle, hasCallback, Data, Private
<1>. QED BY <1>3, <1>4, <1>5

\* The request owns the next msg_id, which nobody had.
LEMMA SentSingleStep ==
    ASSUME Inductive, NEW r \in Requests, sentSingle(r)
    PROVE  Inductive'
<1>. USE DEF Inductive
<1>. DEFINE id == server.nextId
            p == [id |-> id, ids |-> {id}, states |-> {}]
<1>1. id \in Id /\ r \in priv.sending /\ r # NoRequest
  BY RequestsAssumption DEF sentSingle, NoRequest
<1>2. /\ data' = [data EXCEPT !.haveSent = @ \cup {id}, !.msgId[r] = id]
      /\ priv' = [priv EXCEPT !.sending = {}, !.started = TRUE]
      /\ server' = [server EXCEPT !.nextId = id + 1, !.up = Append(@, p)]
      /\ owner' = [owner EXCEPT ![id] = r]
      /\ UNCHANGED <<main, status, executed>>
  BY DEF sentSingle
<1>3. p \in Packet
  BY <1>1 DEF Packet
<1>4. /\ server'.up \in Seq(Packet)
      /\ \A k \in 1 .. Len(server'.up) :
            \/ k \in 1 .. Len(server.up) /\ server'.up[k] = server.up[k]
            \/ server'.up[k] = p
  BY <1>2, <1>3, OneMorePacket DEF TypeOK, Server
<1>5. id + 1 \in 1 .. MaxId + 1
  BY <1>1, BoundsAssumption DEF Id
<1>6. TypeOK'
  <2>1. data' \in Data /\ priv' \in Private
    BY <1>1, <1>2 DEF TypeOK, Data, Private
  <2>2. server' \in Server
    BY <1>2, <1>4, <1>5 DEF TypeOK, Server
  <2>. QED BY <1>1, <1>2, <2>1, <2>2 DEF TypeOK
<1>. USE DEF TypeOK
<1>7. Owned'
  <2>0. \A m \in Id : m # id => owner'[m] = owner[m]
    BY <1>1, <1>2
  <2>00. owner'[id] = r /\ owner[id] = NoRequest
    BY <1>1, <1>2 DEF Owned, Id
  <2>1. \A q \in Requests : data'.msgId[q] # NoId => owner'[data'.msgId[q]] = q
    <3>. SUFFICES ASSUME NEW q \in Requests, data'.msgId[q] # NoId
                  PROVE  owner'[data'.msgId[q]] = q
      OBVIOUS
    <3>1. CASE q = r
      BY <1>1, <1>2, <2>00, <3>1 DEF Data
    <3>2. CASE q # r
      <4>1. data'.msgId[q] = data.msgId[q] /\ data.msgId[q] \in Id
        BY <1>2, <3>2 DEF Data
      <4>2. owner[data.msgId[q]] = q /\ q # NoRequest
        BY <4>1, RequestsAssumption DEF Owned, NoRequest
      <4>. QED BY <2>0, <2>00, <4>1, <4>2
    <3>. QED BY <3>1, <3>2
  <2>2. \A m \in Id : m >= server'.nextId => owner'[m] = NoRequest
    BY <1>1, <1>2, <2>0 DEF Owned, Id, Server
  <2>3. \A c \in priv'.containers : c.id < server'.nextId /\ owner'[c.id] = NoRequest
    BY <1>1, <1>2, <2>0 DEF Owned, Id, Server, Private, Container
  <2>4. \A m \in data'.haveSent \cup priv'.moving : owner'[m] # NoRequest
    BY <1>1, <1>2, <2>0, <2>00 DEF Owned, Data, Private
  <2>5. \A q \in main'.cancelling : main'.cancelId # NoId => owner'[main'.cancelId] = q
    BY <1>1, <1>2, <2>0, <2>00, RequestsAssumption DEF Owned, Main, NoRequest
  <2>. QED BY <2>1, <2>2, <2>3, <2>4, <2>5 DEF Owned
<1>8. Justified'
  <2>0. \A m \in Id : owner[m] # NoRequest => owner'[m] = owner[m]
    BY <1>1, <1>2 DEF Owned, Id
  <2>00. owner'[id] = r
    BY <1>1, <1>2
  <2>1. \A q \in data'.toSend \cup priv'.sending \cup main'.delayed : status'[q] # "new"
    BY <1>2 DEF Justified, Data, Private
  <2>2. \A m \in Id : owner'[m] # NoRequest => status'[owner'[m]] # "new"
    BY <1>1, <1>2 DEF Justified
  <2>3. \A q \in main'.cancelling : hasCallback(q)'
    BY <1>2 DEF Justified, hasCallback
  <2>4. \A k \in 1 .. Len(server'.up) : \A m \in server'.up[k].ids : owner'[m] # NoRequest
    <3>. SUFFICES ASSUME NEW k \in 1 .. Len(server'.up), NEW m \in server'.up[k].ids
                  PROVE  owner'[m] # NoRequest
      OBVIOUS
    <3>1. CASE k \in 1 .. Len(server.up) /\ server'.up[k] = server.up[k]
      <4>1. server.up[k] \in Packet
        BY <3>1 DEF Server
      <4>. QED BY <2>0, <3>1, <4>1 DEF Justified, Packet
    <3>2. CASE server'.up[k] = p
      BY <1>1, <2>00, <3>2
    <3>. QED BY <1>4, <3>1, <3>2
  <2>5. \A m \in server'.got : owner'[m] \in executed'
    <3>. SUFFICES ASSUME NEW m \in server.got
                  PROVE  owner'[m] \in executed
      BY <1>2 DEF Server
    <3>1. owner[m] \in executed /\ m \in Id
      BY DEF Justified, Server
    <3>. QED BY <2>0, <3>1, RequestsAssumption DEF NoRequest
  <2>6. \A a \in data'.received :
           owner'[a.id] # NoRequest /\ (~a.again => owner'[a.id] \in executed')
    BY <1>2, <2>0 DEF Justified, Data, Answer
  <2>. QED BY <2>1, <2>2, <2>3, <2>4, <2>5, <2>6 DEF Justified
<1>. QED BY <1>6, <1>7, <1>8

\* What is said of the requests in the container that is sent: those with a
\* new msg_id own it, and nothing else changes its owner.
LEMMA ContainerOwners ==
    ASSUME Inductive, sendContainer
    PROVE  /\ \A r \in batch : r \in Requests /\ idFor(r) \in Id /\ owner'[idFor(r)] = r
           /\ \A r \in batch : idFor(r) < server'.nextId
           /\ \A m \in Id : owner[m] # NoRequest => owner'[m] = owner[m]
           /\ \A m \in Id : m >= server'.nextId => owner'[m] = NoRequest
           /\ \A m \in Id : m < server.nextId => owner'[m] = owner[m]
           /\ owner'[server'.nextId - 1] = NoRequest
           /\ server.nextId < server'.nextId
           /\ server'.nextId - 1 \in Id
           /\ \A m \in Id : owner'[m] = owner[m] \/ owner'[m] \in batch
           /\ owner' \in [Id -> Requests \cup {NoRequest}]
<1>. USE DEF Inductive
<1>. DEFINE n == Cardinality(renewedBatch)
            id == server.nextId + n
            new(m) == CHOOSE r \in batch : renewed(r) /\ m = idFor(r)
            given(m) == \E r \in batch : renewed(r) /\ m = idFor(r)
<1>1. /\ id \in Id
      /\ server'.nextId = id + 1
      /\ owner' = [m \in Id |-> IF given(m) THEN new(m) ELSE owner[m]]
  BY DEF sendContainer, renewedBatch, TypeOK, Server
<1>2. n \in Nat /\ server.nextId \in Nat /\ server.nextId > 0
  BY BatchIds DEF TypeOK, Server
<1>3. batch \subseteq Requests
  BY DEF TypeOK, Data, batch
<1>4. \A r \in batch : renewed(r) => r \in renewedBatch /\ idFor(r) = newId(r)
  BY DEF renewedBatch, idFor
<1>5. \A r \in batch : renewed(r) =>
         /\ idFor(r) \in Id
         /\ server.nextId <= idFor(r) /\ idFor(r) < id
  <2>. SUFFICES ASSUME NEW r \in batch, renewed(r)
                PROVE  /\ idFor(r) \in Id
                       /\ server.nextId <= idFor(r) /\ idFor(r) < id
    OBVIOUS
  <2>1. r \in renewedBatch /\ idFor(r) = newId(r)
    BY <1>4
  <2>2. newId(r) \in Int /\ server.nextId <= newId(r) /\ newId(r) < id
    BY <2>1, BatchIds
  <2>. HIDE DEF n
  <2>. QED BY <1>1, <1>2, <2>1, <2>2, BoundsAssumption DEF Id
<1>6. \A q, r \in batch : renewed(q) /\ renewed(r) /\ idFor(q) = idFor(r) => q = r
  <2>. SUFFICES ASSUME NEW q \in batch, NEW r \in batch, renewed(q), renewed(r),
                       idFor(q) = idFor(r), q # r
                PROVE  FALSE
    OBVIOUS
  <2>1. q \in renewedBatch /\ r \in renewedBatch /\ newId(q) = newId(r)
    BY <1>4
  <2>2. newId(q) \in Int /\ newId(r) \in Int
    BY <2>1, BatchIds
  <2>3. q < r \/ r < q
    BY <1>3, RequestsAssumption
  <2>. QED BY <2>1, <2>2, <2>3, BatchIds
<1>7. \A r \in batch : ~renewed(r) =>
         /\ idFor(r) = data.msgId[r] /\ idFor(r) \in Id
         /\ owner[idFor(r)] = r
  BY <1>3 DEF renewed, idFor, Owned, TypeOK, Data
<1>8. \A m \in Id : owner[m] # NoRequest => m < server.nextId
  BY <1>2 DEF Owned, Id
<1>9. \A r \in batch : r # NoRequest
  BY <1>3, RequestsAssumption DEF NoRequest
<1>10. \A m \in Id : given(m) => server.nextId <= m /\ m < id
  BY <1>5
<1>11. \A r \in batch : renewed(r) => new(idFor(r)) = r /\ given(idFor(r))
  BY <1>6
<1>12. \A m \in Id : given(m) => new(m) \in batch
  OBVIOUS
<1>13. \A m \in Id : given(m) => owner'[m] = new(m)
  BY <1>1
<1>14. \A m \in Id : ~given(m) => owner'[m] = owner[m]
  BY <1>1
<1>. HIDE DEF new, given
<1>15. \A m \in Id : m < server.nextId => owner'[m] = owner[m]
  BY <1>2, <1>10, <1>14 DEF Id
<1>16. \A r \in batch : idFor(r) \in Id /\ owner'[idFor(r)] = r
  <2>. SUFFICES ASSUME NEW r \in batch
                PROVE  idFor(r) \in Id /\ owner'[idFor(r)] = r
    OBVIOUS
  <2>1. CASE renewed(r)
    BY <1>5, <1>11, <1>13, <2>1
  <2>2. CASE ~renewed(r)
    BY <1>7, <1>8, <1>9, <1>15, <2>2
  <2>. QED BY <2>1, <2>2
<1>17. \A r \in batch : idFor(r) < id
  <2>. SUFFICES ASSUME NEW r \in batch PROVE idFor(r) < id
    OBVIOUS
  <2>1. CASE renewed(r)
    BY <1>5, <2>1
  <2>2. CASE ~renewed(r)
    BY <1>2, <1>7, <1>8, <1>9, <2>2 DEF Id
  <2>. QED BY <2>1, <2>2
<1>18. \A m \in Id : m >= id => owner'[m] = NoRequest
  BY <1>2, <1>10, <1>14 DEF Owned, Id
<1>19. owner' \in [Id -> Requests \cup {NoRequest}]
  <2>1. \A m \in Id : owner'[m] \in Requests \cup {NoRequest}
    BY <1>3, <1>12, <1>13, <1>14 DEF TypeOK
  <2>. QED BY <1>1, <2>1
<1>20. \A m \in Id : owner'[m] = owner[m] \/ owner'[m] \in batch
  BY <1>12, <1>13, <1>14
<1>. HIDE DEF n
<1>21. id \in Nat /\ server'.nextId - 1 = id
  BY <1>1, <1>2
<1>22. \A m \in Id : m \in Int
  BY DEF Id
<1>. HIDE DEF id
<1>23. \A r \in batch : idFor(r) < server'.nextId
  <2>. SUFFICES ASSUME NEW r \in batch PROVE idFor(r) < server'.nextId
    OBVIOUS
  <2>1. idFor(r) \in Int /\ idFor(r) < id
    BY <1>16, <1>17, <1>22
  <2>. QED BY <1>1, <1>21, <2>1
<1>24. \A m \in Id : m >= server'.nextId => owner'[m] = NoRequest
  BY <1>1, <1>18, <1>21, <1>22
<1>25. \A m \in Id : owner[m] # NoRequest => owner'[m] = owner[m]
  BY <1>8, <1>15
<1>26. owner'[id] = NoRequest /\ id \in Id
  BY <1>1, <1>18, <1>21
<1>27. server.nextId < server'.nextId
  BY <1>1, <1>2 DEF id
<1>. QED BY <1>3, <1>15, <1>16, <1>19, <1>20, <1>21, <1>23, <1>24, <1>25, <1>26, <1>27

\* replaceMsgId() keeps the owner.
LEMMA ReplacedKeepsOwner ==
    ASSUME Inductive, sendContainer, NEW m \in Id
    PROVE  /\ replaced(m) \in Id
           /\ owner[m] # NoRequest => owner'[replaced(m)] = owner[m]
<1>. USE DEF Inductive
<1>. DEFINE carries(r) == data.msgId[r] = m /\ renewed(r)
            q == CHOOSE r \in batch : carries(r)
<1>1. CASE \E r \in batch : carries(r)
  <2>1. q \in batch /\ carries(q)
    BY <1>1
  <2>2. replaced(m) = idFor(q)
    BY <1>1 DEF replaced
  <2>. HIDE DEF q
  <2>3. owner[m] = q
    BY <2>1, ContainerOwners DEF Owned, Id, NoId
  <2>. QED BY <2>1, <2>2, <2>3, ContainerOwners
<1>2. CASE ~ \E r \in batch : carries(r)
  <2>1. replaced(m) = m
    BY <1>2 DEF replaced
  <2>. QED BY <2>1, ContainerOwners
<1>. QED BY <1>1, <1>2

\* Both locks are held: all maps are changed at once.
LEMMA SendContainerStep ==
    ASSUME Inductive, sendContainer
    PROVE  Inductive'
<1>. USE DEF Inductive
<1>. DEFINE id == server.nextId + Cardinality({r \in batch : renewed(r)})
            ids == {idFor(r) : r \in batch}
            p == [id |-> id, ids |-> ids, states |-> priv.toCheck]
<1>1. /\ data' = [data EXCEPT !.toSend = @ \ batch,
                    !.msgId = [r \in Requests |-> IF r \in batch THEN idFor(r) ELSE @[r]],
                    !.haveSent = replacedAll(@) \cup ids]
      /\ priv' = [priv EXCEPT !.wake = someSkipped, !.started = TRUE,
                    !.resending = @ \ {data.msgId[r] : r \in batch},
                    !.acked = replacedAll(@),
                    !.containers = {[c EXCEPT !.ids = replacedAll(@)] : c \in @}
                                     \cup {[id |-> id, ids |-> ids]},
                    !.toCheck = {},
                    !.checkTimer = TRUE]
      /\ server' = [server EXCEPT !.nextId = id + 1, !.up = Append(@, p)]
      /\ UNCHANGED <<main, status, executed>>
      /\ threadIdle
  BY DEF sendContainer, canSend
<1>0. /\ id \in Id
      /\ server'.nextId = id + 1
  BY DEF sendContainer, TypeOK, Server
<1>00. id = server'.nextId - 1
  BY <1>0 DEF Id
<1>2. /\ \A r \in batch : r \in Requests /\ idFor(r) \in Id /\ owner'[idFor(r)] = r
      /\ \A r \in batch : idFor(r) < server'.nextId
      /\ \A m \in Id : owner[m] # NoRequest => owner'[m] = owner[m]
      /\ \A m \in Id : m >= server'.nextId => owner'[m] = NoRequest
      /\ \A m \in Id : m < server.nextId => owner'[m] = owner[m]
      /\ owner'[id] = NoRequest /\ id \in Id
      /\ \A m \in Id : owner'[m] = owner[m] \/ owner'[m] \in batch
      /\ owner' \in [Id -> Requests \cup {NoRequest}]
  BY <1>00, ContainerOwners
<1>3. server.nextId \in Int /\ server.nextId < server'.nextId /\ server'.nextId = id + 1
  BY <1>0, ContainerOwners DEF TypeOK, Server
<1>4. batch \subseteq data.toSend /\ batch \subseteq Requests
  BY DEF TypeOK, Data, batch
<1>5. \A S \in SUBSET Id : replacedAll(S) \in SUBSET Id
  BY ReplacedKeepsOwner DEF replacedAll
<1>6. ids \in SUBSET Id
  BY <1>2
<1>7. p \in Packet
  BY <1>2, <1>6 DEF Packet, TypeOK, Private
<1>8. /\ server'.up \in Seq(Packet)
      /\ \A k \in 1 .. Len(server'.up) :
            \/ k \in 1 .. Len(server.up) /\ server'.up[k] = server.up[k]
            \/ server'.up[k] = p
  <2>1. server'.up = Append(server.up, p)
    BY <1>1 DEF TypeOK, Server
  <2>. QED BY <1>7, <2>1, OneMorePacket DEF TypeOK, Server
<1>9. data'.haveSent = replacedAll(data.haveSent) \cup ids
  BY <1>1 DEF TypeOK, Data
<1>10. priv'.containers = {[c EXCEPT !.ids = replacedAll(@)] : c \in priv.containers}
                            \cup {[id |-> id, ids |-> ids]}
  BY <1>1 DEF TypeOK, Private
<1>. HIDE DEF id, ids, p
<1>11. TypeOK'
  <2>1. data' \in Data
    BY <1>1, <1>2, <1>5, <1>6 DEF TypeOK, Data
  <2>2. [id |-> id, ids |-> ids] \in Container
    BY <1>2, <1>6 DEF Container
  <2>3. \A c \in priv.containers : [c EXCEPT !.ids = replacedAll(@)] \in Container
    BY <1>5 DEF TypeOK, Private, Container
  <2>4. priv'.containers \subseteq Container
    BY <1>10, <2>2, <2>3
  <2>5. priv' \in Private
    <3>1. someSkipped \in BOOLEAN
      BY DEF someSkipped
    <3>2. replacedAll(priv.acked) \in SUBSET Id
      BY <1>5 DEF TypeOK, Private
    <3>. QED BY <1>1, <2>4, <3>1, <3>2 DEF TypeOK, Private
  <2>6. server' \in Server
    <3>1. id + 1 \in 1 .. MaxId + 1
      BY <1>2, BoundsAssumption DEF Id
    <3>. QED BY <1>1, <1>8, <3>1 DEF TypeOK, Server
  <2>. QED BY <1>1, <1>2, <2>1, <2>5, <2>6 DEF TypeOK
<1>12. Owned'
  <2>1. \A r \in Requests : data'.msgId[r] # NoId => owner'[data'.msgId[r]] = r
    <3>. SUFFICES ASSUME NEW r \in Requests, data'.msgId[r] # NoId
                  PROVE  owner'[data'.msgId[r]] = r
      OBVIOUS
    <3>1. CASE r \in batch
      BY <1>1, <1>2, <3>1 DEF TypeOK, Data
    <3>2. CASE r \notin batch
      <4>1. data'.msgId[r] = data.msgId[r] /\ data.msgId[r] \in Id
        BY <1>1, <3>2 DEF TypeOK, Data
      <4>2. owner[data.msgId[r]] = r /\ r # NoRequest
        BY <4>1, RequestsAssumption DEF Owned, NoRequest
      <4>. QED BY <1>2, <4>1, <4>2
    <3>. QED BY <3>1, <3>2
  <2>2. \A c \in priv'.containers : c.id < server'.nextId /\ owner'[c.id] = NoRequest
    <3>. SUFFICES ASSUME NEW c \in priv'.containers
                  PROVE  c.id < server'.nextId /\ owner'[c.id] = NoRequest
      OBVIOUS
    <3>1. CASE c = [id |-> id, ids |-> ids]
      BY <1>2, <1>3, <3>1 DEF Id
    <3>2. CASE c # [id |-> id, ids |-> ids]
      <4>1. PICK d \in priv.containers : c = [d EXCEPT !.ids = replacedAll(@)]
        BY <1>10, <3>2
      <4>2. c.id = d.id /\ d.id \in Id
        BY <4>1 DEF TypeOK, Private, Container
      <4>3. d.id < server.nextId /\ owner[d.id] = NoRequest
        BY DEF Owned
      <4>. QED BY <1>2, <1>3, <4>2, <4>3 DEF Id
    <3>. QED BY <3>1, <3>2
  <2>3. \A m \in data'.haveSent \cup priv'.moving : owner'[m] # NoRequest
    <3>1. priv'.moving = {}
      BY <1>1 DEF threadIdle, TypeOK, Private
    <3>2. \A m \in ids : owner'[m] # NoRequest
      BY <1>2, RequestsAssumption DEF ids, NoRequest
    <3>3. \A m \in replacedAll(data.haveSent) : owner'[m] # NoRequest
      <4>. SUFFICES ASSUME NEW m \in data.haveSent
                    PROVE  owner'[replaced(m)] # NoRequest
        BY DEF replacedAll
      <4>1. m \in Id /\ owner[m] # NoRequest
        BY DEF TypeOK, Data, Owned
      <4>. QED BY <4>1, ReplacedKeepsOwner
    <3>. QED BY <1>9, <3>1, <3>2, <3>3
  <2>4. \A r \in main'.cancelling : main'.cancelId # NoId => owner'[main'.cancelId] = r
    <3>. SUFFICES ASSUME NEW r \in main.cancelling, main.cancelId # NoId
                  PROVE  owner'[main.cancelId] = r
      BY <1>1
    <3>1. r \in Requests /\ main.cancelId \in Id /\ owner[main.cancelId] = r
      BY DEF TypeOK, Main, Owned
    <3>. QED BY <1>2, <3>1, RequestsAssumption DEF NoRequest
  <2>. QED BY <1>2, <2>1, <2>2, <2>3, <2>4 DEF Owned
<1>13. Justified'
  <2>1. \A r \in data'.toSend \cup priv'.sending \cup main'.delayed : status'[r] # "new"
    BY <1>1 DEF TypeOK, Justified, Data, Private
  <2>2. \A m \in Id : owner'[m] # NoRequest => status'[owner'[m]] # "new"
    BY <1>1, <1>2, <1>4 DEF Justified
  <2>3. \A r \in main'.cancelling : hasCallback(r)'
    BY <1>1 DEF Justified, hasCallback
  <2>4. \A k \in 1 .. Len(server'.up) : \A m \in server'.up[k].ids : owner'[m] # NoRequest
    <3>. SUFFICES ASSUME NEW k \in 1 .. Len(server'.up), NEW m \in server'.up[k].ids
                  PROVE  owner'[m] # NoRequest
      OBVIOUS
    <3>1. CASE k \in 1 .. Len(server.up) /\ server'.up[k] = server.up[k]
      <4>1. server.up[k] \in Packet
        BY <3>1 DEF TypeOK, Server
      <4>2. m \in Id /\ owner[m] # NoRequest
        BY <3>1, <4>1 DEF Justified, Packet
      <4>. QED BY <1>2, <4>2
    <3>2. CASE server'.up[k] = p
      BY <1>2, <3>2, RequestsAssumption DEF p, ids, NoRequest
    <3>. QED BY <1>8, <3>1, <3>2
  <2>5. \A m \in server'.got : owner'[m] \in executed'
    <3>. SUFFICES ASSUME NEW m \in server.got PROVE owner'[m] \in executed
      BY <1>1 DEF TypeOK, Server
    <3>1. owner[m] \in Requests /\ m \in Id /\ owner[m] \in executed
      BY DEF TypeOK, Justified, Server
    <3>. QED BY <1>2, <3>1, RequestsAssumption DEF NoRequest
  <2>6. \A a \in data'.received :
           owner'[a.id] # NoRequest /\ (~a.again => owner'[a.id] \in executed')
    <3>. SUFFICES ASSUME NEW a \in data.received
                  PROVE  owner'[a.id] # NoRequest /\ (~a.again => owner'[a.id] \in executed)
      BY <1>1 DEF TypeOK, Data
    <3>1. a.id \in Id
      BY DEF TypeOK, Data, Answer
    <3>. QED BY <1>2, <3>1 DEF Justified
  <2>. QED BY <2>1, <2>2, <2>3, <2>4, <2>5, <2>6 DEF Justified
<1>. QED BY <1>11, <1>12, <1>13

-----------------------------------------------------------------------------
(* The other steps hand out no msg_id and tell the caller nothing.         *)

\* What such a step has to keep.
LEMMA NoNewIds ==
    ASSUME Inductive, TypeOK',
           UNCHANGED <<main, owner, status>>, executed \subseteq executed',
           data'.msgId = data.msgId, server'.nextId = server.nextId,
           priv'.containers \subseteq priv.containers,
           priv'.sending \subseteq priv.sending,
           data'.haveSent \cup priv'.moving \subseteq data.haveSent \cup priv.moving,
           \A r \in data'.toSend : r \in data.toSend \/ \E m \in priv.moving : r = owner[m],
           \A a \in data'.received :
              \/ a \in data.received
              \/ owner[a.id] # NoRequest /\ (~a.again => owner[a.id] \in executed),
           \A k \in 1 .. Len(server'.up) : \A m \in server'.up[k].ids : owner[m] # NoRequest,
           \A m \in server'.got : owner[m] \in executed'
    PROVE  Inductive'
<1>. USE DEF Inductive
<1>1. Owned'
  BY DEF Owned
<1>2. \A r \in data'.toSend \cup priv'.sending \cup main'.delayed : status'[r] # "new"
  <2>1. \A m \in priv.moving : m \in Id /\ owner[m] # NoRequest
    BY DEF TypeOK, Private, Owned
  <2>. QED BY <2>1 DEF Justified
<1>3. \A r \in main'.cancelling : hasCallback(r)'
  BY DEF Justified, hasCallback
<1>4. Justified'
  BY <1>2, <1>3 DEF Justified
<1>. QED BY <1>1, <1>4

\* For those that leave the server alone, too.
LEMMA NoNewIdsHere ==
    ASSUME Inductive, TypeOK',
           UNCHANGED <<main, owner, status, executed>>,
           data'.msgId = data.msgId, server'.nextId = server.nextId,
           server'.up = server.up, server'.got = server.got,
           priv'.containers \subseteq priv.containers,
           priv'.sending \subseteq priv.sending,
           data'.haveSent \cup priv'.moving \subseteq data.haveSent \cup priv.moving,
           \A r \in data'.toSend : r \in data.toSend \/ \E m \in priv.moving : r = owner[m],
           \A a \in data'.received :
              \/ a \in data.received
              \/ owner[a.id] # NoRequest /\ (~a.again => owner[a.id] \in executed)
    PROVE  Inductive'
<1>1. \A k \in 1 .. Len(server'.up) : \A m \in server'.up[k].ids : owner[m] # NoRequest
  BY DEF Inductive, Justified
<1>2. \A m \in server'.got : owner[m] \in executed'
  BY DEF Inductive, Justified
<1>. QED BY <1>1, <1>2, NoNewIds

LEMMA TimerStep ==
    ASSUME Inductive, tryToSendNothing \/ checkSentRequests
    PROVE  Inductive'
<1>. USE DEF Inductive
<1>1. CASE tryToSendNothing
  <2>1. TypeOK'
    BY <1>1 DEF TypeOK, tryToSendNothing, Private
  <2>2. /\ priv'.containers = priv.containers /\ priv'.sending = priv.sending
        /\ priv'.moving = priv.moving
    BY <1>1 DEF TypeOK, tryToSendNothing, Private
  <2>. QED BY <1>1, <2>1, <2>2, NoNewIdsHere DEF tryToSendNothing
<1>2. CASE checkSentRequests
  <2>1. PICK old \in SUBSET data.haveSent :
           priv' = [priv EXCEPT !.toCheck = @ \cup old,
                       !.wake = @ \/ ~(old \subseteq priv.toCheck),
                       !.checkTimer = old # data.haveSent]
    BY <1>2 DEF checkSentRequests
  <2>2. UNCHANGED <<main, data, server, owner, status, executed>>
    BY <1>2 DEF checkSentRequests
  <2>3. (priv.wake \/ ~(old \subseteq priv.toCheck)) \in BOOLEAN
    BY DEF TypeOK, Private
  <2>4. priv' \in Private
    BY <2>1, <2>3 DEF TypeOK, Private, Data
  <2>5. TypeOK'
    BY <2>2, <2>4 DEF TypeOK
  <2>6. /\ priv'.containers = priv.containers /\ priv'.sending = priv.sending
        /\ priv'.moving = priv.moving
    BY <2>1 DEF TypeOK, Private
  <2>. QED BY <2>2, <2>5, <2>6, NoNewIdsHere
<1>. QED BY <1>1, <1>2

LEMMA SendStatesStep ==
    ASSUME Inductive, sendStates
    PROVE  Inductive'
<1>. USE DEF Inductive
<1>. DEFINE p == [id |-> NoId, ids |-> {}, states |-> priv.toCheck]
<1>1. /\ priv' = [priv EXCEPT !.wake = FALSE, !.started = TRUE, !.toCheck = {}]
      /\ server' = [server EXCEPT !.up = Append(@, p)]
      /\ UNCHANGED <<main, data, owner, status, executed>>
  BY DEF sendStates
<1>2. p \in Packet
  BY DEF Packet, TypeOK, Private
<1>3. server'.up = Append(server.up, p)
  BY <1>1 DEF TypeOK, Server
<1>4. /\ server'.up \in Seq(Packet)
      /\ \A k \in 1 .. Len(server'.up) :
            \/ k \in 1 .. Len(server.up) /\ server'.up[k] = server.up[k]
            \/ server'.up[k] = p
  BY <1>2, <1>3, OneMorePacket DEF TypeOK, Server
<1>5. TypeOK'
  BY <1>1, <1>4 DEF TypeOK, Server, Private
<1>6. /\ priv'.containers = priv.containers /\ priv'.sending = priv.sending
      /\ priv'.moving = priv.moving
      /\ server'.nextId = server.nextId /\ server'.got = server.got
  BY <1>1 DEF TypeOK, Private, Server
<1>7. \A k \in 1 .. Len(server'.up) : \A m \in server'.up[k].ids : owner[m] # NoRequest
  BY <1>4 DEF Justified
<1>8. \A m \in server'.got : owner[m] \in executed'
  BY <1>1, <1>6 DEF Justified
<1>. HIDE DEF p
<1>. QED BY <1>1, <1>5, <1>6, <1>7, <1>8, NoNewIds

\* What a container holds are msg_ids.
LEMMA ContainedType ==
    ASSUME TypeOK, NEW ids \in SUBSET Id
    PROVE  contained(ids) \in SUBSET Id
  BY DEF TypeOK, Private, Container, contained

\* resend() and resendAll() up to the gap between their locks.
LEMMA TakeBackFields ==
    ASSUME TypeOK, threadIdle, NEW ids \in SUBSET Id, takeBack(ids)
    PROVE  /\ data' \in Data /\ priv' \in Private
           /\ data'.msgId = data.msgId /\ data'.toSend = data.toSend
           /\ data'.received = data.received
           /\ priv'.containers \subseteq priv.containers
           /\ priv'.sending = priv.sending
           /\ data'.haveSent \cup priv'.moving = data.haveSent
<1>1. contained(ids) \in SUBSET Id
  BY ContainedType
<1>2. {c \in priv.containers : c.id \notin ids} \subseteq priv.containers
  OBVIOUS
<1>3. data'.haveSent = data.haveSent \ contained(ids)
  BY DEF takeBack, TypeOK, Data
<1>4. priv'.moving = contained(ids) \cap data.haveSent
  BY DEF takeBack, TypeOK, Private
<1>5. data' \in Data
  BY DEF takeBack, TypeOK, Data
<1>6. priv' \in Private
  BY <1>1, <1>2 DEF takeBack, TypeOK, Private
<1>7. priv'.containers \subseteq priv.containers /\ priv'.sending = priv.sending
  BY <1>2 DEF takeBack, TypeOK, Private
<1>8. /\ data'.msgId = data.msgId /\ data'.toSend = data.toSend
      /\ data'.received = data.received
  BY DEF takeBack, TypeOK, Data
<1>. QED BY <1>3, <1>4, <1>5, <1>6, <1>7, <1>8

LEMMA ClearOldStep ==
    ASSUME Inductive, NEW c \in priv.containers, clearOldContainers(c)
    PROVE  Inductive'
<1>. USE DEF Inductive
<1>1. {c.id} \in SUBSET Id
  BY DEF TypeOK, Private, Container
<1>2. takeBack({c.id}) /\ threadIdle /\ mayFail /\ server' = faulty
      /\ UNCHANGED <<main, owner, status, executed>>
  BY DEF clearOldContainers
<1>3. /\ data' \in Data /\ priv' \in Private
      /\ data'.msgId = data.msgId /\ data'.toSend = data.toSend
      /\ data'.received = data.received
      /\ priv'.containers \subseteq priv.containers
      /\ priv'.sending = priv.sending
      /\ data'.haveSent \cup priv'.moving = data.haveSent
  BY <1>1, <1>2, TakeBackFields
<1>4. server' \in Server
  BY <1>2, BoundsAssumption DEF TypeOK, Server, faulty, mayFail
<1>5. TypeOK'
  BY <1>2, <1>3, <1>4 DEF TypeOK
<1>6. /\ server'.nextId = server.nextId /\ server'.up = server.up
      /\ server'.got = server.got
  BY <1>2 DEF TypeOK, Server, faulty
<1>. QED BY <1>2, <1>3, <1>5, <1>6, NoNewIdsHere

LEMMA ResendStep ==
    ASSUME Inductive, resend
    PROVE  Inductive'
<1>. USE DEF Inductive
<1>. DEFINE requests == {owner[m] : m \in priv.moving}
<1>1. \A m \in priv.moving : m \in Id /\ owner[m] \in Requests
  BY DEF TypeOK, Private, Owned
<1>2. requests \in SUBSET Requests
  BY <1>1
<1>3. /\ data' = [data EXCEPT !.toSend = @ \cup requests, !.forced = @ \cup requests]
      /\ priv' = [priv EXCEPT !.moving = {}, !.wake = TRUE,
                              !.resending = @ \cup priv.moving]
      /\ UNCHANGED <<main, server, owner, status, executed>>
  BY DEF resend
<1>4. \A r \in requests : \E m \in priv.moving : r = owner[m]
  OBVIOUS
<1>. HIDE DEF requests
<1>5. TypeOK'
  BY <1>2, <1>3 DEF TypeOK, Data, Private
<1>6. /\ data'.msgId = data.msgId /\ data'.received = data.received
      /\ data'.haveSent = data.haveSent /\ data'.toSend = data.toSend \cup requests
      /\ priv'.containers = priv.containers /\ priv'.sending = priv.sending
      /\ priv'.moving = {}
  BY <1>3 DEF TypeOK, Data, Private
<1>. QED BY <1>3, <1>4, <1>5, <1>6, NoNewIdsHere

LEMMA ConnectStep ==
    ASSUME Inductive, connectToServer
    PROVE  Inductive'
<1>. USE DEF Inductive
<1>1. TypeOK'
  BY DEF TypeOK, connectToServer, Data, Private
<1>2. /\ data'.msgId = data.msgId /\ data'.received = data.received
      /\ data'.haveSent = {} /\ data'.toSend = data.toSend
      /\ priv'.containers = priv.containers /\ priv'.sending = priv.sending
      /\ priv'.moving = data.haveSent
      /\ UNCHANGED <<main, server, owner, status, executed>>
  BY DEF TypeOK, connectToServer, Data, Private
<1>. QED BY <1>1, <1>2, NoNewIdsHere

\* What requestsAcked() does to the session.
LEMMA AfterAckedFields ==
    ASSUME TypeOK, NEW ids \in SUBSET Id, NEW byResponse \in BOOLEAN
    PROVE  LET p == afterAcked(ids, byResponse) IN
           /\ p \in Private
           /\ p.containers \subseteq priv.containers
           /\ p.sending = priv.sending /\ p.moving = priv.moving
           /\ p.wake = priv.wake /\ p.connected = priv.connected
<1>. DEFINE done == acknowledged(ids, byResponse)
            all == priv.acked \cup {m \in done : m \in data.haveSent \/ owner[m] \in data.toSend}
<1>1. contained(ids) \in SUBSET Id
  BY ContainedType
<1>2. done \in SUBSET Id
  BY <1>1 DEF acknowledged
<1>3. trimmed(all) \in SUBSET Id
  BY <1>2 DEF trimmed, TypeOK, Private
<1>4. afterAcked(ids, byResponse) =
         [priv EXCEPT !.containers = {c \in @ : c.id \notin ids},
                      !.resending = @ \ (done \ data.haveSent),
                      !.acked = trimmed(all)]
  BY DEF afterAcked, TypeOK, Private
<1>. HIDE DEF done, all
<1>. QED BY <1>3, <1>4 DEF TypeOK, Private

LEMMA AckStep ==
    ASSUME Inductive, NEW m \in Id, handleAck(m)
    PROVE  Inductive'
<1>. USE DEF Inductive
<1>. DEFINE gone == acknowledged({m}, FALSE)
            unsent == notResent({m}, FALSE)
<1>1. /\ priv' = afterAcked({m}, FALSE)
      /\ data' = [data EXCEPT !.haveSent = @ \ gone, !.toSend = @ \ unsent]
      /\ UNCHANGED <<main, server, owner, status, executed>>
  BY DEF handleAck, requestsAcked
<1>2. /\ priv' \in Private
      /\ priv'.containers \subseteq priv.containers
      /\ priv'.sending = priv.sending /\ priv'.moving = priv.moving
  BY <1>1, AfterAckedFields
<1>. HIDE DEF gone, unsent
<1>3. /\ data' \in Data
      /\ data'.msgId = data.msgId /\ data'.received = data.received
      /\ data'.haveSent \subseteq data.haveSent /\ data'.toSend \subseteq data.toSend
  BY <1>1 DEF TypeOK, Data
<1>4. TypeOK'
  BY <1>1, <1>2, <1>3 DEF TypeOK
<1>. QED BY <1>1, <1>2, <1>3, <1>4, NoNewIdsHere

LEMMA ResultStep ==
    ASSUME Inductive, NEW m \in Id, rpcResult(m)
    PROVE  Inductive'
<1>. USE DEF Inductive
<1>1. PICK again \in {FALSE, mayFail} :
         /\ m \in server.got \ server.told
         /\ owner[m] # NoRequest
         /\ priv' = afterAcked({m}, TRUE)
         /\ data' = [data EXCEPT
                       !.haveSent = @ \ {m},
                       !.toSend = @ \ notResent({m}, TRUE),
                       !.received = IF recognised(m)
                                    THEN @ \cup {[id |-> m, again |-> again]}
                                    ELSE @]
         /\ server' = [IF again THEN faulty ELSE server EXCEPT !.told = @ \cup {m}]
         /\ UNCHANGED <<main, owner, status, executed>>
  BY DEF rpcResult
<1>2. /\ priv' \in Private
      /\ priv'.containers \subseteq priv.containers
      /\ priv'.sending = priv.sending /\ priv'.moving = priv.moving
  BY <1>1, AfterAckedFields
<1>. DEFINE answer == [id |-> m, again |-> again]
            unsent == notResent({m}, TRUE)
<1>3. again \in BOOLEAN /\ answer \in Answer /\ (again => mayFail)
  <2>1. mayFail \in BOOLEAN
    BY DEF mayFail
  <2>2. again = FALSE \/ again = mayFail
    OBVIOUS
  <2>3. again \in BOOLEAN /\ (again => mayFail)
    <3>1. CASE again = FALSE
      BY <3>1
    <3>2. CASE again = mayFail
      <4>1. again \in BOOLEAN
        BY <2>1, <3>2, Zenon
      <4>2. again => mayFail
        BY <3>2, Zenon
      <4>. QED BY <4>1, <4>2
    <3>. QED BY <2>2, <3>1, <3>2
  <2>. QED BY <2>3 DEF Answer
<1>4. owner[answer.id] # NoRequest /\ owner[answer.id] \in executed
  <2>1. owner[m] # NoRequest /\ owner[m] \in executed
    BY <1>1 DEF Justified
  <2>2. answer.id = m
    OBVIOUS
  <2>. QED BY <2>1, <2>2
<1>5. data' = [data EXCEPT !.haveSent = @ \ {m}, !.toSend = @ \ unsent,
                 !.received = IF recognised(m) THEN @ \cup {answer} ELSE @]
  BY <1>1
<1>. HIDE DEF answer, unsent
<1>6. /\ data' \in Data /\ data'.msgId = data.msgId
      /\ data'.haveSent \subseteq data.haveSent /\ data'.toSend \subseteq data.toSend
      /\ data'.received \subseteq data.received \cup {answer}
  <2>1. CASE recognised(m)
    BY <1>3, <1>5, <2>1 DEF TypeOK, Data
  <2>2. CASE ~recognised(m)
    BY <1>3, <1>5, <2>2 DEF TypeOK, Data
  <2>. QED BY <2>1, <2>2
<1>7. /\ server' \in Server
      /\ server'.nextId = server.nextId /\ server'.up = server.up
      /\ server'.got = server.got
  <2>1. CASE again
    <3>1. server' = [[server EXCEPT !.faults = @ + 1] EXCEPT !.told = @ \cup {m}]
      BY <1>1, <2>1 DEF faulty
    <3>2. server.faults + 1 \in 0 .. MaxFaults
      BY <1>3, <2>1, BoundsAssumption DEF TypeOK, Server, mayFail
    <3>. QED BY <3>1, <3>2 DEF TypeOK, Server
  <2>2. CASE ~again
    BY <1>1, <2>2 DEF TypeOK, Server
  <2>. QED BY <2>1, <2>2
<1>8. TypeOK'
  BY <1>1, <1>2, <1>6, <1>7 DEF TypeOK
<1>9. \A a \in data'.received :
        \/ a \in data.received
        \/ owner[a.id] # NoRequest /\ owner[a.id] \in executed
  <2>. TAKE a \in data'.received
  <2>2. a \in data.received \/ a = answer
    BY <1>6
  <2>. QED BY <1>4, <2>2
<1>. QED BY <1>1, <1>2, <1>6, <1>7, <1>8, <1>9, NoNewIdsHere

\* What is received leaves the rest of the server alone.
LEMMA TakenFields ==
    ASSUME TypeOK, NEW i \in server.down
    PROVE  /\ taken(i) \in Server
           /\ taken(i).nextId = server.nextId /\ taken(i).up = server.up
           /\ taken(i).got = server.got
           /\ i \in Info
  BY DEF TypeOK, Server, taken

LEMMA StatesStep ==
    ASSUME Inductive, NEW i \in server.down, handleMsgsStates(i)
    PROVE  Inductive'
<1>. USE DEF Inductive
<1>. DEFINE lost == (i.ids \ i.known) \cap data.haveSent
            done == acknowledged(i.known, FALSE)
            unsent == notResent(i.known, FALSE)
            acked == afterAcked(i.known, FALSE)
<1>1. threadIdle /\ i.kind = "states"
  BY DEF handleMsgsStates, received, listening
<1>2. /\ data' = [data EXCEPT !.haveSent = @ \ (lost \cup done),
                              !.toSend = @ \ unsent]
      /\ priv' = [acked EXCEPT !.moving = lost, !.wake = @ \/ lost # {}]
      /\ server' = taken(i)
      /\ UNCHANGED <<main, owner, status, executed>>
  BY DEF handleMsgsStates
<1>3. i \in Info
  BY TakenFields
<1>4. i.known \in SUBSET Id
  BY <1>1, <1>3 DEF Info
<1>5. /\ acked \in Private /\ acked.containers \subseteq priv.containers
      /\ acked.sending = priv.sending /\ acked.wake = priv.wake
  BY <1>4, AfterAckedFields
<1>6. lost \subseteq data.haveSent
  OBVIOUS
<1>. HIDE DEF lost, done, unsent, acked
<1>7. /\ data' \in Data
      /\ data'.msgId = data.msgId /\ data'.received = data.received
      /\ data'.haveSent \subseteq data.haveSent /\ data'.toSend \subseteq data.toSend
  BY <1>2 DEF TypeOK, Data
<1>8. lost \in SUBSET Id
  BY <1>6 DEF TypeOK, Data
<1>9. acked.wake \in BOOLEAN /\ (acked.wake \/ lost # {}) \in BOOLEAN
  BY <1>5 DEF Private
<1>10. /\ priv' \in Private /\ priv'.moving = lost
       /\ priv'.containers = acked.containers /\ priv'.sending = priv.sending
  BY <1>2, <1>5, <1>8, <1>9 DEF Private
<1>11. /\ server' \in Server
       /\ server'.nextId = server.nextId /\ server'.up = server.up
       /\ server'.got = server.got
  BY <1>2, TakenFields
<1>12. TypeOK'
  BY <1>2, <1>7, <1>10, <1>11 DEF TypeOK
<1>13. /\ data'.haveSent \cup priv'.moving \subseteq data.haveSent \cup priv.moving
       /\ priv'.containers \subseteq priv.containers
  BY <1>5, <1>6, <1>7, <1>10
<1>. QED BY <1>2, <1>7, <1>10, <1>11, <1>12, <1>13, NoNewIdsHere

\* Every answer of the server that makes the session take requests back.
LEMMA TakenBackStep ==
    ASSUME Inductive, threadIdle, NEW i \in server.down, NEW ids \in SUBSET Id,
           takeBack(ids) \/ UNCHANGED <<data, priv>>,
           server' = taken(i), UNCHANGED <<main, owner, status, executed>>
    PROVE  Inductive'
<1>. USE DEF Inductive
<1>1. /\ server' \in Server
      /\ server'.nextId = server.nextId /\ server'.up = server.up
      /\ server'.got = server.got
  BY TakenFields
<1>2. CASE takeBack(ids)
  <2>1. /\ data' \in Data /\ priv' \in Private
        /\ data'.msgId = data.msgId /\ data'.toSend = data.toSend
        /\ data'.received = data.received
        /\ priv'.containers \subseteq priv.containers
        /\ priv'.sending = priv.sending
        /\ data'.haveSent \cup priv'.moving = data.haveSent
    BY <1>2, TakeBackFields
  <2>2. TypeOK'
    BY <1>1, <2>1 DEF TypeOK
  <2>. QED BY <1>1, <2>1, <2>2, NoNewIdsHere
<1>3. CASE UNCHANGED <<data, priv>>
  <2>1. TypeOK'
    BY <1>1, <1>3 DEF TypeOK
  <2>. QED BY <1>1, <1>3, <2>1, NoNewIdsHere
<1>. QED BY <1>2, <1>3

LEMMA InfoStep ==
    ASSUME Inductive, NEW i \in server.down, handleInfo(i)
    PROVE  Inductive'
<1>. USE DEF Inductive
<1>0. i \in Info
  BY TakenFields
<1>1. CASE handleMsgsStates(i)
  BY <1>1, StatesStep
<1>2. CASE newSessionCreated(i)
  <2>1. toResend(i.first) \in SUBSET Id
    BY DEF TypeOK, Data, toResend
  <2>. QED BY <1>2, <2>1, TakenBackStep DEF newSessionCreated, received, listening
<1>3. CASE badMessage(i)
  <2>1. {i.id} \in SUBSET Id
    BY <1>0, <1>3 DEF badMessage, Info
  <2>2. takeBack({i.id}) \/ UNCHANGED <<data, priv>>
    BY <1>3 DEF badMessage
  <2>. QED BY <1>3, <2>1, <2>2, TakenBackStep DEF badMessage, received, listening
<1>4. CASE fatalMessage(i)
  <2>. DEFINE answer == [id |-> i.id, again |-> TRUE]
  <2>1. i.id \in Id
    BY <1>0, <1>4 DEF fatalMessage, Info
  <2>2. answer \in Answer /\ answer.id = i.id /\ answer.again
    BY <2>1 DEF Answer
  <2>3. data' = [data EXCEPT !.received =
                  IF wasSent(i.id) /\ owner[i.id] # NoRequest
                  THEN @ \cup {answer} ELSE @]
    BY <1>4 DEF fatalMessage
  <2>. HIDE DEF answer
  <2>4. /\ data' \in Data /\ data'.msgId = data.msgId
        /\ data'.haveSent = data.haveSent /\ data'.toSend = data.toSend
        /\ \A a \in data'.received :
              a \in data.received \/ (a = answer /\ owner[i.id] # NoRequest)
    <3>1. CASE wasSent(i.id) /\ owner[i.id] # NoRequest
      BY <2>2, <2>3, <3>1 DEF TypeOK, Data
    <3>2. CASE ~(wasSent(i.id) /\ owner[i.id] # NoRequest)
      BY <2>3, <3>2 DEF TypeOK, Data
    <3>. QED BY <3>1, <3>2
  <2>5. \A a \in data'.received :
           \/ a \in data.received
           \/ owner[a.id] # NoRequest /\ (~a.again => owner[a.id] \in executed)
    BY <2>2, <2>4
  <2>6. /\ server' \in Server
        /\ server'.nextId = server.nextId /\ server'.up = server.up
        /\ server'.got = server.got
        /\ UNCHANGED <<main, priv, owner, status, executed>>
    BY <1>4, TakenFields DEF fatalMessage
  <2>7. TypeOK'
    BY <2>4, <2>6 DEF TypeOK
  <2>. QED BY <2>4, <2>5, <2>6, <2>7, NoNewIdsHere
<1>5. CASE resetSession(i)
  <2>1. /\ priv' = [disconnected(priv) EXCEPT !.started = FALSE, !.toCheck = {}]
        /\ server' = [server EXCEPT !.up = <<>>, !.down = {}, !.alive = FALSE,
                        !.got = {}, !.told = {}]
        /\ UNCHANGED <<main, data, owner, status, executed>>
    BY <1>5 DEF resetSession
  <2>2. /\ priv' \in Private
        /\ priv'.containers = priv.containers /\ priv'.sending = priv.sending
        /\ priv'.moving = priv.moving
    BY <2>1 DEF TypeOK, Private, disconnected
  <2>3. <<>> \in Seq(Packet) /\ Len(<<>>) = 0
    OBVIOUS
  <2>4. /\ server' \in Server
        /\ server'.nextId = server.nextId /\ server'.up = <<>> /\ server'.got = {}
    BY <2>1, <2>3 DEF TypeOK, Server
  <2>5. \A k \in 1 .. Len(server'.up) : \A m \in server'.up[k].ids : owner[m] # NoRequest
    BY <2>3, <2>4
  <2>6. TypeOK'
    BY <2>1, <2>2, <2>4 DEF TypeOK
  <2>. QED BY <2>1, <2>2, <2>4, <2>5, <2>6, NoNewIds
<1>. QED BY <1>1, <1>2, <1>3, <1>4, <1>5 DEF handleInfo

-----------------------------------------------------------------------------
(* The steps of the network and the server.                                *)

\* A session that begins keeps what is on its way.
LEMMA BegunFields ==
    ASSUME BoundsAssumption, NEW s \in Server, NEW first \in 1 .. MaxId + 1
    PROVE  /\ begun(s, first) \in Server
           /\ begun(s, first).up = s.up
           /\ begun(s, first).nextId = s.nextId
           /\ begun(s, first).got \subseteq s.got
<1>. DEFINE info == [kind |-> "newSession", first |-> first]
<1>1. info \in Info
  BY DEF Info
<1>2. begun(s, first) =
        IF s.alive THEN s
        ELSE [s EXCEPT !.alive = TRUE, !.got = {}, !.told = {},
                       !.down = @ \cup {info}]
  BY DEF begun
<1>. HIDE DEF info
<1>3. CASE s.alive
  BY <1>2, <1>3
<1>4. CASE ~s.alive
  <2>. DEFINE t == [s EXCEPT !.alive = TRUE, !.got = {}, !.told = {},
                             !.down = @ \cup {info}]
  <2>1. begun(s, first) = t
    BY <1>2, <1>4
  <2>2. t \in Server /\ t.up = s.up /\ t.nextId = s.nextId /\ t.got = {}
    BY <1>1 DEF Server
  <2>. HIDE DEF t
  <2>. QED BY <2>1, <2>2
<1>. QED BY <1>3, <1>4

\* The first packet and those behind it.
LEMMA FirstPacket ==
    ASSUME NEW up \in Seq(Packet), up # << >>
    PROVE  /\ Head(up) \in Packet /\ Head(up) = up[1] /\ 1 \in 1 .. Len(up)
           /\ Tail(up) \in Seq(Packet)
           /\ \A k \in 1 .. Len(Tail(up)) :
                 k + 1 \in 1 .. Len(up) /\ Tail(up)[k] = up[k + 1]
  OBVIOUS

\* A packet in front of others.
LEMMA PacketInFront ==
    ASSUME NEW up \in Seq(Packet), NEW p \in Packet
    PROVE  /\ <<p>> \o up \in Seq(Packet)
           /\ \A k \in 1 .. Len(<<p>> \o up) :
                 \/ (<<p>> \o up)[k] = p
                 \/ k - 1 \in 1 .. Len(up) /\ (<<p>> \o up)[k] = up[k - 1]
  OBVIOUS

LEMMA FirstOfPacket ==
    ASSUME TypeOK, NEW p \in Packet
    PROVE  firstOf(p) \in 1 .. MaxId + 1
  BY BoundsAssumption DEF TypeOK, Server, Packet, firstOf, Id, NoId

LEMMA ReceivePacketStep ==
    ASSUME Inductive, receivePacket
    PROVE  Inductive'
<1>. USE DEF Inductive
<1>. DEFINE p == Head(server.up)
            q == [server EXCEPT !.up = Tail(@)]
            s == begun(q, firstOf(p))
            known == s.got \cup p.ids
            answer == [kind |-> "states", ids |-> p.states,
                       known |-> p.states \cap known]
            owners == {owner[m] : m \in p.ids}
<1>1. /\ server.up # <<>>
      /\ server' = [s EXCEPT !.got = known,
                      !.down = @ \cup {a \in {answer} : p.states # {}}]
      /\ executed' = executed \cup owners
      /\ UNCHANGED <<main, data, priv, owner, status>>
  BY DEF receivePacket
<1>2. server.up \in Seq(Packet)
  BY DEF TypeOK, Server
<1>3. /\ p \in Packet /\ p = server.up[1] /\ 1 \in 1 .. Len(server.up)
      /\ Tail(server.up) \in Seq(Packet)
      /\ \A k \in 1 .. Len(Tail(server.up)) :
            k + 1 \in 1 .. Len(server.up) /\ Tail(server.up)[k] = server.up[k + 1]
  BY <1>1, <1>2, FirstPacket
<1>4. \A m \in p.ids : m \in Id /\ owner[m] \in Requests
  BY <1>3 DEF TypeOK, Justified, Packet
<1>5. owners \in SUBSET Requests /\ \A m \in p.ids : owner[m] \in owners
  BY <1>4
<1>6. q \in Server /\ q.up = Tail(server.up) /\ q.nextId = server.nextId
      /\ q.got = server.got
  BY <1>3 DEF TypeOK, Server
<1>7. /\ s \in Server /\ s.up = q.up /\ s.nextId = q.nextId /\ s.got \subseteq q.got
  BY <1>3, <1>6, BoundsAssumption, FirstOfPacket, BegunFields
<1>8. answer \in Info /\ known \in SUBSET Id
  BY <1>3, <1>7 DEF Info, Server, Packet
<1>9. \A m \in known : owner[m] \in executed \cup owners
  BY <1>5, <1>6, <1>7 DEF Justified
<1>. HIDE DEF p, q, s, known, answer, owners
<1>10. /\ server' \in Server
       /\ server'.up = Tail(server.up) /\ server'.nextId = server.nextId
       /\ server'.got = known
  BY <1>1, <1>6, <1>7, <1>8 DEF Server
<1>11. TypeOK'
  BY <1>1, <1>5, <1>10 DEF TypeOK
<1>12. \A k \in 1 .. Len(server'.up) : \A m \in server'.up[k].ids : owner[m] # NoRequest
  BY <1>3, <1>10 DEF Justified
<1>13. \A m \in server'.got : owner[m] \in executed'
  BY <1>1, <1>9, <1>10
<1>. QED BY <1>1, <1>10, <1>11, <1>12, <1>13, NoNewIds

LEMMA ReceivePingStep ==
    ASSUME Inductive, receivePing
    PROVE  Inductive'
<1>. USE DEF Inductive
<1>1. server.nextId \in 1 .. MaxId + 1 /\ server \in Server
  BY DEF TypeOK, Server
<1>2. /\ server' \in Server /\ server'.up = server.up
      /\ server'.nextId = server.nextId /\ server'.got \subseteq server.got
      /\ UNCHANGED <<main, data, priv, owner, status, executed>>
  BY <1>1, BoundsAssumption, BegunFields DEF receivePing
<1>3. TypeOK'
  BY <1>2 DEF TypeOK
<1>4. \A k \in 1 .. Len(server'.up) : \A m \in server'.up[k].ids : owner[m] # NoRequest
  BY <1>2 DEF Justified
<1>5. \A m \in server'.got : owner[m] \in executed'
  BY <1>2 DEF Justified
<1>. QED BY <1>2, <1>3, <1>4, <1>5, NoNewIds

\* One failure more.
LEMMA FaultyFields ==
    ASSUME TypeOK, mayFail
    PROVE  /\ faulty \in Server
           /\ faulty.up = server.up /\ faulty.nextId = server.nextId
           /\ faulty.got = server.got /\ faulty.down = server.down
<1>1. server.faults + 1 \in 0 .. MaxFaults
  BY BoundsAssumption DEF TypeOK, Server, mayFail
<1>2. faulty = [server EXCEPT !.faults = server.faults + 1]
  BY DEF faulty
<1>3. \A n \in 0 .. MaxFaults :
         LET s == [server EXCEPT !.faults = n] IN
         /\ s \in Server /\ s.up = server.up /\ s.nextId = server.nextId
         /\ s.got = server.got /\ s.down = server.down
  BY DEF TypeOK, Server
<1>. QED BY <1>1, <1>2, <1>3

LEMMA LossStep ==
    ASSUME Inductive, loseConnection \/ forgetSession
    PROVE  Inductive'
<1>. USE DEF Inductive
<1>1. CASE loseConnection
  <2>1. <<>> \in Seq(Packet) /\ Len(<<>>) = 0
    OBVIOUS
  <2>2. /\ priv' = disconnected(priv)
        /\ server' = [faulty EXCEPT !.up = <<>>,
                        !.down = {i \in @ : i.kind = "newSession"}]
        /\ mayFail /\ UNCHANGED <<main, data, owner, status, executed>>
    BY <1>1 DEF loseConnection
  <2>3. /\ server' \in Server /\ server'.up = <<>>
        /\ server'.nextId = server.nextId /\ server'.got = server.got
    BY <2>1, <2>2, FaultyFields DEF Server
  <2>4. /\ priv' \in Private
        /\ priv'.containers = priv.containers /\ priv'.sending = priv.sending
        /\ priv'.moving = priv.moving
    BY <2>2 DEF TypeOK, Private, disconnected
  <2>5. TypeOK'
    BY <2>2, <2>3, <2>4 DEF TypeOK
  <2>6. \A k \in 1 .. Len(server'.up) : \A m \in server'.up[k].ids : owner[m] # NoRequest
    BY <2>1, <2>3
  <2>7. \A m \in server'.got : owner[m] \in executed'
    BY <2>2, <2>3 DEF Justified
  <2>. QED BY <2>2, <2>3, <2>4, <2>5, <2>6, <2>7, NoNewIds
<1>2. CASE forgetSession
  <2>1. /\ server' = [faulty EXCEPT !.alive = FALSE, !.got = {}, !.told = {}]
        /\ mayFail /\ UNCHANGED <<main, data, priv, owner, status, executed>>
    BY <1>2 DEF forgetSession
  <2>2. /\ server' \in Server /\ server'.up = server.up
        /\ server'.nextId = server.nextId /\ server'.got = {}
    BY <2>1, FaultyFields DEF Server
  <2>3. TypeOK'
    BY <2>1, <2>2 DEF TypeOK
  <2>4. \A k \in 1 .. Len(server'.up) : \A m \in server'.up[k].ids : owner[m] # NoRequest
    BY <2>2 DEF Justified
  <2>. QED BY <2>1, <2>2, <2>3, <2>4, NoNewIds
<1>. QED BY <1>1, <1>2

LEMMA RefusePacketStep ==
    ASSUME Inductive, refusePacket
    PROVE  Inductive'
<1>. USE DEF Inductive
<1>. DEFINE p == Head(server.up)
<1>1. PICK kind \in {"resend", "reset", "fatal"}, id \in msgIds(p) :
         LET rest == IF id = p.id THEN {} ELSE p.ids \ {id}
             s == begun(faulty, firstOf(p))
         IN  server' = [s EXCEPT
                         !.up = IF rest = {}
                                THEN Tail(@)
                                ELSE <<[p EXCEPT !.ids = rest]>> \o Tail(@),
                         !.down = @ \cup {[kind |-> kind, id |-> id]}]
  BY DEF refusePacket
<1>2. /\ server.up # <<>> /\ mayFail
      /\ UNCHANGED <<main, data, priv, owner, status, executed>>
  BY DEF refusePacket
<1>. DEFINE rest == IF id = p.id THEN {} ELSE p.ids \ {id}
            r == [p EXCEPT !.ids = rest]
            s == begun(faulty, firstOf(p))
            info == [kind |-> kind, id |-> id]
            up == IF rest = {} THEN Tail(server.up) ELSE <<r>> \o Tail(server.up)
<1>3. server.up \in Seq(Packet)
  BY DEF TypeOK, Server
<1>4. /\ p \in Packet /\ p = server.up[1] /\ 1 \in 1 .. Len(server.up)
      /\ Tail(server.up) \in Seq(Packet)
      /\ \A k \in 1 .. Len(Tail(server.up)) :
            k + 1 \in 1 .. Len(server.up) /\ Tail(server.up)[k] = server.up[k + 1]
  BY <1>2, <1>3, FirstPacket
<1>5. id \in Id
  BY <1>4 DEF msgIds, Packet
<1>6. info \in Info
  BY <1>5 DEF Info
<1>7. r \in Packet /\ r.ids \subseteq p.ids
  <2>1. rest \subseteq p.ids
    OBVIOUS
  <2>. HIDE DEF rest, p
  <2>. QED BY <1>4, <2>1 DEF Packet
<1>8. /\ s \in Server /\ s.up = server.up /\ s.nextId = server.nextId
      /\ s.got \subseteq server.got
  BY <1>2, <1>4, BoundsAssumption, FirstOfPacket, FaultyFields, BegunFields
<1>9. \A m \in r.ids : owner[m] # NoRequest
  BY <1>4, <1>7 DEF Justified
<1>10. \A k \in 1 .. Len(Tail(server.up)) :
          \A m \in Tail(server.up)[k].ids : owner[m] # NoRequest
  BY <1>4 DEF Justified
<1>11. /\ up \in Seq(Packet)
       /\ \A k \in 1 .. Len(up) : \A m \in up[k].ids : owner[m] # NoRequest
  <2>1. CASE rest = {}
    BY <1>4, <1>10, <2>1
  <2>2. CASE rest # {}
    <3>. HIDE DEF r
    <3>1. /\ up \in Seq(Packet)
          /\ \A k \in 1 .. Len(up) :
                \/ up[k] = r
                \/ k - 1 \in 1 .. Len(Tail(server.up)) /\ up[k] = Tail(server.up)[k - 1]
      BY <1>4, <1>7, <2>2, PacketInFront
    <3>. HIDE DEF up, rest
    <3>. QED BY <1>9, <1>10, <3>1
  <2>. QED BY <2>1, <2>2
<1>12. server' = [s EXCEPT !.up = up, !.down = @ \cup {info}]
  BY <1>1, <1>8
<1>. HIDE DEF p, rest, r, s, info, up
<1>13. /\ server' \in Server /\ server'.up = up
       /\ server'.nextId = server.nextId /\ server'.got \subseteq server.got
  BY <1>6, <1>8, <1>11, <1>12 DEF Server
<1>14. TypeOK'
  BY <1>2, <1>13 DEF TypeOK
<1>15. \A k \in 1 .. Len(server'.up) : \A m \in server'.up[k].ids : owner[m] # NoRequest
  BY <1>11, <1>13
<1>16. \A m \in server'.got : owner[m] \in executed'
  BY <1>2, <1>13 DEF Justified
<1>. QED BY <1>2, <1>13, <1>14, <1>15, <1>16, NoNewIds

-----------------------------------------------------------------------------
(* The invariant and what follows from it.                                 *)

\* Every step keeps the invariant.
LEMMA InductiveStep == Inductive /\ [Next]_vars => Inductive'
<1>. SUFFICES ASSUME Inductive, [Next]_vars PROVE Inductive'
  OBVIOUS
<1>1. CASE \E r \in Requests : MainThread(r)
  <2>1. PICK r \in Requests : MainThread(r)
    BY <1>1
  <2>. QED BY <2>1, SendRequestStep, CheckDelayedStep, CancelStep,
              ProcessCallbackStep DEF MainThread
<1>2. CASE Sends
  BY <1>2, TimerStep, SendSingleStep, SentSingleStep, SendContainerStep,
     SendStatesStep, ClearOldStep DEF Sends
<1>3. CASE Receives
  BY <1>3, ResendStep, ConnectStep, AckStep, ResultStep, InfoStep DEF Receives
<1>4. CASE Network
  BY <1>4, ReceivePacketStep, ReceivePingStep, LossStep, RefusePacketStep DEF Network
<1>5. CASE UNCHANGED vars
  BY <1>5 DEF vars, Inductive, TypeOK, Owned, Justified, hasCallback
<1>. QED BY <1>1, <1>2, <1>3, <1>4, <1>5 DEF Next

\* What the server has been told, has answered or the client has received was
\* asked for, whatever is lost, resent or refused.
THEOREM InductiveInvariant == Spec => []Inductive
  BY InductiveInit, InductiveStep, PTL DEF Spec

\* Every variable of SessionRequests keeps its type: in particular no msg_id
\* is handed out beyond those counted by nextId, and what requestsAcked(),
\* resend() and clearOldContainers() put into the maps are msg_ids.
THEOREM TypeCorrect == Spec => []TypeOK
<1>1. Inductive => TypeOK
  BY DEF Inductive
<1>. QED BY <1>1, InductiveInvariant, PTL

-----------------------------------------------------------------------------
(* What the callers see is what RpcService allows.                         *)

\* Only sendRequest(), cancelHaveSent(), processCallback() and
\* receivePacket() change what the caller or the server knows.
LEMMA Quiet ==
    ASSUME UNCHANGED <<status, executed>>
    PROVE  [Rpc!Next]_<<status, executed>>
  OBVIOUS

LEMMA RpcMainStep ==
    ASSUME Inductive, NEW r \in Requests, MainThread(r)
    PROVE  [Rpc!Next]_<<status, executed>>
<1>. USE DEF Inductive
<1>0. status \in [Requests -> Rpc!Status]
  BY DEF TypeOK
<1>1. CASE sendRequest(r)
  <2>1. Rpc!Ask(r)
    BY <1>1 DEF sendRequest, Rpc!Ask
  <2>. QED BY <2>1 DEF Rpc!Next
<1>2. CASE checkDelayedRequests(r)
  BY <1>2, Quiet DEF checkDelayedRequests
<1>3. CASE cancel(r) \/ cancelToSend(r)
  BY <1>3, Quiet DEF cancel, cancelToSend
<1>4. CASE cancelHaveSent(r)
  <2>1. hasCallback(r)
    BY <1>4 DEF cancelHaveSent, Justified
  <2>2. Rpc!Cancel(r)
    BY <1>4, <2>1 DEF cancelHaveSent, hasCallback, Rpc!Cancel
  <2>. QED BY <2>2 DEF Rpc!Next
<1>5. CASE processCallback(r)
  <2>1. PICK a \in data.received :
           /\ owner[a.id] = r
           /\ status' = IF handler(r) /\ ~a.again
                        THEN [status EXCEPT ![r] = "answered"]
                        ELSE status
    BY <1>5 DEF processCallback
  <2>2. executed' = executed
    BY <1>5 DEF processCallback
  <2>3. CASE handler(r) /\ ~a.again
    <3>1. r \in executed /\ status[r] = "asked"
      BY <2>1, <2>3 DEF Justified, handler, hasCallback
    <3>2. status' = [q \in Requests |-> IF q \in {r} THEN "answered" ELSE status[q]]
      BY <1>0, <2>1, <2>3
    <3>3. Rpc!Answer({r})
      BY <2>2, <3>1, <3>2 DEF Rpc!Answer
    <3>. QED BY <3>3 DEF Rpc!Next
  <2>4. CASE ~(handler(r) /\ ~a.again)
    <3>1. status' = status
      BY <2>1, <2>4
    <3>. QED BY <2>2, <3>1, Quiet
  <2>. QED BY <2>3, <2>4
<1>. QED BY <1>1, <1>2, <1>3, <1>4, <1>5 DEF MainThread

LEMMA RpcNetworkStep ==
    ASSUME Inductive, Network
    PROVE  [Rpc!Next]_<<status, executed>>
<1>. USE DEF Inductive
<1>1. CASE receivePacket
  <2>. DEFINE p == Head(server.up)
              owners == {owner[m] : m \in p.ids}
  <2>1. /\ server.up # <<>> /\ executed' = executed \cup owners
        /\ status' = status
    BY <1>1 DEF receivePacket
  <2>2. server.up \in Seq(Packet)
    BY DEF TypeOK, Server
  <2>3. p \in Packet /\ p = server.up[1] /\ 1 \in 1 .. Len(server.up)
    BY <2>1, <2>2, FirstPacket
  <2>4. \A m \in p.ids : /\ m \in Id /\ owner[m] \in Requests
                         /\ status[owner[m]] # "new"
    BY <2>3 DEF TypeOK, Justified, Packet
  <2>5. owners \subseteq {r \in Requests : status[r] # "new"}
    BY <2>4
  <2>. HIDE DEF owners
  <2>6. Rpc!Execute(owners) /\ owners \in SUBSET Requests
    BY <2>1, <2>5 DEF Rpc!Execute
  <2>. QED BY <2>6 DEF Rpc!Next
<1>2. CASE receivePing \/ loseConnection \/ forgetSession \/ refusePacket
  BY <1>2, Quiet DEF receivePing, loseConnection, forgetSession, refusePacket
<1>. QED BY <1>1, <1>2 DEF Network

LEMMA RpcStep == Inductive /\ [Next]_vars => [Rpc!Next]_<<status, executed>>
<1>. SUFFICES ASSUME Inductive, [Next]_vars
              PROVE  [Rpc!Next]_<<status, executed>>
  OBVIOUS
<1>1. CASE \E r \in Requests : MainThread(r)
  BY <1>1, RpcMainStep
<1>2. CASE Sends
  BY <1>2, Quiet DEF Sends, tryToSendNothing, sendSingle, sentSingle, sendContainer,
     sendStates, checkSentRequests, clearOldContainers
<1>3. CASE Receives
  <2>1. CASE resend \/ connectToServer
    BY <2>1, Quiet DEF resend, connectToServer
  <2>2. CASE \E m \in Id : handleAck(m) \/ rpcResult(m)
    BY <2>2, Quiet DEF handleAck, rpcResult
  <2>3. CASE \E i \in server.down : handleInfo(i)
    BY <2>3, Quiet DEF handleInfo, handleMsgsStates, newSessionCreated, badMessage,
       fatalMessage, resetSession
  <2>. QED BY <1>3, <2>1, <2>2, <2>3 DEF Receives
<1>4. CASE Network
  BY <1>4, RpcNetworkStep
<1>5. CASE UNCHANGED vars
  BY <1>5, Quiet DEF vars
<1>. QED BY <1>1, <1>2, <1>3, <1>4, <1>5 DEF Next

\* SessionRequests implements RpcService: whatever is lost, sent again,
\* refused or cancelled, and wherever the lock of _haveSent is released,
\* processCallback() calls a handler once, and only with an answer of a
\* server that has carried the request out.
THEOREM Implements == Spec => ImplementsRpc
<1>1. Init => Rpc!Init
  BY DEF Init
<1>. QED BY <1>1, InductiveInvariant, RpcStep, PTL DEF Spec, ImplementsRpc, Rpc!Spec

-----------------------------------------------------------------------------
(* What is in _toSend is sent.                                             *)

\* The gaps of the session's thread do not matter: tryToSend() is on its way
\* in them as well.
Woken == priv.connected /\ data.toSend # {} => priv.wake

LEMMA WokenStep == Inductive /\ Woken /\ [Next]_vars => Woken'
<1>. SUFFICES ASSUME Inductive, Woken, [Next]_vars PROVE Woken'
  OBVIOUS
<1>0. data \in Data /\ priv \in Private
  BY DEF Inductive, TypeOK
<1>. USE DEF Woken, Data, Private
<1>1. ASSUME NEW r \in Requests, MainThread(r) PROVE Woken'
  <2>1. CASE sendRequest(r)
    BY <1>0, <2>1 DEF sendRequest, prepared, woken
  <2>2. CASE checkDelayedRequests(r)
    BY <1>0, <2>2 DEF checkDelayedRequests, prepared, woken
  <2>3. CASE cancel(r) \/ cancelToSend(r) \/ cancelHaveSent(r)
    BY <1>0, <2>3 DEF cancel, cancelToSend, cancelHaveSent
  <2>4. CASE processCallback(r)
    BY <1>0, <2>4 DEF processCallback
  <2>. QED BY <1>1, <2>1, <2>2, <2>3, <2>4 DEF MainThread
<1>2. CASE Sends
  <2>1. CASE tryToSendNothing
    BY <1>0, <2>1 DEF tryToSendNothing
  <2>2. ASSUME NEW r \in Requests, sendSingle(r) PROVE Woken'
    BY <1>0, <2>2 DEF sendSingle, someSkipped
  <2>3. ASSUME NEW r \in Requests, sentSingle(r) PROVE Woken'
    BY <1>0, <2>3 DEF sentSingle
  <2>4. CASE sendContainer
    <3>1. data'.toSend = data.toSend \ batch /\ priv'.wake = (batch # data.toSend)
      BY <1>0, <2>4 DEF sendContainer, someSkipped
    <3>2. batch \subseteq data.toSend
      BY DEF batch
    <3>. QED BY <3>1, <3>2
  <2>5. CASE sendStates
    BY <1>0, <2>5 DEF sendStates
  <2>6. CASE checkSentRequests
    BY <1>0, <2>6 DEF checkSentRequests
  <2>7. ASSUME NEW c \in priv.containers, clearOldContainers(c) PROVE Woken'
    BY <1>0, <2>7 DEF clearOldContainers, takeBack
  <2>. QED BY <1>2, <2>1, <2>2, <2>3, <2>4, <2>5, <2>6, <2>7 DEF Sends
<1>3. CASE Receives
  <2>1. CASE resend \/ connectToServer
    BY <1>0, <2>1 DEF resend, connectToServer
  <2>2. ASSUME NEW m \in Id, handleAck(m) PROVE Woken'
    <3>1. afterAcked({m}, FALSE).wake = priv.wake
          /\ afterAcked({m}, FALSE).connected = priv.connected
      BY <1>0 DEF afterAcked
    <3>. QED BY <1>0, <2>2, <3>1 DEF handleAck, requestsAcked
  <2>3. ASSUME NEW m \in Id, rpcResult(m) PROVE Woken'
    <3>1. afterAcked({m}, TRUE).wake = priv.wake
          /\ afterAcked({m}, TRUE).connected = priv.connected
      BY <1>0 DEF afterAcked
    <3>2. data'.toSend \subseteq data.toSend
      <4>1. PICK again \in {FALSE, mayFail} :
               data' = [data EXCEPT
                  !.haveSent = @ \ {m},
                  !.toSend = @ \ notResent({m}, TRUE),
                  !.received = IF recognised(m)
                               THEN @ \cup {[id |-> m, again |-> again]}
                               ELSE @]
        BY <2>3 DEF rpcResult
      <4>. DEFINE all == IF recognised(m)
                         THEN data.received \cup {[id |-> m, again |-> again]}
                         ELSE data.received
                  unsent == notResent({m}, TRUE)
      <4>2. data' = [data EXCEPT !.haveSent = @ \ {m}, !.toSend = @ \ unsent,
                                 !.received = all]
        BY <1>0, <4>1
      <4>. HIDE DEF all, unsent
      <4>. QED BY <1>0, <4>2
    <3>. QED BY <2>3, <3>1, <3>2 DEF rpcResult
  <2>4. ASSUME NEW i \in server.down, handleMsgsStates(i) PROVE Woken'
    <3>1. /\ i \in Info /\ i.kind = "states"
      BY <2>4, TakenFields DEF handleMsgsStates, Inductive
    <3>2. i.known \in SUBSET Id
      BY <3>1 DEF Info
    <3>. DEFINE acked == afterAcked(i.known, FALSE)
                lost == (i.ids \ i.known) \cap data.haveSent
    <3>3. /\ acked \in Private /\ acked.wake = priv.wake
          /\ acked.connected = priv.connected
      BY <3>2, AfterAckedFields DEF Inductive
    <3>4. priv' = [acked EXCEPT !.moving = lost, !.wake = @ \/ lost # {}]
      BY <2>4 DEF handleMsgsStates
    <3>5. data'.toSend \subseteq data.toSend
      BY <1>0, <2>4 DEF handleMsgsStates
    <3>. HIDE DEF acked, lost
    <3>6. priv'.connected = priv.connected /\ (priv.wake => priv'.wake)
      BY <3>3, <3>4
    <3>. QED BY <3>5, <3>6
  <2>5. ASSUME NEW i \in server.down, newSessionCreated(i) PROVE Woken'
    BY <1>0, <2>5 DEF newSessionCreated, takeBack
  <2>6. ASSUME NEW i \in server.down, badMessage(i) PROVE Woken'
    <3>1. CASE takeBack({i.id})
      BY <1>0, <3>1 DEF takeBack
    <3>2. CASE UNCHANGED <<data, priv>>
      BY <3>2
    <3>. QED BY <2>6, <3>1, <3>2 DEF badMessage
  <2>7. ASSUME NEW i \in server.down, fatalMessage(i) PROVE Woken'
    BY <1>0, <2>7 DEF fatalMessage
  <2>8. ASSUME NEW i \in server.down, resetSession(i) PROVE Woken'
    BY <1>0, <2>8 DEF resetSession, disconnected
  <2>. QED BY <1>3, <2>1, <2>2, <2>3, <2>4, <2>5, <2>6, <2>7, <2>8
           DEF Receives, handleInfo
<1>4. CASE Network
  BY <1>0, <1>4 DEF Network, receivePacket, receivePing, loseConnection, forgetSession,
     refusePacket, disconnected
<1>5. CASE UNCHANGED vars
  BY <1>5 DEF vars
<1>. QED BY <1>1, <1>2, <1>3, <1>4, <1>5 DEF Next

\* As long as the session is connected, requests in _toSend have a call of
\* tryToSend() on its way, whichever thread put them there and also when the
\* container was cut before them.
THEOREM ToSendWoken == Spec => []ToSendIsWoken
<1>1. Init => Woken
  BY DEF Init, Woken
<1>2. Woken => ToSendIsWoken
  BY DEF Woken, ToSendIsWoken
<1>. QED BY <1>1, <1>2, InductiveInvariant, WokenStep, PTL DEF Spec

-----------------------------------------------------------------------------
(* No request gets lost, as long as _ackedIds is large enough.             *)

\* Each thread handles one single request at a time.
OneAtATime ==
    /\ \A q, r \in priv.sending : q = r
    /\ \A q, r \in main.cancelling : q = r

Kept == Inductive /\ OneAtATime /\ NothingIsLost

\* What a step that leaves the main thread alone has to keep.
LEMMA NotLost ==
    ASSUME NothingIsLost, UNCHANGED <<main, owner, status>>,
           \A r \in data.toSend \cup priv.sending :
              \/ r \in data'.toSend \cup priv'.sending
              \/ ~hasCallback(r)
              \/ \E a \in data'.received : owner[a.id] = r,
           \A m \in data.haveSent \cup priv.moving :
              \/ m \in data'.haveSent \cup priv'.moving
              \/ owner[m] \in data'.toSend
              \/ ~hasCallback(owner[m])
              \/ \E a \in data'.received : owner[a.id] = owner[m],
           data.received \subseteq data'.received
    PROVE  NothingIsLost'
  BY DEF NothingIsLost, hasCallback

\* cancel() and an answer concern no other request.
LEMMA MainKeeps ==
    ASSUME Kept, NEW r \in Requests, MainThread(r)
    PROVE  NothingIsLost'
<1>. USE DEF Kept, Inductive
<1>0. main \in Main /\ data \in Data /\ status \in [Requests -> Rpc!Status]
  BY DEF TypeOK
<1>1. CASE sendRequest(r)
  <2>1. /\ data' = [data EXCEPT !.toSend = @ \cup {r}, !.msgId[r] = NoId]
        /\ priv' = [priv EXCEPT !.wake = TRUE]
        /\ status' = [status EXCEPT ![r] = "asked"]
        /\ UNCHANGED <<main, owner>>
    BY <1>1 DEF sendRequest, prepared, woken
  <2>2. /\ data'.toSend = data.toSend \cup {r} /\ data'.haveSent = data.haveSent
        /\ data'.received = data.received
        /\ priv'.sending = priv.sending /\ priv'.moving = priv.moving
    BY <2>1 DEF TypeOK, Data, Private
  <2>. QED BY <1>0, <2>1, <2>2 DEF NothingIsLost, hasCallback
<1>2. CASE checkDelayedRequests(r)
  <2>1. /\ main' = [main EXCEPT !.delayed = @ \ {r}]
        /\ UNCHANGED <<owner, status>>
    BY <1>2 DEF checkDelayedRequests
  <2>2. main'.delayed = main.delayed \ {r} /\ main'.cancelling = main.cancelling
    BY <1>0, <2>1 DEF Main
  <2>3. CASE hasCallback(r)
    <3>1. /\ data' = [data EXCEPT !.toSend = @ \cup {r}, !.msgId[r] = NoId]
          /\ priv' = [priv EXCEPT !.wake = TRUE]
      BY <1>2, <2>3 DEF checkDelayedRequests, prepared, woken
    <3>2. /\ data'.toSend = data.toSend \cup {r} /\ data'.haveSent = data.haveSent
          /\ data'.received = data.received
          /\ priv'.sending = priv.sending /\ priv'.moving = priv.moving
      BY <3>1 DEF TypeOK, Data, Private
    <3>. QED BY <2>1, <2>2, <3>2 DEF NothingIsLost, hasCallback
  <2>4. CASE ~hasCallback(r)
    <3>1. UNCHANGED <<data, priv>>
      BY <1>2, <2>4 DEF checkDelayedRequests
    <3>. QED BY <2>1, <2>2, <2>4, <3>1 DEF NothingIsLost, hasCallback
  <2>. QED BY <2>3, <2>4
<1>3. CASE cancel(r)
  <2>1. main'.cancelling = {r} /\ main'.delayed = main.delayed /\ main.cancelling = {}
    BY <1>0, <1>3 DEF cancel, mainIdle, Main
  <2>. QED BY <1>3, <2>1 DEF cancel, NothingIsLost, hasCallback
<1>4. CASE cancelToSend(r)
  <2>1. r \in main.cancelling /\ main'.cancelling = main.cancelling
        /\ main'.delayed = main.delayed
    BY <1>0, <1>4 DEF cancelToSend, Main
  <2>2. /\ data'.toSend = data.toSend \ {r} /\ data'.haveSent = data.haveSent
        /\ data'.received = data.received
    BY <1>0, <1>4 DEF cancelToSend, Data
  <2>. QED BY <1>4, <2>1, <2>2 DEF cancelToSend, NothingIsLost, hasCallback
<1>5. CASE cancelHaveSent(r)
  <2>1. r \in main.cancelling /\ main'.delayed = main.delayed
    BY <1>0, <1>5 DEF cancelHaveSent, Main
  <2>2. /\ data'.toSend = data.toSend /\ data'.haveSent = data.haveSent \ {main.cancelId}
        /\ data'.received = data.received
    BY <1>0, <1>5 DEF cancelHaveSent, Data
  <2>3. /\ \A q \in Requests : q # r => status'[q] = status[q]
        /\ status'[r] = "cancelled"
        /\ UNCHANGED <<priv, owner>>
    BY <1>0, <1>5 DEF cancelHaveSent
  <2>4. main.cancelling = {r} /\ main'.cancelling = {}
    BY <1>0, <1>5, <2>1 DEF OneAtATime, cancelHaveSent, Main
  <2>5. \A m \in data.haveSent : m # NoId /\ m \in Id
    BY <1>0, BoundsAssumption DEF Data, Id, NoId
  <2>6. \A m \in data.haveSent : m = main.cancelId => owner[m] = r
    BY <2>1, <2>5 DEF Owned
  <2>. SUFFICES ASSUME NEW q \in Requests, hasCallback(q)'
                PROVE  \/ q \in data'.toSend \cup priv'.sending \cup main'.delayed
                       \/ \E m \in data'.haveSent \cup priv'.moving : owner'[m] = q
                       \/ \E a \in data'.received : owner'[a.id] = q
    BY <2>4 DEF NothingIsLost
  <2>7. q # r /\ hasCallback(q) /\ q \notin main.cancelling
    BY <2>3, <2>4 DEF hasCallback
  <2>8. \/ q \in data.toSend \cup priv.sending \cup main.delayed
        \/ \E m \in data.haveSent \cup priv.moving : owner[m] = q
        \/ \E a \in data.received : owner[a.id] = q
    BY <2>7 DEF NothingIsLost
  <2>. QED BY <2>1, <2>2, <2>3, <2>6, <2>7, <2>8
<1>6. CASE processCallback(r)
  <2>1. PICK a \in data.received :
           /\ owner[a.id] = r
           /\ data' = [data EXCEPT !.received = @ \ {a}]
           /\ status' = IF handler(r) /\ ~a.again
                        THEN [status EXCEPT ![r] = "answered"]
                        ELSE status
           /\ main' = IF handler(r) /\ a.again
                      THEN [main EXCEPT !.delayed = @ \cup {r},
                                        !.delays = @ \cup {r}]
                      ELSE [main EXCEPT !.delays = @ \ {r}]
    BY <1>6 DEF processCallback
  <2>2. UNCHANGED <<priv, owner>>
    BY <1>6 DEF processCallback
  <2>3. /\ data'.toSend = data.toSend /\ data'.haveSent = data.haveSent
        /\ data'.received = data.received \ {a}
    BY <1>0, <2>1 DEF Data
  <2>4. /\ main'.cancelling = main.cancelling
        /\ main.delayed \subseteq main'.delayed
        /\ hasCallback(r)' => r \in main'.delayed
    BY <1>0, <2>1 DEF Main, handler, hasCallback
  <2>5. \A q \in Requests : q # r => status'[q] = status[q]
    BY <1>0, <2>1
  <2>. QED BY <2>1, <2>2, <2>3, <2>4, <2>5 DEF NothingIsLost, hasCallback
<1>. QED BY <1>1, <1>2, <1>3, <1>4, <1>5, <1>6 DEF MainThread

\* A request in one of the gaps between two locks.
LEMMA SingleKeeps ==
    ASSUME Kept, NEW r \in Requests, sendSingle(r) \/ sentSingle(r)
    PROVE  NothingIsLost'
<1>. USE DEF Kept, Inductive
<1>0. data \in Data /\ priv \in Private
  BY DEF TypeOK
<1>1. CASE sendSingle(r)
  <2>1. /\ data'.toSend = data.toSend \ {r} /\ data'.haveSent = data.haveSent
        /\ data'.received = data.received
        /\ priv'.sending = {r} /\ priv.sending = {} /\ priv'.moving = priv.moving
        /\ UNCHANGED <<main, owner, status>>
    BY <1>0, <1>1 DEF sendSingle, canSend, threadIdle, Data, Private
  <2>. QED BY <2>1, NotLost
<1>2. CASE sentSingle(r)
  <2>. DEFINE id == server.nextId
  <2>1. /\ r \in priv.sending /\ id \in Id
        /\ data' = [data EXCEPT !.haveSent = @ \cup {id}, !.msgId[r] = id]
        /\ priv' = [priv EXCEPT !.sending = {}, !.started = TRUE]
        /\ owner' = [owner EXCEPT ![id] = r]
        /\ UNCHANGED <<main, status>>
    BY <1>2 DEF sentSingle
  <2>. HIDE DEF id
  <2>2. /\ data'.toSend = data.toSend /\ data'.haveSent = data.haveSent \cup {id}
        /\ data'.received = data.received
        /\ priv'.sending = {} /\ priv'.moving = priv.moving
    BY <1>0, <2>1 DEF Data, Private
  <2>3. priv.sending = {r}
    BY <2>1 DEF OneAtATime
  <2>4. owner[id] = NoRequest
    BY <2>1, BoundsAssumption DEF Owned, id, Id
  <2>5. owner'[id] = r /\ \A m \in Id : owner[m] # NoRequest => owner'[m] = owner[m]
    BY <2>1, <2>4 DEF TypeOK
  <2>6. \A m \in data.haveSent \cup priv.moving : owner'[m] = owner[m]
    BY <1>0, <2>5 DEF Owned, Data, Private
  <2>7. \A a \in data.received : owner'[a.id] = owner[a.id]
    BY <1>0, <2>5 DEF Justified, Data, Answer
  <2>. QED BY <2>1, <2>2, <2>3, <2>5, <2>6, <2>7 DEF NothingIsLost, hasCallback
<1>. QED BY <1>1, <1>2

\* A container takes requests out of _toSend and gives them msg_ids; what was
\* sent before and is sent with it has its new msg_id in _haveSent too.
LEMMA ContainerKeeps ==
    ASSUME Kept, sendContainer
    PROVE  NothingIsLost'
<1>. USE DEF Kept, Inductive
<1>0. data \in Data /\ priv \in Private
  BY DEF TypeOK
<1>1. /\ data'.toSend = data.toSend \ batch
      /\ data'.haveSent = replacedAll(data.haveSent) \cup {idFor(r) : r \in batch}
      /\ data'.received = data.received
      /\ priv'.sending = priv.sending /\ priv'.moving = priv.moving
      /\ priv.moving = {}
      /\ UNCHANGED <<main, status>>
  BY <1>0 DEF sendContainer, canSend, threadIdle, Data, Private
<1>2. \A r \in batch : idFor(r) \in data'.haveSent /\ owner'[idFor(r)] = r
  BY <1>1, ContainerOwners
<1>3. \A m \in data.haveSent :
         replaced(m) \in data'.haveSent /\ owner'[replaced(m)] = owner[m]
  <2>. SUFFICES ASSUME NEW m \in data.haveSent
                PROVE  replaced(m) \in data'.haveSent /\ owner'[replaced(m)] = owner[m]
    OBVIOUS
  <2>1. m \in Id /\ owner[m] # NoRequest
    BY <1>0 DEF Owned, Data
  <2>. QED BY <1>1, <2>1, ReplacedKeepsOwner DEF replacedAll
<1>4. \A a \in data.received : owner'[a.id] = owner[a.id]
  <2>1. \A a \in data.received : a.id \in Id /\ owner[a.id] # NoRequest
    BY <1>0 DEF Justified, Data, Answer
  <2>. QED BY <2>1, ContainerOwners
<1>. QED BY <1>1, <1>2, <1>3, <1>4 DEF NothingIsLost, hasCallback

\* resend(), up to the gap between its locks.
LEMMA TakeBackKeeps ==
    ASSUME Kept, NEW ids \in SUBSET Id, takeBack(ids), threadIdle,
           UNCHANGED <<main, owner, status>>
    PROVE  NothingIsLost'
<1>. USE DEF Kept, Inductive
<1>1. /\ data'.toSend = data.toSend /\ data'.received = data.received
      /\ priv'.sending = priv.sending /\ priv.moving = {}
      /\ data'.haveSent \cup priv'.moving = data.haveSent
  BY TakeBackFields DEF threadIdle
<1>. QED BY <1>1, NotLost

\* _ackedIds drops nothing when it holds all msg_ids.
LEMMA NothingTrimmed ==
    ASSUME IdsBufferSize >= MaxId, NEW ids \in SUBSET Id
    PROVE  trimmed(ids) = ids
<1>. USE BoundsAssumption
<1>1. IsFiniteSet(Id) /\ Cardinality(Id) = MaxId
  BY FS_Interval DEF Id
<1>2. ASSUME NEW m \in ids PROVE Cardinality({n \in ids : n > m}) < IdsBufferSize
  <2>. DEFINE larger == {n \in ids : n > m}
  <2>1. larger \subseteq Id /\ m \notin larger /\ m \in Id
    <3>1. m \in Id
      OBVIOUS
    <3>2. ~(m > m)
      BY <3>1 DEF Id
    <3>. QED BY <3>1, <3>2
  <2>. HIDE DEF larger
  <2>2. /\ IsFiniteSet(larger) /\ Cardinality(larger) <= Cardinality(Id)
        /\ (Cardinality(larger) = Cardinality(Id) => larger = Id)
    BY <1>1, <2>1, FS_Subset
  <2>3. Cardinality(larger) \in Nat
    BY <2>2, FS_CardinalityType
  <2>4. Cardinality(larger) < IdsBufferSize
    BY <1>1, <2>1, <2>2, <2>3
  <2>. QED BY <2>4 DEF larger
<1>. QED BY <1>2 DEF trimmed

\* An ack takes nothing from a caller that waits.
LEMMA AcknowledgedWithoutCallback ==
    ASSUME NEW ids
    PROVE  \A m \in acknowledged(ids, FALSE) : ~hasCallback(owner[m])
  BY DEF acknowledged

LEMMA AckKeeps ==
    ASSUME Kept, NEW m \in Id, handleAck(m)
    PROVE  NothingIsLost'
<1>. USE DEF Kept, Inductive
<1>. DEFINE gone == acknowledged({m}, FALSE)
            unsent == notResent({m}, FALSE)
<1>1. /\ priv' = afterAcked({m}, FALSE)
      /\ data' = [data EXCEPT !.haveSent = @ \ gone, !.toSend = @ \ unsent]
      /\ UNCHANGED <<main, owner, status>>
  BY DEF handleAck, requestsAcked
<1>2. priv'.sending = priv.sending /\ priv'.moving = priv.moving
  BY <1>1, AfterAckedFields
<1>3. /\ \A n \in gone : ~hasCallback(owner[n])
      /\ \A r \in unsent : ~hasCallback(r)
  BY AcknowledgedWithoutCallback DEF notResent
<1>. HIDE DEF gone, unsent
<1>4. /\ data'.toSend = data.toSend \ unsent /\ data'.haveSent = data.haveSent \ gone
      /\ data'.received = data.received
  BY <1>1 DEF TypeOK, Data
<1>. QED BY <1>1, <1>2, <1>3, <1>4, NotLost

\* rpc_result erases a request only when its answer has been put where the
\* main thread finds it.
LEMMA ResultKeeps ==
    ASSUME Kept, IdsBufferSize >= MaxId, NEW m \in Id, rpcResult(m)
    PROVE  NothingIsLost'
<1>. USE DEF Kept, Inductive
<1>0. data \in Data /\ priv \in Private
  BY DEF TypeOK
<1>1. PICK again \in {FALSE, mayFail} :
         /\ owner[m] # NoRequest
         /\ priv' = afterAcked({m}, TRUE)
         /\ data' = [data EXCEPT
                       !.haveSent = @ \ {m},
                       !.toSend = @ \ notResent({m}, TRUE),
                       !.received = IF recognised(m)
                                    THEN @ \cup {[id |-> m, again |-> again]}
                                    ELSE @]
         /\ UNCHANGED <<main, owner, status>>
  BY DEF rpcResult
<1>. DEFINE answer == [id |-> m, again |-> again]
            all == IF recognised(m) THEN data.received \cup {answer} ELSE data.received
            unsent == notResent({m}, TRUE)
            done == acknowledged({m}, TRUE)
            acked == priv.acked \cup {n \in done : n \in data.haveSent \/ owner[n] \in data.toSend}
<1>2. data' = [data EXCEPT !.haveSent = @ \ {m}, !.toSend = @ \ unsent, !.received = all]
  BY <1>0, <1>1
<1>3. answer.id = m
  OBVIOUS
<1>4. contained({m}) = {m}
  <2>1. \A c \in priv.containers : c.id # m
    BY <1>1 DEF Owned
  <2>. QED BY <2>1 DEF contained
<1>5. done = {m} \cap (data.haveSent \cup priv.resending)
  BY <1>4 DEF acknowledged
<1>6. unsent \subseteq {owner[n] : n \in done \ data.haveSent} \cap data.toSend
  BY DEF notResent
<1>7. acked \in SUBSET Id
  BY <1>0, <1>5 DEF Private
<1>8. trimmed(acked) = acked
  BY <1>7, NothingTrimmed
<1>9. priv' = [priv EXCEPT !.containers = {c \in @ : c.id \notin {m}},
                 !.resending = @ \ (done \ data.haveSent),
                 !.acked = trimmed(acked)]
  BY <1>0, <1>1 DEF afterAcked
<1>. HIDE DEF answer, all, unsent, done
<1>10. /\ data'.toSend = data.toSend \ unsent /\ data'.haveSent = data.haveSent \ {m}
       /\ data'.received = all
  BY <1>0, <1>2 DEF Data
<1>11. priv'.acked = acked
  <2>. HIDE DEF acked
  <2>. QED BY <1>0, <1>8, <1>9 DEF Private
<1>12. priv'.sending = priv.sending /\ priv'.moving = priv.moving
  BY <1>1, AfterAckedFields
<1>13. m \in data.haveSent \/ (m \in done /\ owner[m] \in data.toSend) => m \in acked
  BY <1>5
<1>14. m \in acked => all = data.received \cup {answer}
  BY <1>11 DEF recognised, all
<1>15. \A r \in unsent : r = owner[m] /\ m \in done /\ owner[m] \in data.toSend
  BY <1>5, <1>6
<1>. HIDE DEF acked
<1>16. \A r \in data.toSend :
          r \in data'.toSend \/ \E a \in data'.received : owner[a.id] = r
  BY <1>3, <1>10, <1>13, <1>14, <1>15
<1>17. \A n \in data.haveSent :
          n \in data'.haveSent \/ \E a \in data'.received : owner[a.id] = owner[n]
  BY <1>3, <1>10, <1>13, <1>14
<1>18. data.received \subseteq data'.received
  BY <1>10 DEF all
<1>. QED BY <1>1, <1>12, <1>16, <1>17, <1>18, NotLost

LEMMA InfoKeeps ==
    ASSUME Kept, NEW i \in server.down, handleInfo(i)
    PROVE  NothingIsLost'
<1>. USE DEF Kept, Inductive
<1>0. i \in Info /\ data \in Data /\ priv \in Private
  BY TakenFields DEF TypeOK
<1>1. CASE handleMsgsStates(i)
  <2>. DEFINE lost == (i.ids \ i.known) \cap data.haveSent
              done == acknowledged(i.known, FALSE)
              unsent == notResent(i.known, FALSE)
              acked == afterAcked(i.known, FALSE)
  <2>1. /\ threadIdle /\ i.kind = "states"
        /\ data' = [data EXCEPT !.haveSent = @ \ (lost \cup done),
                                !.toSend = @ \ unsent]
        /\ priv' = [acked EXCEPT !.moving = lost, !.wake = @ \/ lost # {}]
        /\ UNCHANGED <<main, owner, status>>
    BY <1>1 DEF handleMsgsStates, received, listening
  <2>2. i.known \in SUBSET Id
    BY <1>0, <2>1 DEF Info
  <2>3. acked \in Private /\ acked.sending = priv.sending
    BY <2>2, AfterAckedFields
  <2>4. /\ \A n \in done : ~hasCallback(owner[n])
        /\ \A r \in unsent : ~hasCallback(r)
    BY AcknowledgedWithoutCallback DEF notResent
  <2>. HIDE DEF lost, done, unsent, acked
  <2>5. /\ data'.toSend = data.toSend \ unsent
        /\ data'.haveSent = data.haveSent \ (lost \cup done)
        /\ data'.received = data.received
    BY <1>0, <2>1 DEF Data
  <2>6. priv'.moving = lost /\ priv'.sending = priv.sending
    BY <2>1, <2>3 DEF Private
  <2>7. priv.moving = {}
    BY <2>1 DEF threadIdle
  <2>. QED BY <2>1, <2>4, <2>5, <2>6, <2>7, NotLost
<1>2. CASE newSessionCreated(i)
  <2>1. toResend(i.first) \in SUBSET Id
    BY <1>0 DEF Data, toResend
  <2>. QED BY <1>2, <2>1, TakeBackKeeps DEF newSessionCreated, received, listening
<1>3. CASE badMessage(i)
  <2>1. {i.id} \in SUBSET Id
    BY <1>0, <1>3 DEF badMessage, Info
  <2>2. CASE takeBack({i.id})
    BY <1>3, <2>1, <2>2, TakeBackKeeps DEF badMessage, received, listening
  <2>3. CASE UNCHANGED <<data, priv>>
    BY <1>3, <2>3, NotLost DEF badMessage
  <2>. QED BY <1>3, <2>2, <2>3 DEF badMessage
<1>4. CASE fatalMessage(i)
  <2>. DEFINE all == IF wasSent(i.id) /\ owner[i.id] # NoRequest
                     THEN data.received \cup {[id |-> i.id, again |-> TRUE]}
                     ELSE data.received
  <2>1. data' = [data EXCEPT !.received = all] /\ UNCHANGED <<main, priv, owner, status>>
    BY <1>0, <1>4 DEF fatalMessage
  <2>2. data.received \subseteq all
    OBVIOUS
  <2>. HIDE DEF all
  <2>3. /\ data'.toSend = data.toSend /\ data'.haveSent = data.haveSent
        /\ data'.received = all
    BY <1>0, <2>1 DEF Data
  <2>. QED BY <2>1, <2>2, <2>3, NotLost
<1>5. CASE resetSession(i)
  <2>1. /\ priv'.sending = priv.sending /\ priv'.moving = priv.moving
        /\ UNCHANGED <<main, data, owner, status>>
    BY <1>0, <1>5 DEF resetSession, disconnected, Private
  <2>. QED BY <2>1, NotLost
<1>. QED BY <1>1, <1>2, <1>3, <1>4, <1>5 DEF handleInfo

\* The rest of what the session's thread and the network do.
LEMMA OthersKeep ==
    ASSUME Kept,
           \/ tryToSendNothing \/ sendStates \/ checkSentRequests
           \/ resend \/ connectToServer \/ Network \/ UNCHANGED vars
    PROVE  NothingIsLost'
<1>. USE DEF Kept, Inductive
<1>0. data \in Data /\ priv \in Private
  BY DEF TypeOK
<1>1. CASE tryToSendNothing \/ sendStates \/ checkSentRequests
  <2>1. /\ priv'.sending = priv.sending /\ priv'.moving = priv.moving
        /\ UNCHANGED <<main, data, owner, status>>
    BY <1>0, <1>1 DEF tryToSendNothing, sendStates, checkSentRequests, Private
  <2>. QED BY <2>1, NotLost
<1>2. CASE resend
  <2>. DEFINE requests == {owner[m] : m \in priv.moving}
  <2>1. /\ data' = [data EXCEPT !.toSend = @ \cup requests, !.forced = @ \cup requests]
        /\ priv' = [priv EXCEPT !.moving = {}, !.wake = TRUE,
                                !.resending = @ \cup priv.moving]
        /\ UNCHANGED <<main, owner, status>>
    BY <1>2 DEF resend
  <2>2. \A m \in priv.moving : owner[m] \in requests
    OBVIOUS
  <2>. HIDE DEF requests
  <2>3. /\ data'.toSend = data.toSend \cup requests /\ data'.haveSent = data.haveSent
        /\ data'.received = data.received /\ priv'.sending = priv.sending
    BY <1>0, <2>1 DEF Data, Private
  <2>. QED BY <2>1, <2>2, <2>3, NotLost
<1>3. CASE connectToServer
  <2>1. /\ data'.toSend = data.toSend /\ data'.received = data.received
        /\ priv'.sending = priv.sending /\ priv'.moving = data.haveSent
        /\ priv.moving = {}
        /\ UNCHANGED <<main, owner, status>>
    BY <1>0, <1>3 DEF connectToServer, threadIdle, Data, Private
  <2>. QED BY <2>1, NotLost
<1>4. CASE Network
  <2>1. /\ priv'.sending = priv.sending /\ priv'.moving = priv.moving
        /\ UNCHANGED <<main, data, owner, status>>
    BY <1>0, <1>4 DEF Network, receivePacket, receivePing, loseConnection,
       forgetSession, refusePacket, disconnected, Private
  <2>. QED BY <2>1, NotLost
<1>5. CASE UNCHANGED vars
  BY <1>5, NotLost DEF vars
<1>. QED BY <1>1, <1>2, <1>3, <1>4, <1>5

LEMMA NothingIsLostStep ==
    ASSUME IdsBufferSize >= MaxId, Kept, [Next]_vars
    PROVE  NothingIsLost'
<1>1. CASE \E r \in Requests : MainThread(r)
  BY <1>1, MainKeeps
<1>2. CASE Sends
  <2>1. ASSUME NEW c \in priv.containers, clearOldContainers(c) PROVE NothingIsLost'
    <3>1. {c.id} \in SUBSET Id
      BY DEF Kept, Inductive, TypeOK, Private, Container
    <3>. QED BY <2>1, <3>1, TakeBackKeeps DEF clearOldContainers
  <2>. QED BY <1>2, <2>1, OthersKeep, SingleKeeps, ContainerKeeps DEF Sends
<1>3. CASE Receives
  BY <1>3, OthersKeep, AckKeeps, ResultKeeps, InfoKeeps DEF Receives
<1>4. CASE Network \/ UNCHANGED vars
  BY <1>4, OthersKeep
<1>. QED BY <1>1, <1>2, <1>3, <1>4 DEF Next

LEMMA OneAtATimeStep == Inductive /\ OneAtATime /\ [Next]_vars => OneAtATime'
<1>. SUFFICES ASSUME Inductive, OneAtATime, [Next]_vars PROVE OneAtATime'
  OBVIOUS
<1>0. main \in Main /\ priv \in Private
  BY DEF Inductive, TypeOK
<1>. USE DEF OneAtATime
<1>1. ASSUME NEW r \in Requests, MainThread(r) PROVE OneAtATime'
  <2>1. CASE sendRequest(r) \/ checkDelayedRequests(r)
    BY <1>0, <2>1 DEF sendRequest, checkDelayedRequests, woken, Main, Private
  <2>2. CASE cancel(r) \/ cancelToSend(r) \/ cancelHaveSent(r)
    BY <1>0, <2>2 DEF cancel, cancelToSend, cancelHaveSent, Main
  <2>3. CASE processCallback(r)
    BY <1>0, <2>3 DEF processCallback, Main
  <2>. QED BY <1>1, <2>1, <2>2, <2>3 DEF MainThread
<1>2. CASE Sends
  <2>1. CASE tryToSendNothing \/ sendStates \/ checkSentRequests
    BY <1>0, <2>1 DEF tryToSendNothing, sendStates, checkSentRequests, Private
  <2>2. ASSUME NEW r \in Requests, sendSingle(r) \/ sentSingle(r) PROVE OneAtATime'
    BY <1>0, <2>2 DEF sendSingle, sentSingle, Private
  <2>3. CASE sendContainer
    BY <1>0, <2>3 DEF sendContainer, Private
  <2>4. ASSUME NEW c \in priv.containers, clearOldContainers(c) PROVE OneAtATime'
    BY <1>0, <2>4 DEF clearOldContainers, takeBack, Private
  <2>. QED BY <1>2, <2>1, <2>2, <2>3, <2>4 DEF Sends
<1>3. CASE Receives
  <2>1. CASE resend \/ connectToServer
    BY <1>0, <2>1 DEF resend, connectToServer, Private
  <2>2. ASSUME NEW m \in Id, handleAck(m) \/ rpcResult(m) PROVE OneAtATime'
    <3>1. \A b \in BOOLEAN : afterAcked({m}, b).sending = priv.sending
      BY AfterAckedFields DEF Inductive
    <3>. QED BY <2>2, <3>1 DEF handleAck, rpcResult, requestsAcked
  <2>3. ASSUME NEW i \in server.down, handleMsgsStates(i) PROVE OneAtATime'
    <3>1. i \in Info /\ i.kind = "states"
      BY <2>3, TakenFields DEF handleMsgsStates, Inductive
    <3>2. i.known \in SUBSET Id
      BY <3>1 DEF Info
    <3>. DEFINE acked == afterAcked(i.known, FALSE)
                lost == (i.ids \ i.known) \cap data.haveSent
    <3>3. acked \in Private /\ acked.sending = priv.sending
      BY <3>2, AfterAckedFields DEF Inductive
    <3>4. /\ priv' = [acked EXCEPT !.moving = lost, !.wake = @ \/ lost # {}]
          /\ main' = main
      BY <2>3 DEF handleMsgsStates
    <3>. HIDE DEF acked, lost
    <3>5. priv'.sending = priv.sending
      BY <3>3, <3>4 DEF Private
    <3>. QED BY <3>4, <3>5
  <2>4. ASSUME NEW i \in server.down,
               newSessionCreated(i) \/ badMessage(i) \/ fatalMessage(i) \/ resetSession(i)
        PROVE  OneAtATime'
    <3>1. priv'.sending = priv.sending /\ main' = main
      BY <1>0, <2>4 DEF newSessionCreated, badMessage, fatalMessage, resetSession,
         takeBack, disconnected, Private
    <3>. QED BY <3>1
  <2>. QED BY <1>3, <2>1, <2>2, <2>3, <2>4 DEF Receives, handleInfo
<1>4. CASE Network
  BY <1>0, <1>4 DEF Network, receivePacket, receivePing, loseConnection, forgetSession,
     refusePacket, disconnected, Private
<1>5. CASE UNCHANGED vars
  BY <1>5 DEF vars
<1>. QED BY <1>1, <1>2, <1>3, <1>4, <1>5 DEF Next

\* While _ackedIds has room for every msg_id, a request whose caller waits is
\* in one of the maps or the gaps between them, or its answer is: in every
\* interleaving of the two threads, after any number of lost connections,
\* sessions and refused messages.
THEOREM NoLoss ==
    ASSUME IdsBufferSize >= MaxId
    PROVE  Spec => []NothingIsLost
<1>1. Init => OneAtATime /\ NothingIsLost
  BY DEF Init, Rpc!Init, OneAtATime, NothingIsLost, hasCallback
<1>2. Inductive /\ OneAtATime /\ NothingIsLost /\ [Next]_vars => NothingIsLost'
  BY NothingIsLostStep DEF Kept
<1>. QED BY <1>1, <1>2, InductiveInvariant, OneAtATimeStep, PTL DEF Spec
-----------------------------------------------------------------------------
(* A request that is sent again is the same message.                       *)

\* The caller has been told of an error, waits no longer, or is about to learn
\* something.
Settled(r) ==
    \/ r \in main.delays
    \/ ~hasCallback(r)
    \/ \E a \in data.received : owner[a.id] = r

\* The server has the message or will have it.
Sent(m) ==
    \/ m \in server.got
    \/ \E k \in 1 .. Len(server.up) : m \in server.up[k].ids

\* What sendSingle() may take, to be given a msg_id without a look at the old
\* one.
FirstTime == data.toSend \ data.forced

StartsEmpty == ~priv.started => server.up = <<>> /\ server.got = {}
DelayedIsSettled == \A r \in main.delayed : Settled(r)
NewHasNoId ==
    \A r \in FirstTime \cup priv.sending : data.msgId[r] = NoId \/ Settled(r)
TakenOnce == \A r \in FirstTime \cap priv.sending : Settled(r)
SentIsLatest == \A m \in Id :
    Sent(m) => data.msgId[owner[m]] = m \/ Settled(owner[m])

\* A message of an unsettled request is the latest one of the request; what
\* the session knows of the server before its first message is nothing.
SameMessage ==
    StartsEmpty /\ DelayedIsSettled /\ NewHasNoId /\ TakenOnce /\ SentIsLatest

\* Such a message belongs to a request that somebody has asked for.
LEMMA SentOwned ==
    ASSUME Inductive, NEW m \in Id, Sent(m)
    PROVE  owner[m] \in Requests /\ status[owner[m]] # "new"
<1>1. owner[m] # NoRequest
  BY RequestsAssumption DEF Inductive, TypeOK, Justified, Sent, NoRequest
<1>. QED BY <1>1 DEF Inductive, TypeOK, Justified

\* A step that gives no message another id and settles what was settled.
LEMMA StaysTheSame ==
    ASSUME Inductive, Inductive', SameMessage, owner' = owner,
           data'.msgId = data.msgId,
           \A r \in Requests : Settled(r) => Settled(r)',
           FirstTime' \subseteq FirstTime, priv'.sending \subseteq priv.sending,
           main'.delayed \subseteq main.delayed,
           \A m \in Id : Sent(m)' => Sent(m),
           StartsEmpty'
    PROVE  SameMessage'
<1>1. /\ FirstTime \subseteq Requests /\ priv.sending \subseteq Requests
      /\ main.delayed \subseteq Requests
  BY DEF Inductive, TypeOK, Data, Private, Main, FirstTime
<1>2. DelayedIsSettled'
  BY <1>1 DEF SameMessage, DelayedIsSettled
<1>3. NewHasNoId'
  BY <1>1 DEF SameMessage, NewHasNoId
<1>5. TakenOnce'
  BY <1>1 DEF SameMessage, TakenOnce
<1>4. SentIsLatest'
  BY SentOwned DEF SameMessage, SentIsLatest
<1>. QED BY <1>2, <1>3, <1>4, <1>5 DEF SameMessage

\* The caller learns nothing new either.
LEMMA StaysUntold ==
    ASSUME Inductive, Inductive', SameMessage, UNCHANGED <<main, owner, status>>,
           data'.msgId = data.msgId, data.received \subseteq data'.received,
           FirstTime' \subseteq FirstTime, priv'.sending \subseteq priv.sending,
           \A m \in Id : Sent(m)' => Sent(m),
           StartsEmpty'
    PROVE  SameMessage'
<1>1. \A r \in Requests : Settled(r) => Settled(r)'
  BY DEF Settled, hasCallback
<1>. QED BY <1>1, StaysTheSame

\* ... and the server is left alone.
LEMMA StaysHere ==
    ASSUME Inductive, Inductive', SameMessage, UNCHANGED <<main, owner, status>>,
           data'.msgId = data.msgId, data.received \subseteq data'.received,
           FirstTime' \subseteq FirstTime, priv'.sending \subseteq priv.sending,
           server'.up = server.up, server'.got = server.got,
           priv'.started = priv.started
    PROVE  SameMessage'
<1>1. \A m \in Id : Sent(m)' => Sent(m)
  BY DEF Sent
<1>2. StartsEmpty'
  BY DEF SameMessage, StartsEmpty
<1>. QED BY <1>1, <1>2, StaysUntold

\* The main thread takes a msg_id away from new and delayed requests only.
LEMMA MainSame ==
    ASSUME Inductive, Inductive', SameMessage, NEW r \in Requests, MainThread(r)
    PROVE  SameMessage'
<1>0. /\ main \in Main /\ data \in Data /\ priv \in Private
      /\ status \in [Requests -> Rpc!Status]
  BY DEF Inductive, TypeOK
<1>1. CASE sendRequest(r)
  <2>1. /\ status[r] = "new"
        /\ status' = [status EXCEPT ![r] = "asked"]
        /\ data' = [data EXCEPT !.toSend = @ \cup {r}, !.msgId[r] = NoId]
        /\ priv' = [priv EXCEPT !.wake = TRUE]
        /\ UNCHANGED <<main, server, owner, executed>>
    BY <1>1 DEF sendRequest, prepared, woken
  <2>2. \A q \in Requests : q # r =>
           /\ data'.msgId[q] = data.msgId[q]
           /\ Settled(q) => Settled(q)'
    BY <1>0, <2>1 DEF Settled, hasCallback, Data
  <2>3. /\ data'.msgId[r] = NoId /\ FirstTime' \subseteq FirstTime \cup {r}
        /\ priv'.sending = priv.sending
    BY <1>0, <2>1 DEF Data, Private, FirstTime
  <2>4. \A m \in Id : Sent(m)' => Sent(m) /\ owner[m] \in Requests \ {r}
    BY <2>1, SentOwned DEF Sent
  <2>5. StartsEmpty'
    BY <1>0, <2>1 DEF SameMessage, StartsEmpty, Private
  <2>6. r \notin main.delayed \cup priv.sending
    BY <2>1 DEF Inductive, Justified
  <2>7. /\ FirstTime \subseteq Requests /\ priv.sending \subseteq Requests
        /\ main.delayed \subseteq Requests
    BY <1>0 DEF Data, Private, Main, FirstTime
  <2>8. DelayedIsSettled'
    BY <2>1, <2>2, <2>6, <2>7 DEF SameMessage, DelayedIsSettled
  <2>9. NewHasNoId'
    BY <2>2, <2>3, <2>7 DEF SameMessage, NewHasNoId
  <2>11. TakenOnce'
    BY <2>2, <2>3, <2>6, <2>7 DEF SameMessage, TakenOnce
  <2>10. SentIsLatest'
    BY <2>1, <2>2, <2>4 DEF SameMessage, SentIsLatest
  <2>. QED BY <2>5, <2>8, <2>9, <2>10, <2>11 DEF SameMessage
<1>2. CASE checkDelayedRequests(r)
  <2>1. /\ r \in main.delayed
        /\ main' = [main EXCEPT !.delayed = @ \ {r}]
        /\ UNCHANGED <<server, owner, status, executed>>
    BY <1>2 DEF checkDelayedRequests
  <2>2. CASE hasCallback(r)
    <3>1. /\ data' = [data EXCEPT !.toSend = @ \cup {r}, !.msgId[r] = NoId]
          /\ priv' = [priv EXCEPT !.wake = TRUE]
      BY <1>2, <2>2 DEF checkDelayedRequests, prepared, woken
    <3>2. \A q \in Requests : Settled(q) => Settled(q)'
      BY <1>0, <2>1, <3>1 DEF Settled, hasCallback, Main, Data
    <3>3. \A q \in Requests : q # r => data'.msgId[q] = data.msgId[q]
      BY <1>0, <3>1 DEF Data
    <3>4. Settled(r) /\ Settled(r)'
      BY <2>1, <3>2 DEF SameMessage, DelayedIsSettled
    <3>5. \A m \in Id : Sent(m)' => Sent(m) /\ owner[m] \in Requests
      BY <2>1, SentOwned DEF Sent
    <3>6. StartsEmpty'
      BY <1>0, <2>1, <3>1 DEF SameMessage, StartsEmpty, Private
    <3>7. /\ FirstTime \subseteq Requests /\ priv.sending \subseteq Requests
          /\ main.delayed \subseteq Requests
      BY <1>0 DEF Data, Private, Main, FirstTime
    <3>8. DelayedIsSettled'
      BY <1>0, <2>1, <3>2, <3>7 DEF SameMessage, DelayedIsSettled, Main
    <3>9. FirstTime' \subseteq FirstTime \cup {r} /\ priv'.sending = priv.sending
      BY <1>0, <3>1 DEF Data, Private, FirstTime
    <3>10. NewHasNoId'
      BY <3>2, <3>3, <3>4, <3>7, <3>9 DEF SameMessage, NewHasNoId
    <3>12. TakenOnce'
      BY <3>2, <3>4, <3>7, <3>9 DEF SameMessage, TakenOnce
    <3>11. SentIsLatest'
      BY <2>1, <3>2, <3>3, <3>4, <3>5 DEF SameMessage, SentIsLatest
    <3>. QED BY <3>6, <3>8, <3>10, <3>11, <3>12 DEF SameMessage
  <2>3. CASE ~hasCallback(r)
    <3>1. data' = data /\ priv' = priv
      BY <1>2, <2>3 DEF checkDelayedRequests
    <3>2. \A q \in Requests : Settled(q) => Settled(q)'
      BY <1>0, <2>1, <3>1 DEF Settled, hasCallback, Main
    <3>3. main'.delayed \subseteq main.delayed /\ FirstTime' = FirstTime
      BY <1>0, <2>1, <3>1 DEF Main, FirstTime
    <3>4. (\A m \in Id : Sent(m)' => Sent(m)) /\ StartsEmpty'
      BY <2>1, <3>1 DEF Sent, SameMessage, StartsEmpty
    <3>. QED BY <2>1, <3>1, <3>2, <3>3, <3>4, StaysTheSame
  <2>. QED BY <2>2, <2>3
<1>3. CASE cancel(r) \/ cancelToSend(r)
  <2>1. /\ main'.delays = main.delays /\ main'.delayed = main.delayed
        /\ data'.received = data.received /\ data'.msgId = data.msgId
        /\ FirstTime' \subseteq FirstTime
        /\ UNCHANGED <<priv, server, owner, status>>
    BY <1>0, <1>3 DEF cancel, cancelToSend, Main, Data, FirstTime
  <2>2. \A q \in Requests : Settled(q) => Settled(q)'
    BY <2>1 DEF Settled, hasCallback
  <2>3. (\A m \in Id : Sent(m)' => Sent(m)) /\ StartsEmpty'
    BY <2>1 DEF Sent, SameMessage, StartsEmpty
  <2>. QED BY <2>1, <2>2, <2>3, StaysTheSame
<1>4. CASE cancelHaveSent(r)
  <2>1. /\ main'.delays = main.delays \ {r} /\ main'.delayed = main.delayed
        /\ data'.received = data.received /\ data'.msgId = data.msgId
        /\ data'.toSend = data.toSend /\ data'.forced = data.forced
        /\ status' = [status EXCEPT ![r] = "cancelled"]
        /\ UNCHANGED <<priv, server, owner>>
    BY <1>0, <1>4 DEF cancelHaveSent, Main, Data
  <2>2. \A q \in Requests : Settled(q) => Settled(q)'
    BY <1>0, <2>1 DEF Settled, hasCallback
  <2>3. (\A m \in Id : Sent(m)' => Sent(m)) /\ StartsEmpty' /\ FirstTime' = FirstTime
    BY <2>1 DEF Sent, SameMessage, StartsEmpty, FirstTime
  <2>. QED BY <2>1, <2>2, <2>3, StaysTheSame
<1>5. CASE processCallback(r)
  <2>1. PICK a \in data.received :
           /\ owner[a.id] = r
           /\ data' = [data EXCEPT !.received = @ \ {a}]
           /\ status' = IF handler(r) /\ ~a.again
                        THEN [status EXCEPT ![r] = "answered"]
                        ELSE status
           /\ main' = IF handler(r) /\ a.again
                      THEN [main EXCEPT !.delayed = @ \cup {r},
                                        !.delays = @ \cup {r}]
                      ELSE [main EXCEPT !.delays = @ \ {r}]
    BY <1>5 DEF processCallback
  <2>2. UNCHANGED <<priv, server, owner>>
    BY <1>5 DEF processCallback
  <2>3. /\ data'.received = data.received \ {a} /\ data'.msgId = data.msgId
        /\ data'.toSend = data.toSend /\ data'.forced = data.forced
    BY <1>0, <2>1 DEF Data
  <2>4. Settled(r)'
    BY <1>0, <2>1 DEF Settled, hasCallback, handler, Main
  <2>5. \A q \in Requests \ {r} : Settled(q) => Settled(q)'
    <3>1. \A q \in Requests \ {r} : q \in main.delays => q \in main'.delays
      BY <1>0, <2>1 DEF Main
    <3>2. \A q \in Requests \ {r} : status'[q] = status[q]
      BY <1>0, <2>1
    <3>. QED BY <2>1, <2>2, <2>3, <3>1, <3>2 DEF Settled, hasCallback
  <2>6. main'.delayed \subseteq main.delayed \cup {r}
    BY <1>0, <2>1 DEF Main
  <2>7. (\A m \in Id : Sent(m)' => Sent(m)) /\ StartsEmpty' /\ FirstTime' = FirstTime
    BY <2>2, <2>3 DEF Sent, SameMessage, StartsEmpty, FirstTime
  <2>8. /\ FirstTime \subseteq Requests /\ priv.sending \subseteq Requests
        /\ main.delayed \subseteq Requests
    BY <1>0 DEF Data, Private, Main, FirstTime
  <2>9. DelayedIsSettled'
    BY <2>4, <2>5, <2>6, <2>8 DEF SameMessage, DelayedIsSettled
  <2>10. NewHasNoId'
    BY <2>2, <2>3, <2>4, <2>5, <2>7, <2>8 DEF SameMessage, NewHasNoId
  <2>12. TakenOnce'
    BY <2>2, <2>4, <2>5, <2>7, <2>8 DEF SameMessage, TakenOnce
  <2>11. SentIsLatest'
    BY <2>2, <2>3, <2>4, <2>5, <2>7, SentOwned DEF SameMessage, SentIsLatest
  <2>. QED BY <2>7, <2>9, <2>10, <2>11, <2>12 DEF SameMessage
<1>. QED BY <1>1, <1>2, <1>3, <1>4, <1>5 DEF MainThread

\* A single request is only ever given its first msg_id of the session, or one
\* that its caller does not count on.
LEMMA SingleSame ==
    ASSUME Inductive, Inductive', SameMessage, NEW r \in Requests,
           sendSingle(r) \/ sentSingle(r)
    PROVE  SameMessage'
<1>0. /\ data \in Data /\ priv \in Private /\ server \in Server
      /\ owner \in [Id -> Requests \cup {NoRequest}]
  BY DEF Inductive, TypeOK
<1>1. CASE sendSingle(r)
  <2>1. r \in data.toSend \ data.forced
    BY <1>1 DEF sendSingle, batch
  <2>2. /\ data'.msgId = data.msgId /\ data'.received = data.received
        /\ data'.toSend \subseteq data.toSend /\ data'.forced = data.forced
        /\ priv'.sending = {r} /\ priv'.started = priv.started
        /\ UNCHANGED <<main, server, owner, status>>
    BY <1>0, <1>1 DEF sendSingle, Data, Private
  <2>3. /\ FirstTime' \subseteq FirstTime \ {r} /\ r \in FirstTime
        /\ main.delayed \subseteq Requests /\ FirstTime \subseteq Requests
    BY <1>0, <1>1, <2>1 DEF sendSingle, FirstTime, Data, Inductive, TypeOK, Main
  <2>4. \A q \in Requests : Settled(q) => Settled(q)'
    BY <2>2 DEF Settled, hasCallback
  <2>5. StartsEmpty' /\ DelayedIsSettled'
    BY <2>2, <2>3, <2>4 DEF SameMessage, StartsEmpty, DelayedIsSettled
  <2>6. NewHasNoId'
    BY <2>2, <2>3, <2>4 DEF SameMessage, NewHasNoId
  <2>7. TakenOnce'
    BY <2>2, <2>3 DEF TakenOnce
  <2>8. SentIsLatest'
    BY <2>2, <2>4, SentOwned DEF SameMessage, SentIsLatest, Sent
  <2>. QED BY <2>5, <2>6, <2>7, <2>8 DEF SameMessage
<1>2. CASE sentSingle(r)
  <2>. DEFINE id == server.nextId
              p == [id |-> id, ids |-> {id}, states |-> {}]
  <2>1. id \in Id /\ r \in priv.sending
    BY <1>2 DEF sentSingle
  <2>2. /\ data' = [data EXCEPT !.haveSent = @ \cup {id}, !.msgId[r] = id]
        /\ priv' = [priv EXCEPT !.sending = {}, !.started = TRUE]
        /\ server' = [server EXCEPT !.nextId = id + 1, !.up = Append(@, p)]
        /\ owner' = [owner EXCEPT ![id] = r]
        /\ UNCHANGED <<main, status>>
    BY <1>2 DEF sentSingle
  <2>3. p \in Packet /\ p.ids = {id}
    BY <2>1 DEF Packet
  <2>. HIDE DEF p
  <2>4. /\ server'.got = server.got
        /\ \A k \in 1 .. Len(server'.up) :
              \/ k \in 1 .. Len(server.up) /\ server'.up[k] = server.up[k]
              \/ server'.up[k] = p
    BY <1>0, <2>2, <2>3, OneMorePacket DEF Server
  <2>5. \A m \in Id : Sent(m)' => Sent(m) \/ m = id
    BY <2>3, <2>4 DEF Sent
  <2>6. \A m \in Id : owner[m] # NoRequest => owner'[m] = owner[m]
    BY <1>0, <2>1, <2>2 DEF Inductive, Owned, Id
  <2>. HIDE DEF id
  <2>7. owner'[id] = r
    BY <1>0, <2>1, <2>2
  <2>8. \A q \in Requests : Settled(q) => Settled(q)'
    <3>1. \A a \in data.received : owner[a.id] # NoRequest /\ a.id \in Id
      BY <1>0 DEF Inductive, Justified, Data, Answer
    <3>2. data'.received = data.received
      BY <1>0, <2>2 DEF Data
    <3>. QED BY <2>2, <2>6, <3>1, <3>2 DEF Settled, hasCallback
  <2>9. /\ \A q \in Requests : q # r => data'.msgId[q] = data.msgId[q]
        /\ data'.msgId[r] = id
        /\ FirstTime' = FirstTime /\ priv'.sending = {} /\ priv'.started
    BY <1>0, <2>2 DEF FirstTime, Data, Private
  <2>10. FirstTime \subseteq Requests /\ main.delayed \subseteq Requests
    BY <1>0 DEF Data, Main, FirstTime, Inductive, TypeOK
  <2>11. Settled(r)' \/ \A m \in Id : Sent(m) => owner[m] # r
    <3>1. CASE Settled(r)
      BY <2>8, <3>1
    <3>2. CASE ~Settled(r)
      <4>1. data.msgId[r] = NoId
        BY <2>1, <3>2 DEF SameMessage, NewHasNoId
      <4>2. \A m \in Id : m # NoId
        BY DEF Id, NoId
      <4>. QED BY <3>2, <4>1, <4>2 DEF SameMessage, SentIsLatest
    <3>. QED BY <3>1, <3>2
  <2>12. DelayedIsSettled'
    BY <2>2, <2>8, <2>10 DEF SameMessage, DelayedIsSettled
  <2>13. NewHasNoId'
    <3>. SUFFICES ASSUME NEW q \in FirstTime PROVE (data.msgId[q] = NoId \/ Settled(q))'
      BY <2>9 DEF NewHasNoId
    \* One that is waiting again already has been answered with an error.
    <3>1. CASE q = r
      BY <2>1, <2>8, <3>1 DEF SameMessage, TakenOnce
    <3>2. CASE q # r
      BY <2>8, <2>9, <2>10, <3>2 DEF SameMessage, NewHasNoId
    <3>. QED BY <3>1, <3>2
  <2>14. SentIsLatest'
    <3>. SUFFICES ASSUME NEW m \in Id, Sent(m)'
                  PROVE  (data.msgId[owner[m]] = m \/ Settled(owner[m]))'
      BY DEF SentIsLatest
    <3>1. CASE m = id
      BY <2>7, <2>9, <3>1
    <3>2. CASE m # id
      <4>1. Sent(m) /\ owner[m] \in Requests /\ owner'[m] = owner[m]
        BY <2>5, <2>6, <3>2, SentOwned, RequestsAssumption DEF NoRequest
      <4>. QED BY <2>8, <2>9, <2>11, <4>1 DEF SameMessage, SentIsLatest
    <3>. QED BY <3>1, <3>2
  <2>15. StartsEmpty' /\ TakenOnce'
    BY <2>9 DEF StartsEmpty, TakenOnce
  <2>. QED BY <2>12, <2>13, <2>14, <2>15 DEF SameMessage
<1>. QED BY <1>1, <1>2

\* A container gives new msg_ids to what has none and, as the first message of
\* a session, to all it holds: the server then knows of nothing else.
LEMMA ContainerSame ==
    ASSUME Inductive, Inductive', SameMessage, sendContainer
    PROVE  SameMessage'
<1>0. /\ data \in Data /\ priv \in Private /\ server \in Server /\ main \in Main
      /\ owner \in [Id -> Requests \cup {NoRequest}]
  BY DEF Inductive, TypeOK
<1>. DEFINE id == server.nextId + Cardinality({r \in batch : renewed(r)})
            ids == {idFor(r) : r \in batch}
            p == [id |-> id, ids |-> ids, states |-> priv.toCheck]
<1>1. /\ data'.toSend = data.toSend \ batch /\ data'.forced = data.forced
      /\ data'.msgId = [r \in Requests |-> IF r \in batch THEN idFor(r) ELSE data.msgId[r]]
      /\ data'.received = data.received
      /\ priv'.started /\ priv'.sending = priv.sending /\ priv.sending = {}
      /\ server'.up = Append(server.up, p) /\ server'.got = server.got
      /\ UNCHANGED <<main, status>>
  BY <1>0 DEF sendContainer, canSend, threadIdle, Data, Private, Server
<1>2. /\ \A r \in batch : r \in Requests /\ idFor(r) \in Id /\ owner'[idFor(r)] = r
      /\ \A m \in Id : owner[m] # NoRequest => owner'[m] = owner[m]
      /\ id \in Id
  BY ContainerOwners DEF sendContainer
<1>3. p \in Packet /\ p.ids = ids
  BY <1>0, <1>2 DEF Packet, Private
<1>. HIDE DEF p
<1>4. \A k \in 1 .. Len(server'.up) :
         \/ k \in 1 .. Len(server.up) /\ server'.up[k] = server.up[k]
         \/ server'.up[k] = p
  BY <1>0, <1>1, <1>3, OneMorePacket DEF Server
<1>5. \A m \in Id : Sent(m)' => Sent(m) \/ m \in ids
  BY <1>1, <1>3, <1>4 DEF Sent
<1>6. \A q \in Requests : Settled(q) => Settled(q)'
  <2>1. \A a \in data.received : owner[a.id] # NoRequest /\ a.id \in Id
    BY <1>0 DEF Inductive, Justified, Data, Answer
  <2>. QED BY <1>1, <1>2, <2>1 DEF Settled, hasCallback
<1>7. batch \subseteq data.toSend /\ data.toSend \subseteq Requests
      /\ main.delayed \subseteq Requests
  BY <1>0 DEF batch, Data, Main
<1>8. StartsEmpty' /\ TakenOnce'
  BY <1>1 DEF StartsEmpty, TakenOnce
<1>9. DelayedIsSettled'
  BY <1>1, <1>6, <1>7 DEF SameMessage, DelayedIsSettled
<1>10. NewHasNoId'
  BY <1>1, <1>6, <1>7 DEF SameMessage, NewHasNoId, FirstTime
<1>11. SentIsLatest'
  <2>. SUFFICES ASSUME NEW m \in Id, Sent(m)'
                PROVE  (data.msgId[owner[m]] = m \/ Settled(owner[m]))'
    BY DEF SentIsLatest
  <2>1. CASE m \in ids
    <3>1. PICK r \in batch : m = idFor(r)
      BY <2>1
    <3>2. owner'[m] = r /\ r \in Requests /\ data'.msgId[r] = m
      BY <1>1, <1>2, <3>1
    <3>. QED BY <3>2
  <2>2. CASE m \notin ids
    <3>1. Sent(m) /\ owner[m] \in Requests /\ owner'[m] = owner[m]
      BY <1>2, <1>5, <2>2, SentOwned, RequestsAssumption DEF NoRequest
    <3>2. CASE owner[m] \in batch
      <4>1. priv.started
        <5>1. ~priv.started => server.up = <<>> /\ server.got = {}
          BY DEF SameMessage, StartsEmpty
        <5>2. Len(<<>>) = 0
          OBVIOUS
        <5>. QED BY <3>1, <5>1, <5>2 DEF Sent
      <4>2. CASE data.msgId[owner[m]] = m
        <5>1. m # NoId
          BY DEF Id, NoId
        <5>2. idFor(owner[m]) = m
          BY <4>1, <4>2, <5>1 DEF idFor, renewed
        <5>. QED BY <2>2, <3>2, <5>2
      <4>3. CASE data.msgId[owner[m]] # m
        BY <1>6, <3>1, <4>3 DEF SameMessage, SentIsLatest
      <4>. QED BY <4>2, <4>3
    <3>3. CASE owner[m] \notin batch
      BY <1>1, <1>6, <3>1, <3>3 DEF SameMessage, SentIsLatest
    <3>. QED BY <3>2, <3>3
  <2>. QED BY <2>1, <2>2
<1>. QED BY <1>8, <1>9, <1>10, <1>11 DEF SameMessage

\* A question about states is no request.
LEMMA CheckLeavesSending ==
    ASSUME Inductive, checkSentRequests
    PROVE  /\ priv'.sending = priv.sending /\ priv'.started = priv.started
           /\ UNCHANGED <<main, data, server, owner, status>>
<1>1. PICK old \in SUBSET data.haveSent :
         priv' = [priv EXCEPT !.toCheck = @ \cup old,
                     !.wake = @ \/ ~(old \subseteq priv.toCheck),
                     !.checkTimer = old # data.haveSent]
  BY DEF checkSentRequests
<1>2. UNCHANGED <<main, data, server, owner, status, executed>>
  BY DEF checkSentRequests
<1>. QED BY <1>1, <1>2 DEF Inductive, TypeOK, Private

\* Nor do the steps that send none.
LEMMA QuestionSame ==
    ASSUME Inductive, Inductive', SameMessage,
           tryToSendNothing \/ checkSentRequests \/ sendStates
    PROVE  SameMessage'
<1>0. /\ data \in Data /\ priv \in Private /\ server \in Server
  BY DEF Inductive, TypeOK
<1>1. CASE tryToSendNothing \/ checkSentRequests
  <2>1. /\ priv'.sending = priv.sending /\ priv'.started = priv.started
        /\ UNCHANGED <<main, data, server, owner, status>>
    <3>1. CASE tryToSendNothing
      BY <1>0, <3>1 DEF tryToSendNothing, Private
    <3>2. CASE checkSentRequests
      BY <3>2, CheckLeavesSending
    <3>. QED BY <1>1, <3>1, <3>2
  <2>2. FirstTime' \subseteq FirstTime
    BY <2>1 DEF FirstTime
  <2>. QED BY <2>1, <2>2, StaysHere
<1>2. CASE sendStates
  <2>. DEFINE p == [id |-> NoId, ids |-> {}, states |-> priv.toCheck]
  <2>1. /\ priv'.sending = priv.sending /\ priv'.started
        /\ server'.up = Append(server.up, p) /\ server'.got = server.got
        /\ UNCHANGED <<main, data, owner, status>>
    BY <1>0, <1>2 DEF sendStates, Private, Server
  <2>2. p \in Packet /\ p.ids = {}
    BY <1>0 DEF Packet, Private
  <2>. HIDE DEF p
  <2>3. \A k \in 1 .. Len(server'.up) :
           \/ k \in 1 .. Len(server.up) /\ server'.up[k] = server.up[k]
           \/ server'.up[k] = p
    BY <1>0, <2>1, <2>2, OneMorePacket DEF Server
  <2>4. \A m \in Id : Sent(m)' => Sent(m)
    BY <2>1, <2>2, <2>3 DEF Sent
  <2>5. FirstTime' \subseteq FirstTime /\ StartsEmpty'
    BY <2>1 DEF FirstTime, StartsEmpty
  <2>. QED BY <2>1, <2>4, <2>5, StaysUntold
<1>. QED BY <1>1, <1>2

\* Neither resend() nor resendAll() touches a msg_id: what is to be sent again
\* goes into a container, which keeps it.
LEMMA TakeBackSame ==
    ASSUME Inductive, NEW ids \in SUBSET Id, takeBack(ids)
    PROVE  /\ data'.msgId = data.msgId /\ data'.received = data.received
           /\ FirstTime' = FirstTime
           /\ priv'.sending = priv.sending /\ priv'.started = priv.started
  BY DEF Inductive, TypeOK, Data, Private, takeBack, FirstTime

\* Nor does requestsAcked().
LEMMA AckedSame ==
    ASSUME Inductive, NEW ids \in SUBSET Id, NEW byResponse \in BOOLEAN
    PROVE  /\ afterAcked(ids, byResponse).sending = priv.sending
           /\ afterAcked(ids, byResponse).started = priv.started
<1>. DEFINE done == acknowledged(ids, byResponse)
            all == trimmed(priv.acked \cup {m \in done :
                      m \in data.haveSent \/ owner[m] \in data.toSend})
            unanswered == done \ data.haveSent
<1>1. afterAcked(ids, byResponse) =
         [priv EXCEPT !.containers = {c \in @ : c.id \notin ids},
                      !.resending = @ \ unanswered, !.acked = all]
  BY DEF afterAcked, Inductive, TypeOK, Private
<1>. HIDE DEF all, unanswered
<1>. QED BY <1>1 DEF Inductive, TypeOK, Private

\* What is received changes no msg_id.
LEMMA ReceivesSame ==
    ASSUME Inductive, Inductive', SameMessage,
           Receives \/ \E c \in priv.containers : clearOldContainers(c)
    PROVE  SameMessage'
<1>0. /\ data \in Data /\ priv \in Private /\ server \in Server
  BY DEF Inductive, TypeOK
<1>1. ASSUME NEW c \in priv.containers, clearOldContainers(c) PROVE SameMessage'
  <2>1. {c.id} \in SUBSET Id
    BY <1>0 DEF Private, Container
  <2>2. /\ takeBack({c.id}) /\ server' = faulty /\ mayFail
        /\ UNCHANGED <<main, owner, status>>
    BY <1>1 DEF clearOldContainers
  <2>3. server'.up = server.up /\ server'.got = server.got
    BY <2>2, FaultyFields DEF Inductive
  <2>. QED BY <2>1, <2>2, <2>3, TakeBackSame, StaysHere
<1>2. CASE resend
  <2>1. /\ data'.msgId = data.msgId /\ data'.received = data.received
        /\ priv'.sending = priv.sending /\ priv'.started = priv.started
        /\ FirstTime' \subseteq FirstTime
        /\ UNCHANGED <<main, server, owner, status>>
    BY <1>0, <1>2 DEF resend, Data, Private, FirstTime
  <2>. QED BY <2>1, StaysHere
<1>3. CASE connectToServer
  <2>1. /\ data'.msgId = data.msgId /\ data'.received = data.received
        /\ priv'.sending = priv.sending /\ priv'.started = priv.started
        /\ FirstTime' \subseteq FirstTime
        /\ UNCHANGED <<main, server, owner, status>>
    BY <1>0, <1>3 DEF connectToServer, Data, Private, FirstTime
  <2>. QED BY <2>1, StaysHere
<1>4. ASSUME NEW m \in Id, handleAck(m) PROVE SameMessage'
  <2>1. /\ data'.msgId = data.msgId /\ data'.received = data.received
        /\ FirstTime' \subseteq FirstTime
        /\ priv' = afterAcked({m}, FALSE)
        /\ UNCHANGED <<main, server, owner, status>>
    BY <1>0, <1>4 DEF handleAck, requestsAcked, Data, FirstTime
  <2>2. priv'.sending = priv.sending /\ priv'.started = priv.started
    BY <2>1, AckedSame
  <2>. QED BY <2>1, <2>2, StaysHere
<1>5. ASSUME NEW m \in Id, rpcResult(m) PROVE SameMessage'
  <2>1. PICK again \in {FALSE, mayFail} :
           /\ priv' = afterAcked({m}, TRUE)
           /\ data' = [data EXCEPT
                         !.haveSent = @ \ {m},
                         !.toSend = @ \ notResent({m}, TRUE),
                         !.received = IF recognised(m)
                                      THEN @ \cup {[id |-> m, again |-> again]}
                                      ELSE @]
           /\ server' = [IF again THEN faulty ELSE server EXCEPT !.told = @ \cup {m}]
           /\ UNCHANGED <<main, owner, status>>
    BY <1>5 DEF rpcResult
  <2>. DEFINE all == IF recognised(m)
                     THEN data.received \cup {[id |-> m, again |-> again]}
                     ELSE data.received
              unsent == notResent({m}, TRUE)
  <2>2. data' = [data EXCEPT !.haveSent = @ \ {m}, !.toSend = @ \ unsent, !.received = all]
    BY <1>0, <2>1
  <2>3. data.received \subseteq all
    OBVIOUS
  <2>. HIDE DEF all, unsent
  <2>4. /\ data'.msgId = data.msgId /\ data.received \subseteq data'.received
        /\ FirstTime' \subseteq FirstTime
    BY <1>0, <2>2, <2>3 DEF Data, FirstTime
  <2>5. priv'.sending = priv.sending /\ priv'.started = priv.started
    BY <2>1, AckedSame
  <2>6. server'.up = server.up /\ server'.got = server.got
    <3>1. CASE again
      <4>1. server' = [[server EXCEPT !.faults = @ + 1] EXCEPT !.told = @ \cup {m}]
        BY <2>1, <3>1 DEF faulty
      <4>. QED BY <1>0, <4>1 DEF Server
    <3>2. CASE ~again
      BY <1>0, <2>1, <3>2 DEF Server
    <3>. QED BY <3>1, <3>2
  <2>. QED BY <2>1, <2>4, <2>5, <2>6, StaysHere
<1>6. ASSUME NEW i \in server.down, handleInfo(i) PROVE SameMessage'
  <2>0. /\ taken(i).up = server.up /\ taken(i).got = server.got /\ i \in Info
    BY TakenFields DEF Inductive
  <2>1. ASSUME NEW ids \in SUBSET Id, takeBack(ids) \/ UNCHANGED <<data, priv>>,
               server' = taken(i), UNCHANGED <<main, owner, status>>
        PROVE  SameMessage'
    <3>1. CASE takeBack(ids)
      BY <2>0, <2>1, <3>1, TakeBackSame, StaysHere
    <3>2. CASE UNCHANGED <<data, priv>>
      <4>1. FirstTime' \subseteq FirstTime
        BY <3>2 DEF FirstTime
      <4>. QED BY <2>0, <2>1, <3>2, <4>1, StaysHere
    <3>. QED BY <2>1, <3>1, <3>2
  <2>2. CASE handleMsgsStates(i)
    <3>. DEFINE acked == afterAcked(i.known, FALSE)
                lost == (i.ids \ i.known) \cap data.haveSent
    <3>1. /\ data'.msgId = data.msgId /\ data'.received = data.received
          /\ FirstTime' \subseteq FirstTime
          /\ i.kind = "states" /\ server' = taken(i)
          /\ priv' = [acked EXCEPT !.moving = lost, !.wake = @ \/ lost # {}]
          /\ UNCHANGED <<main, owner, status>>
      BY <1>0, <2>2 DEF handleMsgsStates, Data, FirstTime
    <3>2. i.known \in SUBSET Id
      BY <2>0, <3>1 DEF Info
    <3>3. acked \in Private /\ acked.sending = priv.sending /\ acked.started = priv.started
      BY <3>2, AckedSame, AfterAckedFields DEF Inductive
    <3>. HIDE DEF acked, lost
    <3>4. priv'.sending = priv.sending /\ priv'.started = priv.started
      BY <3>1, <3>3 DEF Private
    <3>. QED BY <2>0, <3>1, <3>4, StaysHere
  <2>3. CASE newSessionCreated(i)
    <3>1. toResend(i.first) \in SUBSET Id
      BY <1>0 DEF Data, toResend
    <3>. QED BY <2>1, <2>3, <3>1 DEF newSessionCreated
  <2>4. CASE badMessage(i)
    <3>1. {i.id} \in SUBSET Id
      BY <2>0, <2>4 DEF badMessage, Info
    <3>2. takeBack({i.id}) \/ UNCHANGED <<data, priv>>
      BY <2>4 DEF badMessage
    <3>. QED BY <2>1, <2>4, <3>1, <3>2 DEF badMessage
  <2>5. CASE fatalMessage(i)
    <3>. DEFINE all == IF wasSent(i.id) /\ owner[i.id] # NoRequest
                       THEN data.received \cup {[id |-> i.id, again |-> TRUE]}
                       ELSE data.received
    <3>1. /\ data' = [data EXCEPT !.received = all]
          /\ server' = taken(i) /\ UNCHANGED <<main, priv, owner, status>>
      BY <1>0, <2>5 DEF fatalMessage
    <3>2. data.received \subseteq all
      OBVIOUS
    <3>. HIDE DEF all
    <3>3. /\ data'.msgId = data.msgId /\ data.received \subseteq data'.received
          /\ FirstTime' \subseteq FirstTime
      BY <1>0, <3>1, <3>2 DEF Data, FirstTime
    <3>. QED BY <2>0, <3>1, <3>3, StaysHere
  <2>6. CASE resetSession(i)
    <3>1. /\ priv'.sending = priv.sending
          /\ server'.up = <<>> /\ server'.got = {}
          /\ UNCHANGED <<main, data, owner, status>>
      BY <1>0, <2>6 DEF resetSession, disconnected, Private, Server
    <3>2. FirstTime' \subseteq FirstTime
      BY <3>1 DEF FirstTime
    <3>3. Len(<<>>) = 0
      OBVIOUS
    <3>4. (\A m \in Id : Sent(m)' => Sent(m)) /\ StartsEmpty'
      BY <3>1, <3>3 DEF Sent, StartsEmpty
    <3>. QED BY <3>1, <3>2, <3>4, StaysUntold
  <2>. QED BY <1>6, <2>2, <2>3, <2>4, <2>5, <2>6 DEF handleInfo
<1>. QED BY <1>1, <1>2, <1>3, <1>4, <1>5, <1>6 DEF Receives

\* The server refuses a message or takes a packet without it: it knows no more.
LEMMA RefusedKnowsNoMore ==
    ASSUME Inductive, refusePacket
    PROVE  /\ server.up # <<>> /\ UNCHANGED <<main, data, priv, owner, status>>
           /\ \A m \in Id : Sent(m)' => Sent(m)
<1>. DEFINE p == Head(server.up)
<1>0. /\ p \in Packet /\ p = server.up[1] /\ 1 \in 1 .. Len(server.up)
      /\ Tail(server.up) \in Seq(Packet)
      /\ \A k \in 1 .. Len(Tail(server.up)) :
            k + 1 \in 1 .. Len(server.up) /\ Tail(server.up)[k] = server.up[k + 1]
  <2>1. server.up # <<>> /\ server.up \in Seq(Packet)
    BY DEF refusePacket, Inductive, TypeOK, Server
  <2>. QED BY <2>1, FirstPacket
<1>1. PICK kind \in {"resend", "reset", "fatal"}, id \in msgIds(p) :
         LET rest == IF id = p.id THEN {} ELSE p.ids \ {id}
             s == begun(faulty, firstOf(p))
         IN  server' = [s EXCEPT
                         !.up = IF rest = {}
                                THEN Tail(@)
                                ELSE <<[p EXCEPT !.ids = rest]>> \o Tail(@),
                         !.down = @ \cup {[kind |-> kind, id |-> id]}]
  BY DEF refusePacket
<1>2. /\ server.up # <<>> /\ mayFail
      /\ UNCHANGED <<main, data, priv, owner, status, executed>>
  BY DEF refusePacket
<1>. DEFINE rest == IF id = p.id THEN {} ELSE p.ids \ {id}
            r == [p EXCEPT !.ids = rest]
            s == begun(faulty, firstOf(p))
            up == IF rest = {} THEN Tail(server.up) ELSE <<r>> \o Tail(server.up)
            down == s.down \cup {[kind |-> kind, id |-> id]}
<1>3. s \in Server /\ s.up = server.up /\ s.got \subseteq server.got
  BY <1>0, <1>2, BoundsAssumption, FirstOfPacket, FaultyFields, BegunFields DEF Inductive
<1>4. server' = [s EXCEPT !.up = up, !.down = down]
  BY <1>1, <1>3
<1>5. r \in Packet /\ r.ids \subseteq p.ids
  <2>1. rest \subseteq p.ids
    OBVIOUS
  <2>. HIDE DEF rest, p
  <2>. QED BY <1>0, <1>2, <2>1 DEF Packet
<1>6. \A k \in 1 .. Len(up) : \A m \in up[k].ids :
         \E j \in 1 .. Len(server.up) : m \in server.up[j].ids
  <2>1. CASE rest = {}
    BY <1>0, <1>2, <2>1
  <2>2. CASE rest # {}
    <3>1. up = <<r>> \o Tail(server.up)
      BY <2>2
    <3>. HIDE DEF up, r
    <3>2. \A k \in 1 .. Len(up) :
             \/ up[k] = r
             \/ k - 1 \in 1 .. Len(Tail(server.up)) /\ up[k] = Tail(server.up)[k - 1]
      BY <1>0, <1>2, <1>5, <3>1, PacketInFront
    <3>3. \A k \in 1 .. Len(Tail(server.up)) :
             \E j \in 1 .. Len(server.up) : Tail(server.up)[k] = server.up[j]
      BY <1>0, <1>2
    <3>. HIDE DEF p
    <3>. QED BY <1>0, <1>2, <1>5, <3>2, <3>3
  <2>. QED BY <2>1, <2>2
<1>. HIDE DEF p, rest, r, s, up, down
<1>7. server'.up = up /\ server'.got \subseteq server.got
  BY <1>3, <1>4 DEF Server
<1>8. \A m \in Id : Sent(m)' => Sent(m)
  BY <1>6, <1>7 DEF Sent
<1>. QED BY <1>2, <1>8

\* The network gives the server nothing that was not on its way.
LEMMA NetworkSame ==
    ASSUME Inductive, Inductive', SameMessage, Network
    PROVE  SameMessage'
<1>0. /\ data \in Data /\ priv \in Private /\ server \in Server
      /\ server.up \in Seq(Packet) /\ server.nextId \in 1 .. MaxId + 1
  BY DEF Inductive, TypeOK, Server
<1>. SUFFICES /\ UNCHANGED <<main, data, owner, status>>
              /\ priv'.sending = priv.sending /\ priv'.started = priv.started
              /\ \A m \in Id : Sent(m)' => Sent(m)
              /\ StartsEmpty'
  <2>1. UNCHANGED data => FirstTime' = FirstTime
    BY DEF FirstTime
  <2>. QED BY <2>1, StaysUntold
<1>. DEFINE p == Head(server.up)
<1>1. server.up # <<>> =>
        /\ p \in Packet /\ p = server.up[1] /\ 1 \in 1 .. Len(server.up)
        /\ Tail(server.up) \in Seq(Packet)
        /\ \A k \in 1 .. Len(Tail(server.up)) :
              k + 1 \in 1 .. Len(server.up) /\ Tail(server.up)[k] = server.up[k + 1]
  BY <1>0, FirstPacket
<1>2. server.up # <<>> => priv.started
  BY DEF SameMessage, StartsEmpty
<1>3. CASE receivePacket
  <2>. DEFINE q == [server EXCEPT !.up = Tail(@)]
              s == begun(q, firstOf(p))
              known == s.got \cup p.ids
              down == s.down \cup {a \in {[kind |-> "states", ids |-> p.states,
                         known |-> p.states \cap known]} : p.states # {}}
  <2>1. /\ server.up # <<>> /\ UNCHANGED <<main, data, priv, owner, status>>
        /\ server' = [s EXCEPT !.got = known, !.down = down]
    BY <1>3 DEF receivePacket
  <2>2. q \in Server /\ q.up = Tail(server.up) /\ q.got = server.got
    BY <1>0, <1>1, <2>1 DEF Server
  <2>3. s \in Server /\ s.up = q.up /\ s.got \subseteq q.got
    BY <1>1, <2>1, <2>2, BoundsAssumption, FirstOfPacket, BegunFields DEF Inductive
  <2>. HIDE DEF q, s, down
  <2>4. server'.up = Tail(server.up) /\ server'.got \subseteq server.got \cup p.ids
    BY <2>1, <2>2, <2>3 DEF Server
  <2>5. \A m \in Id : Sent(m)' => Sent(m)
    BY <1>1, <2>1, <2>4 DEF Sent
  <2>6. StartsEmpty'
    BY <1>2, <2>1 DEF StartsEmpty
  <2>. QED BY <2>1, <2>5, <2>6
<1>4. CASE receivePing
  <2>1. /\ server'.up = server.up /\ server'.got \subseteq server.got
        /\ UNCHANGED <<main, data, priv, owner, status>>
    BY <1>0, <1>4, BoundsAssumption, BegunFields DEF receivePing
  <2>2. \A m \in Id : Sent(m)' => Sent(m)
    BY <2>1 DEF Sent
  <2>3. StartsEmpty'
    BY <2>1 DEF SameMessage, StartsEmpty
  <2>. QED BY <2>1, <2>2, <2>3
<1>5. CASE loseConnection
  <2>. DEFINE down == {i \in faulty.down : i.kind = "newSession"}
  <2>1. /\ priv'.sending = priv.sending /\ priv'.started = priv.started
        /\ UNCHANGED <<main, data, owner, status>> /\ mayFail
        /\ server' = [faulty EXCEPT !.up = <<>>, !.down = down]
    BY <1>0, <1>5 DEF loseConnection, disconnected, Private
  <2>2. faulty \in Server /\ faulty.got = server.got
    BY <2>1, FaultyFields DEF Inductive
  <2>. HIDE DEF down
  <2>3. server'.up = <<>> /\ server'.got = server.got
    BY <2>1, <2>2 DEF Server
  <2>4. Len(<<>>) = 0
    OBVIOUS
  <2>5. \A m \in Id : Sent(m)' => Sent(m)
    BY <2>3, <2>4 DEF Sent
  <2>6. StartsEmpty'
    BY <2>1, <2>3 DEF SameMessage, StartsEmpty
  <2>. QED BY <2>1, <2>5, <2>6
<1>6. CASE forgetSession
  <2>1. /\ UNCHANGED <<main, data, priv, owner, status>> /\ mayFail
        /\ server' = [faulty EXCEPT !.alive = FALSE, !.got = {}, !.told = {}]
    BY <1>6 DEF forgetSession
  <2>2. faulty \in Server /\ faulty.up = server.up
    BY <2>1, FaultyFields DEF Inductive
  <2>3. server'.up = server.up /\ server'.got = {}
    BY <2>1, <2>2 DEF Server
  <2>4. \A m \in Id : Sent(m)' => Sent(m)
    BY <2>3 DEF Sent
  <2>5. StartsEmpty'
    BY <2>1, <2>3 DEF SameMessage, StartsEmpty
  <2>. QED BY <2>1, <2>4, <2>5
<1>7. CASE refusePacket
  <2>1. StartsEmpty'
    BY <1>2, <1>7, RefusedKnowsNoMore DEF StartsEmpty
  <2>. QED BY <1>7, <2>1, RefusedKnowsNoMore
<1>. QED BY <1>3, <1>4, <1>5, <1>6, <1>7 DEF Network

\* Every step.
LEMMA SameMessageStep ==
    Inductive /\ SameMessage /\ [Next]_vars => SameMessage'
<1>. SUFFICES ASSUME Inductive, SameMessage, [Next]_vars PROVE SameMessage'
  OBVIOUS
<1>0. Inductive'
  BY InductiveStep
<1>1. CASE \E r \in Requests : MainThread(r)
  BY <1>0, <1>1, MainSame
<1>2. CASE Sends
  <2>1. CASE \E r \in Requests : sendSingle(r) \/ sentSingle(r)
    BY <1>0, <2>1, SingleSame
  <2>2. CASE sendContainer
    BY <1>0, <2>2, ContainerSame
  <2>3. CASE tryToSendNothing \/ checkSentRequests \/ sendStates
    BY <1>0, <2>3, QuestionSame
  <2>4. CASE \E c \in priv.containers : clearOldContainers(c)
    BY <1>0, <2>4, ReceivesSame
  <2>. QED BY <1>2, <2>1, <2>2, <2>3, <2>4 DEF Sends
<1>3. CASE Receives
  BY <1>0, <1>3, ReceivesSame
<1>4. CASE Network
  BY <1>0, <1>4, NetworkSame
<1>5. CASE UNCHANGED vars
  BY <1>5 DEF vars, SameMessage, StartsEmpty, DelayedIsSettled, NewHasNoId, TakenOnce,
     SentIsLatest, FirstTime, Settled, Sent, hasCallback
<1>. QED BY <1>1, <1>2, <1>3, <1>4, <1>5 DEF Next

\* However often connections, sessions and messages fail, a request whose
\* caller still waits is one message to the server: prepareToSend() keeps its
\* msg_id in a session that has begun, and what has none was never sent.
THEOREM OneMessage == Spec => []OncePerSession
<1>1. Init => SameMessage
  BY DEF Init, Rpc!Init, SameMessage, StartsEmpty, DelayedIsSettled, NewHasNoId,
     TakenOnce, SentIsLatest, FirstTime, Settled, Sent, hasCallback
<1>2. Inductive /\ SameMessage => OncePerSession
  <2>. SUFFICES ASSUME Inductive, SameMessage,
                       NEW m \in server.got, NEW n \in server.got,
                       owner[m] = owner[n], m # n
                PROVE  Settled(owner[m])
    BY DEF OncePerSession, Settled
  <2>1. m \in Id /\ n \in Id /\ Sent(m) /\ Sent(n)
    BY DEF Inductive, TypeOK, Server, Sent
  <2>. QED BY <2>1 DEF SameMessage, SentIsLatest
<1>. QED BY <1>1, <1>2, InductiveInvariant, SameMessageStep, PTL DEF Spec
=============================================================================
