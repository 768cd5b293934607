---------------------------- MODULE SessionRequests ----------------------------
(***************************************************************************)
(* The life of a request in one MTProto session: Instance::Private and     *)
(* Session on the main thread, SessionPrivate on the session's thread,     *)
(* SessionData with its locks between them (mtproto/mtp_instance.cpp,      *)
(* session.cpp, session_private.cpp), and a server that loses connections, *)
(* sessions and nothing else.                                              *)
(*                                                                         *)
(* A request waits in _toSend, is given a msg_id, stays in _haveSent until *)
(* it is answered, goes back to _toSend when it has to be sent again, and  *)
(* its answer waits in _receivedMessages for the main thread.  The session *)
(* thread takes a request out of one map and puts it into the other under  *)
(* different locks: the main thread may cancel it in between.              *)
(*                                                                         *)
(* A msg_id belongs to one request for ever (owner), so that the maps from *)
(* msg_ids to requests are sets of msg_ids.  Messages of the session       *)
(* itself (pings, acks, questions about states) have no msg_id here.       *)
(***************************************************************************)
EXTENDS Integers, FiniteSets, Sequences

CONSTANTS
    Requests,        \* request ids
    MaxId,           \* bound: msg_ids that are handed out
    IdsBufferSize,   \* kIdsBufferSize: how many ids _ackedIds holds
    ContainerSize,   \* requests that fit below kCutContainerOnSize
    MaxFaults        \* bound: what the network and the server do wrong

ASSUME RequestsAssumption ==
    Requests \subseteq Nat \ {0} /\ IsFiniteSet(Requests)
ASSUME BoundsAssumption ==
    /\ {MaxId, IdsBufferSize, MaxFaults} \subseteq Nat
    /\ ContainerSize \in Nat \ {0}

VARIABLES
    main,     \* Instance::Private: delayed requests, the call of cancel()
    data,     \* SessionData: _toSend, _haveSent, _receivedMessages
    priv,     \* SessionPrivate
    server,   \* the server and the connection to it
    owner,    \* the request each msg_id was given to
    status,   \* what the caller knows of each request
    executed  \* the requests the server has carried out

vars == <<main, data, priv, server, owner, status, executed>>

Id == 1 .. MaxId
NoId == 0
NoRequest == 0    \* the owner of a container's msg_id

Main == [
    delayed : SUBSET Requests,      \* _delayedRequests
    delays : SUBSET Requests,       \* _requestsDelays
    cancelling : SUBSET Requests,   \* what cancel() is called for
    cancelId : {NoId} \cup Id,      \* the msg_id it has read
    removed : BOOLEAN ]             \* whether it has been through _toSend

Answer == [ id : Id, again : BOOLEAN ]

Data == [
    toSend : SUBSET Requests,
    msgId : [Requests -> {NoId} \cup Id],   \* in the SerializedRequest
    forced : SUBSET Requests,               \* forceSendInContainer
    haveSent : SUBSET Id,
    received : SUBSET Answer ]

Container == [ id : Id, ids : SUBSET Id ]

Private == [
    connected : BOOLEAN,
    started : BOOLEAN,              \* _sessionMarkedAsStarted
    wake : BOOLEAN,                 \* a call of tryToSend() is on its way
    moving : SUBSET Id,             \* between _haveSent and _toSend
    sending : SUBSET Requests,      \* between _toSend and _haveSent
    resending : SUBSET Id,          \* _resendingIds
    acked : SUBSET Id,              \* _ackedIds
    containers : SUBSET Container,  \* _sentContainers
    toCheck : SUBSET Id,            \* _stateRequestData
    checkTimer : BOOLEAN ]          \* _checkSentRequestsTimer

Packet == [ id : {NoId} \cup Id, ids : SUBSET Id, states : SUBSET Id ]
Info ==
    [ kind : {"states"}, ids : SUBSET Id, known : SUBSET Id ]
    \cup [ kind : {"newSession"}, first : 1 .. MaxId + 1 ]
    \cup [ kind : {"resend", "reset", "fatal"}, id : Id ]

Server == [
    up : Seq(Packet), down : SUBSET Info,
    alive : BOOLEAN,                \* whether the server has the session
    got : SUBSET Id,                \* what it has got in this session
    told : SUBSET Id,               \* what it has answered in this session
    nextId : 1 .. MaxId + 1,
    faults : 0 .. MaxFaults ]

Rpc == INSTANCE RpcService

TypeOK ==
    /\ main \in Main /\ data \in Data /\ priv \in Private /\ server \in Server
    /\ owner \in [Id -> Requests \cup {NoRequest}]
    /\ status \in [Requests -> Rpc!Status]
    /\ executed \subseteq Requests

Init ==
    /\ main = [delayed |-> {}, delays |-> {}, cancelling |-> {},
               cancelId |-> NoId, removed |-> FALSE]
    /\ data = [toSend |-> {}, msgId |-> [r \in Requests |-> NoId],
               forced |-> {}, haveSent |-> {}, received |-> {}]
    /\ priv = [connected |-> FALSE, started |-> FALSE, wake |-> FALSE,
               moving |-> {}, sending |-> {}, resending |-> {}, acked |-> {},
               containers |-> {}, toCheck |-> {}, checkTimer |-> FALSE]
    /\ server = [up |-> <<>>, down |-> {}, alive |-> FALSE, got |-> {},
                 told |-> {}, nextId |-> 1, faults |-> 0]
    /\ owner = [m \in Id |-> NoRequest]
    /\ Rpc!Init

-----------------------------------------------------------------------------
\* The network and the server fail MaxFaults times.
mayFail == server.faults < MaxFaults
faulty == [server EXCEPT !.faults = @ + 1]

(* The main thread.  It has no other call in progress.                     *)

mainIdle == main.cancelling = {}

\* Its handler is in _parserMap.
hasCallback(r) == status[r] = "asked"

\* Session::sendPrepared(): the request is without a msg_id again.
prepared(d, r) == [d EXCEPT !.toSend = @ \cup {r}, !.msgId[r] = NoId]
woken == [priv EXCEPT !.wake = TRUE]

sendRequest(r) ==
    /\ mainIdle
    /\ status[r] = "new"
    /\ status' = [status EXCEPT ![r] = "asked"]
    /\ data' = prepared(data, r)
    /\ priv' = woken
    /\ UNCHANGED <<main, server, owner, executed>>

\* A request that was cancelled meanwhile is not found any more.
checkDelayedRequests(r) ==
    /\ mainIdle /\ r \in main.delayed
    /\ main' = [main EXCEPT !.delayed = @ \ {r}]
    /\ IF hasCallback(r)
       THEN data' = prepared(data, r) /\ priv' = woken
       ELSE UNCHANGED <<data, priv>>
    /\ UNCHANGED <<server, owner, status, executed>>

\* cancel() reads the msg_id without a lock of the session, then calls
\* Session::cancel(), which takes one lock after the other.
cancel(r) ==
    /\ mainIdle /\ hasCallback(r)
    /\ main' = [main EXCEPT !.cancelling = {r}, !.cancelId = data.msgId[r],
                            !.removed = FALSE]
    /\ UNCHANGED <<data, priv, server, owner, status, executed>>

cancelToSend(r) ==
    /\ r \in main.cancelling /\ ~main.removed
    /\ main' = [main EXCEPT !.removed = TRUE]
    /\ data' = [data EXCEPT !.toSend = @ \ {r}]
    /\ UNCHANGED <<priv, server, owner, status, executed>>

cancelHaveSent(r) ==
    /\ r \in main.cancelling /\ main.removed
    /\ main' = [main EXCEPT !.cancelling = {}, !.cancelId = NoId,
                            !.removed = FALSE, !.delays = @ \ {r}]
    /\ data' = [data EXCEPT !.haveSent = @ \ {main.cancelId}]
    /\ status' = [status EXCEPT ![r] = "cancelled"]
    /\ UNCHANGED <<priv, server, owner, executed>>

\* A plausible slip: cancel() leaves the handler where it is.
handlerStays(r) == status[r] \in {"asked", "cancelled"}

\* What processCallback() takes out of _parserMap.
handler(r) == hasCallback(r)

\* Session::tryToReceive(): an error that makes the program wait puts the
\* handler back and the request into _delayedRequests.
processCallback(r) ==
    /\ mainIdle
    /\ \E a \in data.received :
         /\ owner[a.id] = r
         /\ data' = [data EXCEPT !.received = @ \ {a}]
         /\ status' = IF handler(r) /\ ~a.again
                      THEN [status EXCEPT ![r] = "answered"]
                      ELSE status
         /\ main' = IF handler(r) /\ a.again
                    THEN [main EXCEPT !.delayed = @ \cup {r},
                                      !.delays = @ \cup {r}]
                    ELSE [main EXCEPT !.delays = @ \ {r}]
    /\ UNCHANGED <<priv, server, owner, executed>>

-----------------------------------------------------------------------------
(* The thread of the session: what is sent.                                *)

threadIdle == priv.moving = {} /\ priv.sending = {}

\* The requests that go into one container: the first of the map.
batch == {r \in data.toSend :
            Cardinality({q \in data.toSend : q < r}) < ContainerSize}

\* A plausible slip: the rest is not sent after the first container.
skipsNothing == FALSE

someSkipped == batch # data.toSend

\* A plausible slip: what is sent again is another message.
alwaysRenewed(r) == TRUE

\* prepareToSend(): whether the request is given another msg_id.
renewed(r) == data.msgId[r] = NoId \/ ~priv.started

\* bigMsgId grows with every request that takes it.
newId(r) == server.nextId + Cardinality({q \in batch : q < r /\ renewed(q)})
idFor(r) == IF renewed(r) THEN newId(r) ELSE data.msgId[r]

\* replaceMsgId(): the new id takes the place of the old one everywhere.
replaced(m) ==
    IF \E r \in batch : data.msgId[r] = m /\ renewed(r)
    THEN idFor(CHOOSE r \in batch : data.msgId[r] = m /\ renewed(r))
    ELSE m
replacedAll(ids) == {replaced(m) : m \in ids}

\* tryToSend() finds nothing to do.
tryToSendNothing ==
    /\ threadIdle /\ priv.wake
    /\ priv.connected => data.toSend = {} /\ priv.toCheck = {}
    /\ priv' = [priv EXCEPT !.wake = FALSE]
    /\ UNCHANGED <<main, data, server, owner, status, executed>>

canSend == threadIdle /\ priv.wake /\ priv.connected

\* A single request leaves _toSend under one lock ...
sendSingle(r) ==
    /\ canSend
    /\ batch = {r} /\ r \notin data.forced /\ priv.toCheck = {}
    /\ data' = [data EXCEPT !.toSend = @ \ {r}]
    /\ priv' = [priv EXCEPT !.wake = someSkipped, !.sending = {r}]
    /\ UNCHANGED <<main, server, owner, status, executed>>

\* ... and enters _haveSent under another.  The timer that asks for the
\* states of requests is started for containers only.
sentSingle(r) ==
    LET id == server.nextId IN
    /\ r \in priv.sending
    /\ id \in Id
    /\ data' = [data EXCEPT !.haveSent = @ \cup {id}, !.msgId[r] = id]
    /\ priv' = [priv EXCEPT !.sending = {}, !.started = TRUE]
    /\ server' = [server EXCEPT !.nextId = id + 1,
                    !.up = Append(@, [id |-> id, ids |-> {id}, states |-> {}])]
    /\ owner' = [owner EXCEPT ![id] = r]
    /\ UNCHANGED <<main, status, executed>>

\* Both locks are held while a container is built.
sendContainer ==
    LET id == server.nextId + Cardinality({r \in batch : renewed(r)})
        ids == {idFor(r) : r \in batch}
    IN
    /\ canSend
    /\ batch # {} /\ id \in Id
    /\ data' = [data EXCEPT !.toSend = @ \ batch,
                  !.msgId = [r \in Requests |->
                               IF r \in batch THEN idFor(r) ELSE @[r]],
                  !.haveSent = replacedAll(@) \cup ids]
    /\ priv' = [priv EXCEPT !.wake = someSkipped, !.started = TRUE,
                  !.resending = @ \ {data.msgId[r] : r \in batch},
                  !.acked = replacedAll(@),
                  !.containers =
                      {[c EXCEPT !.ids = replacedAll(@)] : c \in @}
                          \cup {[id |-> id, ids |-> ids]},
                  !.toCheck = {},
                  !.checkTimer = TRUE]
    /\ server' = [server EXCEPT !.nextId = id + 1,
                    !.up = Append(@, [id |-> id, ids |-> ids,
                                      states |-> priv.toCheck])]
    /\ owner' = [m \in Id |->
                   IF \E r \in batch : renewed(r) /\ m = idFor(r)
                   THEN CHOOSE r \in batch : renewed(r) /\ m = idFor(r)
                   ELSE owner[m]]
    /\ UNCHANGED <<main, status, executed>>

\* Only a question about states.
sendStates ==
    /\ canSend
    /\ data.toSend = {} /\ priv.toCheck # {}
    /\ priv' = [priv EXCEPT !.wake = FALSE, !.started = TRUE, !.toCheck = {}]
    /\ server' = [server EXCEPT !.up =
                    Append(@, [id |-> NoId, ids |-> {}, states |-> priv.toCheck])]
    /\ UNCHANGED <<main, data, owner, status, executed>>

\* A bound: the answer about states comes before the next question.
notAsking ==
    /\ \A k \in 1 .. Len(server.up) : server.up[k].states = {}
    /\ \A i \in server.down : i.kind # "states"

\* checkSentRequests(): what was sent long enough ago is asked about; the
\* timer goes on only for what is younger.
checkSentRequests ==
    /\ threadIdle /\ priv.checkTimer /\ notAsking
    /\ \E old \in SUBSET data.haveSent :
         /\ old = {} => data.haveSent = {}
         /\ priv' = [priv EXCEPT !.toCheck = @ \cup old,
                       !.wake = @ \/ ~(old \subseteq priv.toCheck),
                       !.checkTimer = old # data.haveSent]
    /\ UNCHANGED <<main, data, server, owner, status, executed>>

-----------------------------------------------------------------------------
(* The thread of the session: what is received.                            *)

listening == threadIdle /\ priv.connected

\* What is said of a container's msg_id is said of what it contains.
contained(ids) ==
    (ids \ {c.id : c \in priv.containers})
        \cup UNION {c.ids : c \in {d \in priv.containers : d.id \in ids}}

\* resend() and resendAll() take requests out of _haveSent under one lock ...
takeBack(ids) ==
    /\ data' = [data EXCEPT !.haveSent = @ \ contained(ids)]
    /\ priv' = [priv EXCEPT !.moving = contained(ids) \cap data.haveSent,
                  !.containers = {c \in @ : c.id \notin ids},
                  !.wake = TRUE]

\* ... and put them into _toSend under another.
resend ==
    LET requests == {owner[m] : m \in priv.moving} IN
    /\ priv.moving # {}
    /\ data' = [data EXCEPT !.toSend = @ \cup requests,
                            !.forced = @ \cup requests]
    /\ priv' = [priv EXCEPT !.moving = {}, !.wake = TRUE,
                            !.resending = @ \cup priv.moving]
    /\ UNCHANGED <<main, server, owner, status, executed>>

\* _ackedIds keeps the largest ids.
trimmed(ids) ==
    {m \in ids : Cardinality({n \in ids : n > m}) < IdsBufferSize}

\* A plausible slip: an ack is taken for an answer.
acknowledgedByAny(ids, byResponse) ==
    contained(ids) \cap (data.haveSent \cup priv.resending)

\* An ack is not enough for a request whose caller waits for an answer.
acknowledged(ids, byResponse) ==
    {m \in contained(ids) :
        m \in data.haveSent \cup priv.resending
            /\ (hasCallback(owner[m]) => byResponse)}

\* What requestsAcked() takes out of _toSend.
notResent(ids, byResponse) ==
    {owner[m] : m \in acknowledged(ids, byResponse) \ data.haveSent}
        \cap data.toSend

\* requestsAcked() erases a container without a question, asked or not.
afterAcked(ids, byResponse) ==
    LET done == acknowledged(ids, byResponse) IN
    [priv EXCEPT
        !.containers = {c \in @ : c.id \notin ids},
        !.resending = @ \ (done \ data.haveSent),
        !.acked = trimmed(@ \cup {m \in done :
            m \in data.haveSent \/ owner[m] \in data.toSend})]

requestsAcked(ids, byResponse) ==
    /\ priv' = afterAcked(ids, byResponse)
    /\ data' = [data EXCEPT
                  !.haveSent = @ \ acknowledged(ids, byResponse),
                  !.toSend = @ \ notResent(ids, byResponse)]

\* msgs_ack, for a message or for a container.
handleAck(m) ==
    /\ listening /\ m \in server.got
    /\ m \in data.haveSent \cup priv.resending \cup {c.id : c \in priv.containers}
    /\ requestsAcked({m}, FALSE)
    /\ UNCHANGED <<main, server, owner, status, executed>>

\* wasSent(): the request of a msg_id, when it can still be told.
recognised(m) ==
    m \in priv'.resending \cup priv'.acked

\* rpc_result: the request is done, and its answer is kept for the main
\* thread, when the request can still be found after requestsAcked().
rpcResult(m) ==
    \E again \in {FALSE, mayFail} :
    /\ listening /\ m \in server.got \ server.told
    /\ owner[m] # NoRequest
    /\ priv' = afterAcked({m}, TRUE)
    /\ data' = [data EXCEPT
                  !.haveSent = @ \ {m},
                  !.toSend = @ \ notResent({m}, TRUE),
                  !.received = IF recognised(m)
                               THEN @ \cup {[id |-> m, again |-> again]}
                               ELSE @]
    /\ server' = [IF again THEN faulty ELSE server EXCEPT !.told = @ \cup {m}]
    /\ UNCHANGED <<main, owner, status, executed>>

received(i) == listening /\ i \in server.down
taken(i) == [server EXCEPT !.down = @ \ {i}]

\* msgs_state_info: what the server knows is acknowledged, the rest is sent
\* again.  It is not asked about what is waiting to be sent again.
handleMsgsStates(i) ==
    LET lost == (i.ids \ i.known) \cap data.haveSent
        done == acknowledged(i.known, FALSE)
    IN
    /\ received(i) /\ i.kind = "states"
    /\ data' = [data EXCEPT !.haveSent = @ \ (lost \cup done),
                            !.toSend = @ \ notResent(i.known, FALSE)]
    /\ priv' = [afterAcked(i.known, FALSE) EXCEPT
                  !.moving = lost, !.wake = @ \/ lost # {}]
    /\ server' = taken(i)
    /\ UNCHANGED <<main, owner, status, executed>>

\* A plausible slip: the first_msg_id of a new session is ignored.
nothingToResend(firstMsgId) == {}

toResend(firstMsgId) == {m \in data.haveSent : m < firstMsgId}

\* new_session_created: the server has not seen what is older.
newSessionCreated(i) ==
    /\ received(i) /\ i.kind = "newSession"
    /\ takeBack(toResend(i.first))
    /\ server' = taken(i)
    /\ UNCHANGED <<main, owner, status, executed>>

\* bad_msg_notification and bad_server_salt for a message that can be sent
\* again.
wasSent(m) ==
    m \in data.haveSent \cup priv.resending \cup priv.acked
              \cup {c.id : c \in priv.containers}

badMessage(i) ==
    /\ received(i) /\ i.kind = "resend"
    /\ IF wasSent(i.id) THEN takeBack({i.id}) ELSE UNCHANGED <<data, priv>>
    /\ server' = taken(i)
    /\ UNCHANGED <<main, owner, status, executed>>

\* A bad_msg_notification that cannot be helped is an error for the caller.
fatalMessage(i) ==
    /\ received(i) /\ i.kind = "fatal"
    /\ data' = [data EXCEPT !.received =
                  IF wasSent(i.id) /\ owner[i.id] # NoRequest
                  THEN @ \cup {[id |-> i.id, again |-> TRUE]}
                  ELSE @]
    /\ server' = taken(i)
    /\ UNCHANGED <<main, priv, owner, status, executed>>

disconnected(p) == [p EXCEPT !.connected = FALSE]

\* resetSession(): the server must take this for another session.  Nothing
\* of the old one is left on the way.
resetSession(i) ==
    /\ received(i) /\ i.kind = "reset"
    /\ priv' = [disconnected(priv) EXCEPT !.started = FALSE, !.toCheck = {}]
    /\ server' = [server EXCEPT !.up = <<>>, !.down = {}, !.alive = FALSE,
                    !.got = {}, !.told = {}]
    /\ UNCHANGED <<main, data, owner, status, executed>>

\* clearOldContainers(): nothing has been said of the container for so long
\* that something must have gone wrong.
clearOldContainers(c) ==
    /\ threadIdle /\ c \in priv.containers /\ mayFail
    /\ takeBack({c.id})
    /\ server' = faulty
    /\ UNCHANGED <<main, owner, status, executed>>

\* authKeyChecked(): all that was sent is sent again.
connectToServer ==
    /\ threadIdle /\ ~priv.connected
    /\ data' = [data EXCEPT !.haveSent = {}]
    /\ priv' = [priv EXCEPT !.connected = TRUE, !.wake = TRUE,
                            !.moving = data.haveSent]
    /\ UNCHANGED <<main, server, owner, status, executed>>

-----------------------------------------------------------------------------
(* The network and the server.                                             *)

\* A session the server does not know begins with this packet: all that was
\* sent before it is to be sent again.
begun(s, first) ==
    IF s.alive
    THEN s
    ELSE [s EXCEPT !.alive = TRUE, !.got = {}, !.told = {},
           !.down = @ \cup {[kind |-> "newSession", first |-> first]}]

msgIds(p) == (p.ids \cup {p.id}) \ {NoId}
firstOf(p) == IF p.id = NoId THEN server.nextId ELSE p.id

receivePacket ==
    LET p == Head(server.up)
        s == begun([server EXCEPT !.up = Tail(@)], firstOf(p))
        known == s.got \cup p.ids
        answer == [kind |-> "states", ids |-> p.states,
                   known |-> p.states \cap known]
    IN
    /\ server.up # <<>>
    /\ server' = [s EXCEPT !.got = known,
                    !.down = @ \cup {a \in {answer} : p.states # {}}]
    /\ executed' = executed \cup {owner[m] : m \in p.ids}
    /\ UNCHANGED <<main, data, priv, owner, status>>

\* The session's own pings reach the server too.
receivePing ==
    /\ priv.connected /\ ~server.alive
    /\ server' = begun(server, server.nextId)
    /\ UNCHANGED <<main, data, priv, owner, status, executed>>

\* What was on its way is lost, but a new session is reported until the
\* report has been acknowledged.
loseConnection ==
    /\ threadIdle /\ priv.connected /\ mayFail
    /\ priv' = disconnected(priv)
    /\ server' = [faulty EXCEPT !.up = <<>>,
                    !.down = {i \in @ : i.kind = "newSession"}]
    /\ UNCHANGED <<main, data, owner, status, executed>>

forgetSession ==
    /\ server.alive /\ mayFail
    /\ server' = [faulty EXCEPT !.alive = FALSE, !.got = {}, !.told = {}]
    /\ UNCHANGED <<main, data, priv, owner, status, executed>>

\* The server refuses a packet or, with the rest of it accepted later, one of
\* the requests in it.
refusePacket ==
    LET p == Head(server.up) IN
    /\ server.up # <<>> /\ mayFail
    /\ \E kind \in {"resend", "reset", "fatal"}, id \in msgIds(p) :
         LET rest == IF id = p.id THEN {} ELSE p.ids \ {id}
             s == begun(faulty, firstOf(p))
         IN
         /\ kind = "fatal" => id \in p.ids
         /\ server' = [s EXCEPT
                         !.up = IF rest = {}
                                THEN Tail(@)
                                ELSE <<[p EXCEPT !.ids = rest]>> \o Tail(@),
                         !.down = @ \cup {[kind |-> kind, id |-> id]}]
    /\ UNCHANGED <<main, data, priv, owner, status, executed>>

-----------------------------------------------------------------------------
MainThread(r) ==
    \/ sendRequest(r)
    \/ checkDelayedRequests(r)
    \/ cancel(r)
    \/ cancelToSend(r)
    \/ cancelHaveSent(r)
    \/ processCallback(r)

Sends ==
    \/ tryToSendNothing
    \/ \E r \in Requests : sendSingle(r) \/ sentSingle(r)
    \/ sendContainer
    \/ sendStates
    \/ checkSentRequests
    \/ \E c \in priv.containers : clearOldContainers(c)

handleInfo(i) ==
    \/ handleMsgsStates(i)
    \/ newSessionCreated(i)
    \/ badMessage(i)
    \/ fatalMessage(i)
    \/ resetSession(i)

Receives ==
    \/ resend
    \/ connectToServer
    \/ \E m \in Id : handleAck(m) \/ rpcResult(m)
    \/ \E i \in server.down : handleInfo(i)

Network ==
    \/ receivePacket
    \/ receivePing
    \/ loseConnection
    \/ forgetSession
    \/ refusePacket

Next == (\E r \in Requests : MainThread(r)) \/ Sends \/ Receives \/ Network

Spec == Init /\ [][Next]_vars

\* Both threads go on, a connection is tried again until there is one, and
\* the server reads and answers.  Nothing forces the timers, a cancellation
\* or a failure.
Fairness ==
    /\ \A r \in Requests :
         /\ WF_vars(checkDelayedRequests(r))
         /\ WF_vars(cancelToSend(r) \/ cancelHaveSent(r))
         /\ WF_vars(processCallback(r))
         /\ WF_vars(sentSingle(r))
    /\ WF_vars(tryToSendNothing \/ sendContainer \/ sendStates
                \/ \E r \in Requests : sendSingle(r))
    /\ WF_vars(resend)
    /\ WF_vars(connectToServer)
    /\ \A m \in Id : WF_vars(rpcResult(m))
    /\ \A kind \in {"states", "newSession", "resend", "reset", "fatal"} :
         WF_vars(\E i \in server.down : i.kind = kind /\ handleInfo(i))
    /\ WF_vars(receivePacket)
    /\ WF_vars(receivePing)

FairSpec == Spec /\ Fairness

-----------------------------------------------------------------------------
\* Every request of Instance::send() that is not answered or cancelled is
\* somewhere on its way: the maps and the two gaps between them always hold
\* it, or its answer.  (rpc_result: "Save rpc_result for processing in the
\* main thread", session_private.cpp.)
NothingIsLost ==
    \A r \in Requests \ main.cancelling :
        hasCallback(r) =>
            \/ r \in data.toSend \cup priv.sending \cup main.delayed
            \/ \E m \in data.haveSent \cup priv.moving : owner[m] = r
            \/ \E a \in data.received : owner[a.id] = r

\* A request never stays in _toSend of a connected session without a call of
\* tryToSend() on its way: queueSendAnything() is called from both threads,
\* and a container that is cut leaves the rest for another call.
ToSendIsWoken ==
    priv.connected /\ threadIdle /\ data.toSend # {} => priv.wake

\* A request that is sent again in the same session of the server keeps its
\* msg_id, by which the server tells that it is the same: only a request
\* that was answered with an error is carried out twice.
OncePerSession ==
    \A m, n \in server.got \ server.told :
        owner[m] = owner[n] /\ m # n =>
            \/ owner[m] \in main.delays \/ ~hasCallback(owner[m])
            \/ \E a \in data.received : owner[a.id] = owner[m]

\* Callers see what RpcService promises, whatever is lost or sent again and
\* whenever a request is cancelled.
ImplementsRpc == Rpc!Spec

\* Every request that is not cancelled is answered: no order of restarts,
\* resets, new sessions and refused messages leaves one waiting for ever.
Answered == \A r \in Requests : hasCallback(r) ~> ~hasCallback(r)
=============================================================================
