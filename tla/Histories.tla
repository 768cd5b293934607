------------------------------- MODULE Histories -------------------------------
(***************************************************************************)
(* Data::Histories (data/data_histories.cpp): the requests of each chat    *)
(* that must not run next to each other, the chat list entries that are    *)
(* asked for in batches, and the read positions sent to the server.        *)
(*                                                                         *)
(* A request for history waits while a deletion of the same chat runs, and *)
(* is taken back and repeated if a deletion starts after it.  A chat list  *)
(* entry is not asked for, or its answer is not believed, while a request  *)
(* that changes the chat runs.  All of it happens on the main thread; a    *)
(* handler runs to its end.                                                *)
(*                                                                         *)
(* chat[c] is the State of the chat together with what History knows.      *)
(* Requests are numbered per chat, which keeps them as distinct as         *)
(* _requestAutoincrement does.  A State that checkEmptyState() erases and  *)
(* a new one are the same record.  The chats are ones whose unread         *)
(* messages are tracked (trackUnreadMessages()), and of the unread count   *)
(* only whether it is known is kept.                                       *)
(***************************************************************************)
EXTENDS Integers, FiniteSets

CONSTANTS
    Chats,           \* the chats, or histories
    MaxRequests,     \* bound: requests per chat
    MaxMsg,          \* bound: messages per chat
    Incoming,        \* those of them that can be unread
    MaxAsked,        \* bound: requests for dialogs that are outstanding
    Calls            \* the types of requests the rest of the program makes

ASSUME BoundsAssumption ==
    MaxRequests \in Nat /\ MaxMsg \in Nat /\ MaxAsked \in Nat
ASSUME IncomingAssumption == Incoming \subseteq 1 .. MaxMsg
ASSUME CallsAssumption ==
    Calls \subseteq {"history", "send", "delete", "deleteChannel"}

VARIABLES
    chat,    \* _states, _dialogRequests, _dialogRequestsPending by chat
    posted,  \* whether sendDialogRequests() is posted to the main loop
    timer,   \* whether _readRequestsTimer is active
    asked,   \* outstanding messages.getPeerDialogs
    server   \* the server's side of the chats

vars == <<chat, posted, timer, asked, server>>

Id == 1 .. MaxRequests
Msg == 1 .. MaxMsg
Unknown == -1
Deletions == {"delete", "deleteChannel"}
RequestType == {"history", "read", "send"} \cup Deletions

State == [
    issued : 0 .. MaxRequests,
    type : [Id -> RequestType \cup {"none"}],
    till : [Id -> 0 .. MaxMsg],    \* what a read request says
    sent : SUBSET Id,
    postponed : SUBSET Id,
    out : SUBSET Id,               \* requests the MTP layer will answer
    willReadTill : 0 .. MaxMsg,
    willReadWhen : BOOLEAN,        \* whether a time is set
    sentReadTill : 0 .. MaxMsg,
    sentReadDone : BOOLEAN,
    postponedRequestEntry : BOOLEAN,
    pending : BOOLEAN,             \* in _dialogRequestsPending
    requested : BOOLEAN,           \* in _dialogRequests
    readInboxWaits : BOOLEAN,      \* a callback of readInbox() is attached
    readBefore : 0 .. MaxMsg + 1,  \* History::_inboxReadBefore, 0 if unset
    unreadKnown : BOOLEAN,         \* History::unreadCountKnown()
    last : {Unknown} \cup 0 .. MaxMsg ]  \* History::_lastServerMessage

EmptyState == [
    issued |-> 0, type |-> [i \in Id |-> "none"], till |-> [i \in Id |-> 0],
    sent |-> {}, postponed |-> {}, out |-> {},
    willReadTill |-> 0, willReadWhen |-> FALSE,
    sentReadTill |-> 0, sentReadDone |-> FALSE,
    postponedRequestEntry |-> FALSE, pending |-> FALSE, requested |-> FALSE,
    readInboxWaits |-> FALSE,
    readBefore |-> 0, unreadKnown |-> FALSE, last |-> Unknown ]

\* What the server holds of a chat: its last message, how far it was read,
\* the read requests it has carried out, the highest that it has refused.
ServerChat == [ top : 0 .. MaxMsg, read : 0 .. MaxMsg,
                served : SUBSET Id, refused : 0 .. MaxMsg ]

\* The answer to a request for dialogs: what was true when it was made.
NoAnswer == [c \in Chats |-> [top |-> 0, read |-> 0]]
Asked == [ slot : 1 .. MaxAsked, chats : SUBSET Chats, answered : BOOLEAN,
           answer : [Chats -> [top : 0 .. MaxMsg, read : 0 .. MaxMsg]] ]

TypeOK ==
    /\ chat \in [Chats -> State]
    /\ posted \in BOOLEAN
    /\ timer \in BOOLEAN
    /\ asked \subseteq Asked
    /\ server \in [Chats -> ServerChat]

Init ==
    /\ chat = [c \in Chats |-> EmptyState]
    /\ posted = FALSE
    /\ timer = FALSE
    /\ asked = {}
    /\ server = [c \in Chats |->
                   [top |-> 0, read |-> 0, served |-> {}, refused |-> 0]]

larger(a, b) == IF a < b THEN b ELSE a

-----------------------------------------------------------------------------
(* Requests of a chat.  An operator maps the chat before a call to the     *)
(* chat after it.                                                          *)

postponeHistoryRequest(s) == \E i \in s.sent : s.type[i] \in Deletions

postponeEntryRequest(s) == \E i \in s.sent : s.type[i] # "history"

\* requestDialogEntry() without a callback.
requestDialogEntry(s) == IF s.requested THEN s ELSE [s EXCEPT !.pending = TRUE]

\* The first lines of sendRequest(): the number of the request.
registered(s, type, till) ==
    LET id == s.issued + 1 IN
    [s EXCEPT !.issued = id, !.type[id] = type, !.till[id] = till]

\* The request is handed to the MTP layer, and an entry that is already
\* requested will have to be requested again.
sendNow(s, id) ==
    LET t == [s EXCEPT !.sent = @ \cup {id}, !.out = @ \cup {id}] IN
    [t EXCEPT !.postponedRequestEntry =
                  @ \/ (postponeEntryRequest(t) /\ t.requested)]

historyRequests(s) == {i \in s.sent : s.type[i] = "history"}

\* A plausible slip: history requests that are out are not taken back.
keepHistoryRequests(s) == s

takeBackHistoryRequests(s) ==
    IF postponeHistoryRequest(s)
    THEN [s EXCEPT !.postponed = @ \cup historyRequests(s),
                   !.out = @ \ historyRequests(s),
                   !.sent = @ \ historyRequests(s)]
    ELSE s

sendRequest(s, type, till) ==
    LET id == s.issued + 1
        t == registered(s, type, till)
    IN IF type = "history" /\ postponeHistoryRequest(s)
       THEN [t EXCEPT !.postponed = @ \cup {id}]
       ELSE takeBackHistoryRequests(sendNow(t, id))

canSend(s) == s.issued < MaxRequests

\* A plausible slip: postponed requests are left where they are.
forgetPostponed(s) == s

sendPostponed(s) ==
    IF postponeHistoryRequest(s) THEN s
    ELSE [s EXCEPT !.sent = @ \cup s.postponed, !.out = @ \cup s.postponed,
                   !.postponed = {}]

\* A plausible slip: the entry stays with the requests that were sent.
forgetPostponedEntry(s) == [s EXCEPT !.postponedRequestEntry = FALSE]

askAgainForEntry(s) ==
    IF s.postponedRequestEntry /\ ~postponeEntryRequest(s)
    THEN [s EXCEPT !.postponedRequestEntry = FALSE, !.requested = FALSE,
                   !.pending = TRUE]
    ELSE s

finishSentRequest(s, id) ==
    askAgainForEntry(sendPostponed(
        [s EXCEPT !.out = @ \ {id}, !.sent = @ \ {id}]))

\* The MTP layer has an answer and forgets the request.
answered(s, id) == [s EXCEPT !.out = @ \ {id}]

-----------------------------------------------------------------------------
(* Reading.                                                                *)

sendReadRequest(s) ==
    sendRequest([s EXCEPT !.sentReadTill = s.willReadTill, !.willReadTill = 0,
                          !.willReadWhen = FALSE, !.sentReadDone = FALSE],
                "read", s.willReadTill)

setInboxReadTill(s, till) ==
    [s EXCEPT !.readBefore = larger(@, till + 1)]

setUnreadCount(s) == [s EXCEPT !.unreadKnown = TRUE]

readInboxTillNeedsRequest(s, till) == till > 0 /\ larger(s.readBefore, 1) <= till

unreadBetween(from, till) == \E m \in Incoming : from <= m /\ m <= till

\* What countStillUnreadLocal() finds: nothing if too few messages are
\* loaded, which is not in the model; else whether the count changes.
stillUnread(s, till, loaded) ==
    CASE ~loaded -> "unknown"
      [] loaded /\ s.unreadKnown /\ ~unreadBetween(s.readBefore, till) -> "same"
      [] loaded /\ ~(s.unreadKnown /\ ~unreadBetween(s.readBefore, till)) ->
            IF unreadBetween(till + 1, s.last) THEN "some" ELSE "none"

\* sendPendingReadInbox().
sendPending(s) ==
    IF s.willReadTill # 0 /\ s.willReadWhen THEN sendReadRequest(s) ELSE s

\* A plausible slip: a position that is queued is not replaced.
queueFirst(s, till) ==
    IF s.willReadTill # 0 THEN s ELSE [s EXCEPT !.willReadTill = till]

queue(s, till) == [s EXCEPT !.willReadTill = till]

\* The second half of readInboxTill().
willRead(s, till, force, still) ==
    LET t == queue(s, till)
        now == force \/ still \in {"unknown", "none"}
        u == IF now THEN sendReadRequest(t) ELSE [t EXCEPT !.willReadWhen = TRUE]
    IN IF now /\ still = "unknown" THEN u
       ELSE setUnreadCount(setInboxReadTill(u, till))

\* A plausible slip: the position on its way is forgotten.
readSentNever(s, till) == FALSE

\* What is sent or queued already covers the position.
readSent(s, till) == s.sentReadTill >= till
readQueued(s, till) == s.willReadTill >= till

readInboxTill(s, till, force, loaded) ==
    LET needsRequest == readInboxTillNeedsRequest(s, till)
        still == stillUnread(s, till, loaded)
        nothingToDo ==
            \/ ~needsRequest /\ ~force
            \/ readSent(s, till)
            \/ ~needsRequest /\ s.willReadTill = 0
    IN IF nothingToDo THEN s
       ELSE IF readQueued(s, till) THEN IF force THEN sendPending(s) ELSE s
       ELSE IF ~force /\ still = "same" THEN setInboxReadTill(s, till)
       ELSE willRead(s, till, force, still)

\* A request for an entry was answered, or the entry came some other way.
dialogEntryApplied(s, loaded) ==
    IF s.postponedRequestEntry THEN s
    ELSE LET t == [s EXCEPT !.last = IF @ = Unknown THEN 0 ELSE @,
                            !.pending = FALSE, !.requested = FALSE,
                            !.readInboxWaits = FALSE]
             u == IF s.readInboxWaits
                  THEN readInboxTill(t, t.last, FALSE, loaded)
                  ELSE t
         IN IF u.sentReadTill # 0 /\ u.sentReadDone
            THEN [setInboxReadTill(u, u.sentReadTill) EXCEPT !.sentReadTill = 0]
            ELSE u

unreadCountRefreshNeeded(s, till) == ~s.unreadKnown \/ till + 1 > s.readBefore

\* History::inboxRead(): read elsewhere; counted if the server or the loaded
\* messages say how many are left.
readElsewhere(s, upTo, counted) ==
    setInboxReadTill(IF counted THEN setUnreadCount(s) ELSE requestDialogEntry(s), upTo)

\* A plausible slip: nobody asks for the entry that is waited for.
readFinishedQuietly(s, id) ==
    IF s.sentReadTill # s.till[id] THEN s ELSE [s EXCEPT !.sentReadDone = TRUE]

\* The callback of a read request, up to sendReadRequests().
readFinished(s, id) ==
    IF s.sentReadTill # s.till[id] THEN s
    ELSE IF unreadCountRefreshNeeded(s, s.till[id])
    THEN requestDialogEntry([s EXCEPT !.sentReadDone = TRUE])
    ELSE [s EXCEPT !.sentReadDone = TRUE, !.sentReadTill = 0]

-----------------------------------------------------------------------------
(* What every handler may set off.                                         *)

\* postponeRequestDialogEntries(): called with the set already grown.
postponeRequestDialogEntries ==
    posted' = (posted \/ /\ \A c \in Chats : ~chat[c].pending
                         /\ \E c \in Chats : chat'[c].pending)

\* sendReadRequests() starts the timer for the chats that are not due.
timerAfter(ch, due) == \E c \in Chats \ due : ch[c].willReadTill # 0

\* sendReadRequests(), if the handler called it: it sends for the chats
\* that are due, whichever they are.  The call of readInboxTill() has sent
\* for its own chat already.
sendReadRequests(ch) ==
    \E due \in SUBSET {c \in Chats : ch[c].willReadTill # 0} :
        /\ chat' = [c \in Chats |->
                      IF c \in due THEN sendReadRequest(ch[c]) ELSE ch[c]]
        /\ timer' = timerAfter(ch, due)

\* The effect of readInboxTill() on the timer.
startTimer(ch) ==
    /\ chat' = ch
    /\ timer' = (timer \/ \E c \in Chats : /\ ch[c].willReadTill # 0
                                           /\ chat[c].willReadTill = 0)

calledSend(ch) == \E c \in Chats : ch[c].sentReadTill > chat[c].sentReadTill

afterReading(ch) ==
    IF calledSend(ch) THEN sendReadRequests(ch) ELSE startTimer(ch)

\* A handler that sends no read request.
changes(c, s) ==
    /\ chat' = [chat EXCEPT ![c] = s]
    /\ postponeRequestDialogEntries
    /\ UNCHANGED <<timer, asked>>

reading(c, s) ==
    /\ afterReading([chat EXCEPT ![c] = s])
    /\ postponeRequestDialogEntries
    /\ UNCHANGED asked

\* The bound on requests leaves numbers for the reads that are due.
room(s) == s.issued + (IF s.willReadTill # 0 THEN 1 ELSE 0)
                    + (IF s.readInboxWaits THEN 1 ELSE 0) < MaxRequests

-----------------------------------------------------------------------------
(* Calls from the rest of the program.                                     *)

requestHistory(c) ==
    /\ "history" \in Calls
    /\ room(chat[c])
    /\ changes(c, sendRequest(chat[c], "history", 0))
    /\ UNCHANGED server

sendPreparedMessage(c) ==
    /\ "send" \in Calls
    /\ room(chat[c])
    /\ changes(c, sendRequest(chat[c], "send", 0))
    /\ UNCHANGED server

\* The items are destroyed at once; if the last one is among them, the
\* chat list needs another.
deleteMessages(c) ==
    LET s == sendRequest(chat[c], "delete", 0) IN
    /\ "delete" \in Calls /\ room(chat[c])
    /\ \/ changes(c, s)
       \/ changes(c, requestDialogEntry([s EXCEPT !.last = Unknown]))
    /\ UNCHANGED server

deleteAllMessages(c) ==
    /\ room(chat[c])
    /\ \E type \in Calls \cap Deletions :
           changes(c, sendRequest(chat[c], type, 0))
    /\ UNCHANGED server

\* Only requests for history are ever cancelled by those who made them.
cancelRequest(c) ==
    /\ \E id \in chat[c].sent \cup chat[c].postponed :
           /\ chat[c].type[id] = "history"
           /\ changes(c, finishSentRequest(
                             [chat[c] EXCEPT !.postponed = @ \ {id}], id))
    /\ UNCHANGED server

requestEntry(c) ==
    /\ changes(c, requestDialogEntry(chat[c]))
    /\ UNCHANGED server

\* A message of the chat comes on the screen.
showMessage(c) ==
    /\ room(chat[c])
    /\ \E till \in 1 .. server[c].top, loaded \in BOOLEAN :
           reading(c, readInboxTill(chat[c], till, FALSE, loaded))
    /\ UNCHANGED server

\* The chat is marked as read.
readInbox(c) ==
    /\ room(chat[c])
    /\ \E loaded \in BOOLEAN :
        \/ /\ chat[c].last # Unknown
           /\ reading(c, readInboxTill(chat[c], chat[c].last, FALSE, loaded))
        \/ /\ chat[c].last = Unknown /\ loaded
           /\ reading(c, readInboxTill(chat[c], server[c].top, FALSE, loaded))
        \/ /\ chat[c].last = Unknown /\ ~loaded
           /\ reading(c, [requestDialogEntry(chat[c])
                            EXCEPT !.readInboxWaits = TRUE])
    /\ UNCHANGED server

\* The chat is left.
sendPendingReadInbox(c) ==
    /\ chat[c].willReadTill # 0 /\ chat[c].willReadWhen
    /\ reading(c, sendPending(chat[c]))
    /\ UNCHANGED server

\* A message arrives; if the chat is open at its end the widget reads it
\* before History::newItemAdded() looks whether it is unread.
newItemAdded(c) ==
    LET m == server[c].top + 1
        s == [chat[c] EXCEPT !.last = m]
    IN /\ m \in Msg /\ room(s)
       /\ server' = [server EXCEPT ![c].top = m]
       /\ \E shown \in BOOLEAN, loaded \in BOOLEAN :
            LET t == IF shown /\ m \in Incoming
                     THEN readInboxTill(s, m, TRUE, loaded)
                     ELSE s
                isUnread == m \in Incoming /\ t.readBefore <= m
                u == IF isUnread \/ m \notin Incoming THEN t
                     ELSE readElsewhere(t, m, loaded)
            IN reading(c, IF u.unreadKnown THEN u ELSE requestDialogEntry(u))

\* updateReadHistoryInbox: another device has read the chat.
inboxRead(c) ==
    \E upTo \in server[c].read + 1 .. server[c].top, counted \in BOOLEAN :
        /\ server' = [server EXCEPT ![c].read = upTo]
        /\ changes(c, IF larger(chat[c].readBefore, 1) > upTo THEN chat[c]
                      ELSE readElsewhere(chat[c], upTo, counted))

-----------------------------------------------------------------------------
(* The main loop, the timer and the answers.                               *)

sendReadRequestsTimer ==
    /\ timer
    /\ \E due \in SUBSET {c \in Chats : chat[c].willReadTill # 0} :
           /\ due # {}
           /\ chat' = [c \in Chats |->
                 IF c \in due THEN sendReadRequest(chat[c]) ELSE chat[c]]
           /\ timer' = timerAfter(chat, due)
    /\ postponeRequestDialogEntries
    /\ UNCHANGED <<asked, server>>

freeSlot == CHOOSE n \in 1 .. MaxAsked : \A a \in asked : a.slot # n

\* Entries that may not be asked for now are put with the requested ones; the
\* request is made even if none is left to ask for.
sendDialogRequests ==
    LET pending == {c \in Chats : chat[c].pending}
        held == {c \in pending : postponeEntryRequest(chat[c])}
    IN /\ posted
       /\ Cardinality(asked) < MaxAsked
       /\ posted' = FALSE
       /\ chat' = [c \in Chats |->
             IF c \in pending
             THEN [chat[c] EXCEPT !.pending = FALSE, !.requested = TRUE,
                                  !.postponedRequestEntry = @ \/ c \in held]
             ELSE chat[c]]
       /\ asked' = IF pending = {} THEN asked
                   ELSE asked \cup {[slot |-> freeSlot, chats |-> pending \ held,
                                     answered |-> FALSE, answer |-> NoAnswer]}
       /\ UNCHANGED <<timer, server>>

\* The server answers with what it holds.
serverAnswers ==
    /\ \E a \in asked :
         /\ ~a.answered
         /\ asked' = (asked \ {a}) \cup
              {[a EXCEPT !.answered = TRUE,
                         !.answer = [c \in Chats |-> [top |-> server[c].top,
                                                      read |-> server[c].read]]]}
    /\ UNCHANGED <<chat, posted, timer, server>>

\* History::applyDialog() without the last call.
applyDialog(s, answer) ==
    LET t == [s EXCEPT !.last = answer.top] IN
    IF answer.read + 1 >= larger(s.readBefore, 1)
    THEN setInboxReadTill(setUnreadCount(t), answer.read)
    ELSE t

\* The entry is applied with the answer, and once more when all are.
dialogsDone(n) ==
    /\ \E a \in asked, loaded \in BOOLEAN :
         /\ a.slot = n /\ a.answered
         /\ asked' = asked \ {a}
         /\ afterReading([c \in Chats |->
              IF c \in a.chats
              THEN dialogEntryApplied(
                       dialogEntryApplied(applyDialog(chat[c], a.answer[c]), loaded),
                       loaded)
              ELSE chat[c]])
    /\ postponeRequestDialogEntries
    /\ UNCHANGED server

dialogsFail(n) ==
    /\ \E a \in asked, loaded \in BOOLEAN :
         /\ a.slot = n /\ ~a.answered
         /\ asked' = asked \ {a}
         /\ afterReading([c \in Chats |->
              IF c \in a.chats THEN dialogEntryApplied(chat[c], loaded)
              ELSE chat[c]])
    /\ postponeRequestDialogEntries
    /\ UNCHANGED server

outstanding(c, types) == {i \in chat[c].out : chat[c].type[i] \in types}

requestDone(c) ==
    /\ \E id \in outstanding(c, {"history", "send"}) :
           changes(c, finishSentRequest(answered(chat[c], id), id))
    /\ UNCHANGED server

\* A deletion that is done in rounds sends the next one before it finishes.
deleteDone(c) ==
    /\ \E id \in outstanding(c, {"delete"}) :
         LET s == answered(chat[c], id)
             done == finishSentRequest(s, id)
         IN \/ changes(c, done)
            \/ changes(c, IF done.last = Unknown THEN requestDialogEntry(done)
                          ELSE done)
            \/ /\ room(s)
               /\ changes(c, finishSentRequest(sendRequest(s, "delete", 0), id))
    /\ UNCHANGED server

\* Nobody calls finish() for this one.
deleteChannelDone(c) ==
    /\ \E id \in outstanding(c, {"deleteChannel"}) :
           changes(c, answered(chat[c], id))
    /\ UNCHANGED server

serverReads(c) ==
    /\ \E id \in outstanding(c, {"read"}) \ server[c].served :
           server' = [server EXCEPT ![c].served = @ \cup {id},
                                    ![c].read = larger(@, chat[c].till[id])]
    /\ UNCHANGED <<chat, posted, timer, asked>>

\* The rest of the callback: sendReadRequests() and finish().
readAnswered(c, id) ==
    LET ch == [chat EXCEPT ![c] = readFinished(answered(chat[c], id), id)] IN
    /\ \E due \in SUBSET {d \in Chats : ch[d].willReadTill # 0} :
         /\ chat' = [d \in Chats |->
              LET s == IF d \in due THEN sendReadRequest(ch[d]) ELSE ch[d]
              IN IF d = c THEN finishSentRequest(s, id) ELSE s]
         /\ timer' = timerAfter(ch, due)
    /\ postponeRequestDialogEntries
    /\ UNCHANGED asked

readDone(c) ==
    /\ \E id \in outstanding(c, {"read"}) \cap server[c].served :
           readAnswered(c, id)
    /\ UNCHANGED server

readFail(c) ==
    \E id \in outstanding(c, {"read"}) \ server[c].served :
        /\ readAnswered(c, id)
        /\ server' = [server EXCEPT ![c].refused = larger(@, chat[c].till[id])]

-----------------------------------------------------------------------------
User(c) ==
    \/ requestHistory(c) \/ sendPreparedMessage(c) \/ deleteMessages(c)
    \/ deleteAllMessages(c) \/ cancelRequest(c) \/ requestEntry(c)
    \/ showMessage(c) \/ readInbox(c) \/ sendPendingReadInbox(c)

Pushed(c) == newItemAdded(c) \/ inboxRead(c)

Answered(c) ==
    \/ requestDone(c) \/ deleteDone(c) \/ deleteChannelDone(c)
    \/ readDone(c) \/ readFail(c)

Dialogs(n) == dialogsDone(n) \/ dialogsFail(n)

Next ==
    \/ \E c \in Chats : User(c) \/ Pushed(c) \/ Answered(c) \/ serverReads(c)
    \/ sendReadRequestsTimer \/ sendDialogRequests
    \/ serverAnswers
    \/ \E n \in 1 .. MaxAsked : Dialogs(n)

Spec == Init /\ [][Next]_vars

\* Timers fire, posted calls run, and the session has every request that
\* is not cancelled answered or failed.
Fairness ==
    /\ WF_vars(sendReadRequestsTimer)
    /\ WF_vars(sendDialogRequests)
    /\ \A n \in 1 .. MaxAsked : WF_vars(Dialogs(n))
    /\ \A c \in Chats : WF_vars(Answered(c))

FairSpec == Spec /\ Fairness

-----------------------------------------------------------------------------
(* Properties.                                                             *)

\* No request for history of a chat is with the server while a deletion in
\* the same chat is not finished: what sendRequest() postpones, takes back
\* and finishSentRequest() repeats, including deletions in several rounds.
NoHistoryDuringDeletion ==
    \A c \in Chats : \A i \in chat[c].out, j \in chat[c].sent :
        ~(chat[c].type[i] = "history" /\ chat[c].type[j] \in Deletions)

\* An entry somebody waits for is asked for, or will be: sendDialogRequests()
\* is posted, a request is out, or a request of the chat holds it up.
EntryIsOnItsWay ==
    \A c \in Chats :
        /\ chat[c].pending => posted
        /\ chat[c].requested =>
               \/ chat[c].postponedRequestEntry
               \/ \E a \in asked : c \in a.chats

\* The assertions of the read half: sendReadRequest() goes forward (line
\* 597), and no answer is for more than what was sent last (line 617).
ReadAssertions ==
    \A c \in Chats :
        /\ chat[c].willReadTill # 0 => chat[c].willReadTill > chat[c].sentReadTill
        /\ chat[c].sentReadTill # 0 =>
               \A i \in outstanding(c, {"read"}) :
                   chat[c].till[i] <= chat[c].sentReadTill

\* A position that was sent and is not forgotten yet is in a request, or
\* waits for an entry that somebody fetches.
SentReadIsTracked ==
    \A c \in Chats :
        chat[c].sentReadTill # 0 =>
            IF chat[c].sentReadDone
            THEN chat[c].pending \/ chat[c].requested
            ELSE \E i \in outstanding(c, {"read"}) :
                     chat[c].till[i] = chat[c].sentReadTill

\* A message the user has read is read on the server, or its position is
\* queued or being sent: only a refusal of the server loses it.
ReadIsNotLost ==
    \A c \in Chats, m \in Incoming :
        m < chat[c].readBefore =>
            \/ m <= server[c].read
            \/ m <= server[c].refused
            \/ m <= chat[c].willReadTill
            \/ \E i \in outstanding(c, {"read"}) : m <= chat[c].till[i]

\* channels.deleteChannel was called for the chat.  The handlers of this request
\* are the only ones that never call finish(): it stays in sent for ever.
channelDeleted(c) == \E i \in chat[c].sent : chat[c].type[i] = "deleteChannel"

\* The requests for history that are postponed are all sent in the end, unless
\* the channel is deleted, which the requests of the chat wait for in vain.
PostponedRuns ==
    \A c \in Chats :
        chat[c].postponed # {} ~> (chat[c].postponed = {} \/ channelDeleted(c))

\* An entry that is asked for is applied in the end, whatever requests of
\* the chat come in between, unless one of them deletes the channel: then
\* postponedRequestEntry may be set for ever.
EntryArrives ==
    \A c \in Chats :
        (chat[c].pending \/ chat[c].requested)
            ~> (~(chat[c].pending \/ chat[c].requested) \/ channelDeleted(c))

\* The server learns, or refuses to learn, what was read.
ReadReachesServer ==
    \A c \in Chats : \A m \in Incoming :
        (m < chat[c].readBefore)
            ~> (m <= server[c].read \/ m <= server[c].refused)
=============================================================================
