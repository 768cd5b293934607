---------------------------- MODULE HistoriesProofs ----------------------------
(***************************************************************************)
(* Proofs about Histories, for any number of chats, requests and messages. *)
(*                                                                         *)
(* The invariant says of each chat, next to what the server holds of it,   *)
(* how its sets of requests, its read positions and its entry fit          *)
(* together.  Every handler is a composition of operators that map a chat  *)
(* to a chat, so there is a lemma for each operator, and the lemma of a    *)
(* handler is the composition of theirs.                                   *)
(***************************************************************************)
EXTENDS Histories, FiniteSetTheorems, TLAPS

-----------------------------------------------------------------------------
(* The invariant.                                                          *)

History(s, i) == s.type[i] = "history"
Deletion(s, i) == s.type[i] \in Deletions
Reads(s) == {i \in s.out : s.type[i] = "read"}

\* The numbers of requests that a chat has used or may still need for what
\* is queued and what waits for an entry.
need(s) == s.issued + (IF s.willReadTill # 0 THEN 1 ELSE 0)
                    + (IF s.readInboxWaits THEN 1 ELSE 0)

Numbered(s) ==
    /\ s.sent \subseteq 1 .. s.issued
    /\ s.postponed \subseteq 1 .. s.issued
    /\ s.out \subseteq s.sent
    /\ \A i \in s.postponed : History(s, i)
    /\ \A i, j \in s.sent : ~(History(s, i) /\ Deletion(s, j))

\* What is queued is beyond what was sent, and that beyond every other
\* request that is out, unless the position has been forgotten: then all
\* that is out lies before what is known to be read.
Forward(s) ==
    /\ s.willReadTill # 0 =>
           /\ s.sentReadTill < s.willReadTill
           /\ \A i \in Reads(s) : s.till[i] < s.willReadTill
    /\ s.sentReadTill # 0 => \A i \in Reads(s) : s.till[i] <= s.sentReadTill
    /\ s.sentReadTill = 0 => \A i \in Reads(s) : s.till[i] < s.readBefore

\* Positions are those of messages that the server has.
Within(s, top) ==
    /\ s.willReadTill <= top
    /\ s.sentReadTill <= top
    /\ s.last <= top
    /\ s.readBefore <= top + 1
    /\ \A i \in Id : s.till[i] <= top

Sending(s) ==
    s.sentReadTill # 0 /\ ~s.sentReadDone =>
        \E i \in Reads(s) : s.till[i] = s.sentReadTill

Fetching(s) ==
    s.sentReadTill # 0 /\ s.sentReadDone => s.pending \/ s.requested

Settled(m, sv) == m <= sv.read \/ m <= sv.refused

Kept(s, sv) ==
    /\ sv.served \subseteq 1 .. s.issued
    /\ \A i \in sv.served : s.till[i] <= sv.read
    /\ s.sentReadTill # 0 /\ s.sentReadDone => Settled(s.sentReadTill, sv)
    /\ \A m \in Incoming : m < s.readBefore =>
           \/ Settled(m, sv)
           \/ m <= s.willReadTill
           \/ \E i \in Reads(s) : m <= s.till[i]

\* All but Fetching, which an entry that is applied breaks for a moment.
Sound(s, sv) ==
    /\ s \in State
    /\ need(s) <= MaxRequests
    /\ Numbered(s)
    /\ Forward(s)
    /\ Within(s, sv.top)
    /\ Sending(s)
    /\ Kept(s, sv)

GoodServer(sv) == sv \in ServerChat /\ sv.read <= sv.top

PastAnswers ==
    \A a \in asked : \A c \in Chats :
        /\ a.answer[c].read <= server[c].read
        /\ a.answer[c].top <= server[c].top

IInv ==
    /\ TypeOK
    /\ \A c \in Chats : /\ GoodServer(server[c])
                        /\ Sound(chat[c], server[c])
                        /\ Fetching(chat[c])
    /\ EntryIsOnItsWay
    /\ PastAnswers
    /\ IsFiniteSet(asked)

-----------------------------------------------------------------------------
(* The requests of a chat.                                                 *)

\* What an operator on requests leaves alone.
SameReading(s, t) ==
    /\ t.willReadTill = s.willReadTill
    /\ t.willReadWhen = s.willReadWhen
    /\ t.sentReadTill = s.sentReadTill
    /\ t.sentReadDone = s.sentReadDone
    /\ t.readInboxWaits = s.readInboxWaits
    /\ t.readBefore = s.readBefore
    /\ t.unreadKnown = s.unreadKnown
    /\ t.last = s.last

\* The fields that typing and arithmetic need.
LEMMA Fields ==
    ASSUME NEW s \in State
    PROVE  /\ s.issued \in 0 .. MaxRequests
           /\ s.willReadTill \in 0 .. MaxMsg /\ s.sentReadTill \in 0 .. MaxMsg
           /\ s.readBefore \in 0 .. MaxMsg + 1
           /\ s.last \in {Unknown} \cup 0 .. MaxMsg
           /\ s.till \in [Id -> 0 .. MaxMsg]
           /\ s.sent \subseteq Id /\ s.out \subseteq Id
           /\ s.type \in [Id -> RequestType \cup {"none"}]
  BY DEF State

\* sendRequest() numbers the request, and puts no deletion next to a request
\* for history.
LEMMA SendRequest ==
    ASSUME NEW s \in State, NEW type \in RequestType, NEW till \in 0 .. MaxMsg,
           s.issued < MaxRequests, Numbered(s), NEW t, t = sendRequest(s, type, till)
    PROVE  /\ t \in State
           /\ t.issued = s.issued + 1
           /\ t.till = [s.till EXCEPT ![s.issued + 1] = till]
           /\ SameReading(s, t)
           /\ t.pending = s.pending
           /\ t.requested = s.requested
           /\ s.postponedRequestEntry => t.postponedRequestEntry
           /\ t.postponedRequestEntry => s.postponedRequestEntry \/ s.requested
           /\ Numbered(t)
           /\ Reads(t) = Reads(s) \cup IF type = "read" THEN {s.issued + 1} ELSE {}
  <1> USE BoundsAssumption
  <1> DEFINE id == s.issued + 1
             r == registered(s, type, till)
             n == sendNow(r, id)
  <1>1. id \in Id /\ id \in Nat
    BY DEF State, Id
  <1>2. /\ SameReading(s, r)
        /\ r.issued = id /\ r.type = [s.type EXCEPT ![id] = type]
        /\ r.till = [s.till EXCEPT ![id] = till]
        /\ r.sent = s.sent /\ r.postponed = s.postponed /\ r.out = s.out
        /\ r.pending = s.pending /\ r.requested = s.requested
        /\ r.postponedRequestEntry = s.postponedRequestEntry
    BY <1>1 DEF State, registered, SameReading
  <1>3. r \in State
    <2>1. [s.till EXCEPT ![id] = till] \in [Id -> 0 .. MaxMsg]
      BY <1>1 DEF State
    <2>2. [s.type EXCEPT ![id] = type] \in [Id -> RequestType \cup {"none"}]
      BY <1>1 DEF State
    <2>3. id \in 0 .. MaxRequests
      BY <1>1 DEF Id
    <2> QED
      BY <2>1, <2>2, <2>3 DEF State, registered
  <1>4. /\ \A i \in Id : r.type[i] = IF i = id THEN type ELSE s.type[i]
        /\ s.issued \in Nat /\ id \notin 1 .. s.issued
        /\ 1 .. s.issued \subseteq Id /\ 1 .. s.issued \subseteq 1 .. id /\ id \in 1 .. id
    <2>1. s.type \in [Id -> RequestType \cup {"none"}] /\ s.issued \in Nat
      BY Fields
    <2> QED
      BY <1>1, <1>2, <2>1 DEF Id
  <1>5. historyRequests(n) \subseteq n.sent
    BY DEF historyRequests
  <1>6. CASE type = "history" /\ postponeHistoryRequest(s)
    <2>1. t = [r EXCEPT !.postponed = @ \cup {id}]
      BY <1>6 DEF sendRequest
    <2>2. /\ SameReading(r, t) /\ t.issued = r.issued /\ t.type = r.type
          /\ t.till = r.till /\ t.sent = r.sent /\ t.out = r.out
          /\ t.postponed = r.postponed \cup {id}
          /\ t.pending = r.pending /\ t.requested = r.requested
          /\ t.postponedRequestEntry = r.postponedRequestEntry
      BY <1>3, <2>1 DEF State, SameReading
    <2>3. t \in State
      BY <1>1, <1>3, <2>1 DEF State
    <2>4. Numbered(t)
      <3>1. t.sent = s.sent /\ t.postponed = s.postponed \cup {id} /\ t.out = s.out
            /\ t.type = r.type /\ t.issued = id
        BY <1>2, <2>2
      <3>2. \A i \in s.sent \cup s.postponed : i # id /\ r.type[i] = s.type[i]
        BY <1>4 DEF Numbered
      <3>3. r.type[id] = "history"
        BY <1>1, <1>6, <1>4
      <3>4. \A i \in t.postponed : History(t, i)
        BY <3>1, <3>2, <3>3 DEF Numbered, History
      <3>5. \A i, j \in t.sent : ~(History(t, i) /\ Deletion(t, j))
        BY <3>1, <3>2 DEF Numbered, History, Deletion
      <3> QED
        BY <1>4, <3>1, <3>4, <3>5 DEF Numbered
    <2>5. Reads(t) = Reads(s)
      BY <1>1, <1>2, <1>6, <2>2 DEF Numbered, State, Reads
    <2> QED
      BY <1>2, <1>6, <2>2, <2>3, <2>4, <2>5 DEF SameReading
  <1>7. CASE ~(type = "history" /\ postponeHistoryRequest(s))
    <2>1. t = takeBackHistoryRequests(n)
      BY <1>7 DEF sendRequest
    <2>2. /\ SameReading(r, n) /\ n.issued = r.issued /\ n.type = r.type
          /\ n.till = r.till /\ n.sent = r.sent \cup {id} /\ n.out = r.out \cup {id}
          /\ n.postponed = r.postponed
          /\ n.pending = r.pending /\ n.requested = r.requested
          /\ r.postponedRequestEntry => n.postponedRequestEntry
          /\ n.postponedRequestEntry => r.postponedRequestEntry \/ r.requested
          /\ n.postponedRequestEntry \in BOOLEAN
      BY <1>3 DEF State, SameReading, sendNow
    <2>3. n \in State
      <3> DEFINE o == [r EXCEPT !.sent = @ \cup {id}, !.out = @ \cup {id}]
      <3>1. o \in State
        BY <1>1, <1>3 DEF State
      <3>2. PICK h \in BOOLEAN : h = (o.postponedRequestEntry \/ (postponeEntryRequest(o) /\ o.requested))
        OBVIOUS
      <3>3. n = [o EXCEPT !.postponedRequestEntry = h]
        BY <3>1, <3>2 DEF sendNow, State
      <3> HIDE DEF o, n
      <3> QED
        BY <3>1, <3>3 DEF State
    <2>4. CASE ~postponeHistoryRequest(n)
      <3>1. t = n
        BY <2>1, <2>4 DEF takeBackHistoryRequests
      <3>2. Numbered(t)
        <4>1. t.sent = s.sent \cup {id} /\ t.postponed = s.postponed /\ t.out = s.out \cup {id}
              /\ t.type = r.type /\ t.issued = id
          BY <1>2, <2>2, <3>1
        <4>2. \A j \in t.sent : ~Deletion(t, j)
          BY <2>4, <3>1 DEF postponeHistoryRequest, Deletion
        <4> QED
          BY <1>4, <4>1, <4>2 DEF Numbered, History
      <3>3. Reads(t) = Reads(s) \cup IF type = "read" THEN {id} ELSE {}
        <4>1. t.out = s.out \cup {id} /\ t.type = r.type
          BY <1>2, <2>2, <3>1
        <4>2. \A i \in s.out : i \in Id /\ i # id
          BY <1>4 DEF Numbered
        <4> QED
          BY <1>1, <1>4, <4>1, <4>2 DEF Reads
      <3> QED
        BY <1>2, <2>2, <2>3, <3>1, <3>2, <3>3 DEF SameReading
    <2>5. CASE postponeHistoryRequest(n)
      <3> DEFINE h == historyRequests(n)
      <3>1. t = [n EXCEPT !.postponed = @ \cup h, !.out = @ \ h, !.sent = @ \ h]
        BY <2>1, <2>5 DEF takeBackHistoryRequests
      <3>2. /\ SameReading(n, t) /\ t.issued = n.issued /\ t.type = n.type
            /\ t.till = n.till /\ t.sent = n.sent \ h /\ t.out = n.out \ h
            /\ t.postponed = n.postponed \cup h
            /\ t.pending = n.pending /\ t.requested = n.requested
            /\ t.postponedRequestEntry = n.postponedRequestEntry
        BY <2>3, <3>1 DEF State, SameReading
      <3>3. t \in State
        <4>1. h \subseteq Id
          BY <1>5, <2>3 DEF State
        <4>2. /\ n.postponed \cup h \in SUBSET Id
              /\ n.out \ h \in SUBSET Id /\ n.sent \ h \in SUBSET Id
          BY <4>1, <2>3 DEF State
        <4> DEFINE postponed == n.postponed \cup h
                   out == n.out \ h
                   sent == n.sent \ h
        <4>3. t = [n EXCEPT !.postponed = postponed, !.out = out, !.sent = sent]
          BY <2>3, <3>1 DEF State
        <4>4. postponed \in SUBSET Id /\ out \in SUBSET Id /\ sent \in SUBSET Id
          BY <4>2
        <4> HIDE DEF n, postponed, out, sent
        <4> QED
          BY <2>3, <4>3, <4>4 DEF State
      <3>4. \A i : i \in h <=> i \in n.sent /\ n.type[i] = "history"
        BY DEF historyRequests
      <3>5. Numbered(t)
        <4>1. t.sent = (s.sent \cup {id}) \ h /\ t.postponed = s.postponed \cup h
              /\ t.out = (s.out \cup {id}) \ h /\ t.type = r.type /\ t.issued = id
          BY <1>2, <2>2, <3>2
        <4>2. n.sent = s.sent \cup {id} /\ n.type = r.type
          BY <1>2, <2>2
        <4>3. \A i : i \in h <=> i \in s.sent \cup {id} /\ r.type[i] = "history"
          BY <3>4, <4>2
        <4> HIDE DEF h
        <4> QED
          BY <1>4, <4>1, <4>3 DEF Numbered, History
      <3>6. Reads(t) = Reads(s) \cup IF type = "read" THEN {id} ELSE {}
        <4>1. t.out = (s.out \cup {id}) \ h /\ t.type = r.type
          BY <1>2, <2>2, <3>2
        <4>2. \A i \in s.out : i \in Id /\ i # id
          BY <1>4 DEF Numbered
        <4>3. \A i \in h : r.type[i] = "history"
          BY <2>2, <3>4
        <4> HIDE DEF h
        <4> QED
          BY <1>1, <1>4, <4>1, <4>2, <4>3 DEF Reads
      <3> QED
        BY <1>2, <2>2, <3>2, <3>3, <3>5, <3>6 DEF SameReading
    <2> QED
      BY <2>4, <2>5
  <1> QED
    BY <1>6, <1>7
\* The requests are as before.
SameRequests(s, t) ==
    /\ t.issued = s.issued /\ t.type = s.type /\ t.till = s.till
    /\ t.sent = s.sent /\ t.postponed = s.postponed /\ t.out = s.out

LEMMA RequestsStay ==
    ASSUME NEW s, NEW t, SameRequests(s, t)
    PROVE  Reads(t) = Reads(s) /\ (Numbered(s) => Numbered(t))
  BY DEF SameRequests, Reads, Numbered, History, Deletion

\* An entry is requested no more than before, and still held up if it was.
EntryKept(s, t) ==
    t.requested => /\ s.requested
                   /\ s.postponedRequestEntry => t.postponedRequestEntry

\* finishSentRequest() sends what was postponed when no deletion is left, and
\* the entry that it asks for again is not forgotten.
LEMMA FinishSentRequest ==
    ASSUME NEW s \in State, NEW id, Numbered(s), NEW t, t = finishSentRequest(s, id)
    PROVE  /\ t \in State
           /\ t.issued = s.issued /\ t.type = s.type /\ t.till = s.till
           /\ SameReading(s, t)
           /\ s.pending \/ s.requested => t.pending \/ t.requested
           /\ EntryKept(s, t)
           /\ Numbered(t)
           /\ Reads(t) = Reads(s) \ {id}
  <1> DEFINE a == [s EXCEPT !.out = @ \ {id}, !.sent = @ \ {id}]
             p == sendPostponed(a)
  <1>1. /\ SameReading(s, a) /\ a.issued = s.issued /\ a.type = s.type /\ a.till = s.till
        /\ a.sent = s.sent \ {id} /\ a.out = s.out \ {id} /\ a.postponed = s.postponed
        /\ a.pending = s.pending /\ a.requested = s.requested
        /\ a.postponedRequestEntry = s.postponedRequestEntry
    BY DEF State, SameReading
  <1>2. a \in State
    <2>1. s.out \ {id} \in SUBSET Id /\ s.sent \ {id} \in SUBSET Id
      BY DEF State
    <2> QED
      BY <2>1 DEF State
  <1>3. Numbered(a)
    BY <1>1 DEF Numbered, History, Deletion
  <1> HIDE DEF a
  <1>4. /\ p \in State
        /\ SameReading(a, p) /\ p.issued = a.issued /\ p.type = a.type /\ p.till = a.till
        /\ p.pending = a.pending /\ p.requested = a.requested
        /\ p.postponedRequestEntry = a.postponedRequestEntry
        /\ Numbered(p)
        /\ Reads(p) = Reads(a)
    <2>1. CASE postponeHistoryRequest(a)
      <3>1. p = a
        BY <2>1 DEF sendPostponed
      <3> QED
        BY <1>2, <1>3, <3>1 DEF SameReading
    <2>2. CASE ~postponeHistoryRequest(a)
      <3>1. p = [a EXCEPT !.sent = @ \cup a.postponed, !.out = @ \cup a.postponed,
                          !.postponed = {}]
        BY <2>2 DEF sendPostponed
      <3>2. /\ SameReading(a, p) /\ p.issued = a.issued /\ p.type = a.type
            /\ p.till = a.till /\ p.sent = a.sent \cup a.postponed
            /\ p.out = a.out \cup a.postponed /\ p.postponed = {}
            /\ p.pending = a.pending /\ p.requested = a.requested
            /\ p.postponedRequestEntry = a.postponedRequestEntry
        BY <1>2, <3>1 DEF State, SameReading
      <3>3. p \in State
        <4>1. /\ a.sent \cup a.postponed \in SUBSET Id
              /\ a.out \cup a.postponed \in SUBSET Id
          BY <1>2 DEF State
        <4> QED
          BY <1>2, <3>1, <4>1 DEF State
      <3>4. \A j \in a.sent \cup a.postponed : ~Deletion(a, j)
        BY <1>3, <2>2 DEF postponeHistoryRequest, Numbered, Deletion, History, Deletions
      <3>5. Numbered(p)
        BY <1>3, <3>2, <3>4 DEF Numbered, History, Deletion
      <3>6. Reads(p) = Reads(a)
        BY <1>3, <3>2 DEF Numbered, History, Reads
      <3> QED
        BY <3>2, <3>3, <3>5, <3>6
    <2> QED
      BY <2>1, <2>2
  <1> HIDE DEF p
  <1>5. t = askAgainForEntry(p)
    BY DEF finishSentRequest, p, a
  <1>6. /\ t \in State
        /\ SameReading(p, t) /\ SameRequests(p, t)
        /\ p.pending \/ p.requested => t.pending \/ t.requested
        /\ EntryKept(p, t)
    <2>1. CASE p.postponedRequestEntry /\ ~postponeEntryRequest(p)
      <3>1. t = [p EXCEPT !.postponedRequestEntry = FALSE, !.requested = FALSE,
                          !.pending = TRUE]
        BY <1>5, <2>1 DEF askAgainForEntry
      <3>2. t \in State
        BY <1>4, <3>1 DEF State
      <3> QED
        BY <1>4, <3>1, <3>2 DEF State, SameReading, SameRequests, EntryKept
    <2>2. CASE ~(p.postponedRequestEntry /\ ~postponeEntryRequest(p))
      <3>1. t = p
        BY <1>5, <2>2 DEF askAgainForEntry
      <3> QED
        BY <1>4, <3>1 DEF SameReading, SameRequests, EntryKept
    <2> QED
      BY <2>1, <2>2
  <1>7. Numbered(t) /\ Reads(t) = Reads(p)
    BY <1>4, <1>6, RequestsStay
  <1>8. Reads(a) = Reads(s) \ {id}
    BY <1>1 DEF Reads
  <1> QED
    BY <1>1, <1>4, <1>6, <1>7, <1>8 DEF SameReading, SameRequests, EntryKept

-----------------------------------------------------------------------------
(* Reading.                                                                *)

LEMMA ReadsAreOut ==
    ASSUME NEW s \in State
    PROVE  \A i \in Reads(s) : i \in Id /\ i \in s.out /\ s.till[i] \in Nat
  BY BoundsAssumption, Fields DEF Reads, Id

\* A handler that changes requests of other types than "read" only.
LEMMA RequestsKeepReading ==
    ASSUME NEW s, NEW sv, Sound(s, sv), sv \in ServerChat,
           NEW t \in State, SameReading(s, t), Numbered(t),
           need(t) <= MaxRequests, s.issued <= t.issued,
           \A i \in 1 .. s.issued : t.till[i] = s.till[i],
           \A i \in Id : t.till[i] <= sv.top,
           Reads(t) = Reads(s)
    PROVE  Sound(t, sv)
  <1>1. /\ s \in State /\ Numbered(s) /\ Forward(s) /\ Within(s, sv.top)
        /\ Sending(s) /\ Kept(s, sv)
    BY DEF Sound
  <1>2. s.issued \in Nat /\ t.issued \in Nat
    BY <1>1, BoundsAssumption, Fields
  <1>3. \A i \in Reads(s) : i \in 1 .. s.issued /\ t.till[i] = s.till[i]
    BY <1>1 DEF Reads, Numbered
  <1>4. Forward(t)
    BY <1>1, <1>3 DEF Forward, SameReading
  <1>5. Within(t, sv.top)
    BY <1>1 DEF Within, SameReading
  <1>6. Sending(t)
    BY <1>1, <1>3 DEF Sending, SameReading
  <1>7. Kept(t, sv)
    BY <1>1, <1>2, <1>3 DEF Kept, SameReading
  <1> QED
    BY <1>4, <1>5, <1>6, <1>7 DEF Sound

\* sendReadRequest() sends what is queued.
LEMMA SendReadRequest ==
    ASSUME NEW s, NEW sv \in ServerChat, Sound(s, sv), s.willReadTill # 0,
           NEW t, t = sendReadRequest(s)
    PROVE  /\ Sound(t, sv)
           /\ need(t) = need(s)
           /\ t.sentReadTill = s.willReadTill
           /\ ~t.sentReadDone
           /\ t.willReadTill = 0
           /\ t.readInboxWaits = s.readInboxWaits
           /\ t.readBefore = s.readBefore
           /\ t.last = s.last
           /\ t.unreadKnown = s.unreadKnown
           /\ t.pending = s.pending /\ t.requested = s.requested
           /\ EntryKept(s, t)
           /\ t.postponedRequestEntry => s.postponedRequestEntry \/ s.requested
           /\ Reads(t) = Reads(s) \cup {s.issued + 1}
           /\ t.till[s.issued + 1] = s.willReadTill
  <1> USE BoundsAssumption
  <1> DEFINE w == s.willReadTill
             id == s.issued + 1
             q == [s EXCEPT !.sentReadTill = w, !.willReadTill = 0,
                            !.willReadWhen = FALSE, !.sentReadDone = FALSE]
  <1>1. /\ s \in State /\ need(s) <= MaxRequests /\ Numbered(s) /\ Forward(s)
        /\ Within(s, sv.top) /\ Sending(s) /\ Kept(s, sv)
    BY DEF Sound
  <1>2. /\ w \in 1 .. MaxMsg /\ s.sentReadTill \in 0 .. MaxMsg
        /\ s.issued \in Nat /\ s.issued < MaxRequests /\ id \in Id /\ id \notin 1 .. s.issued
    BY <1>1, Fields DEF need, Id
  <1>3. /\ q.issued = s.issued /\ q.sentReadTill = w /\ q.willReadTill = 0
        /\ ~q.sentReadDone /\ q.readInboxWaits = s.readInboxWaits
        /\ q.readBefore = s.readBefore /\ q.last = s.last
        /\ q.unreadKnown = s.unreadKnown
        /\ q.pending = s.pending /\ q.requested = s.requested
        /\ q.postponedRequestEntry = s.postponedRequestEntry
        /\ SameRequests(s, q)
    BY <1>1 DEF State, SameRequests
  <1>4. q \in State
    <2>1. w \in 0 .. MaxMsg /\ 0 \in 0 .. MaxMsg
      BY <1>2
    <2> HIDE DEF w
    <2> QED
      BY <1>1, <2>1 DEF State
  <1>5. Numbered(q) /\ Reads(q) = Reads(s)
    BY <1>1, <1>3, RequestsStay
  <1>6. t = sendRequest(q, "read", w)
    BY DEF sendReadRequest
  <1> HIDE DEF q
  <1>7. /\ t \in State
        /\ t.issued = id
        /\ t.till = [s.till EXCEPT ![id] = w]
        /\ SameReading(q, t)
        /\ t.pending = s.pending /\ t.requested = s.requested
        /\ s.postponedRequestEntry => t.postponedRequestEntry
        /\ t.postponedRequestEntry => s.postponedRequestEntry \/ s.requested
        /\ Numbered(t)
        /\ Reads(t) = Reads(s) \cup {id}
    <2>1. "read" \in RequestType /\ w \in 0 .. MaxMsg /\ q.issued < MaxRequests
      BY <1>2, <1>3 DEF RequestType
    <2> QED
      BY <1>3, <1>4, <1>5, <1>6, <2>1, SendRequest DEF SameRequests
  <1>8. /\ t.till[id] = w
        /\ \A i \in 1 .. s.issued : t.till[i] = s.till[i]
        /\ \A i \in Id : t.till[i] = s.till[i] \/ t.till[i] = w
        /\ \A i \in Reads(s) : i \in 1 .. s.issued /\ t.till[i] = s.till[i] /\ s.till[i] < w
    <2>1. s.till \in [Id -> 0 .. MaxMsg] /\ 1 .. s.issued \subseteq Id
      BY <1>1, <1>2, Fields DEF Id
    <2>2. \A i \in Reads(s) : i \in 1 .. s.issued /\ s.till[i] < w
      BY <1>1, <1>2 DEF Reads, Numbered, Forward
    <2> QED
      BY <1>2, <1>7, <2>1, <2>2
  <1>9. need(t) = need(s)
    BY <1>2, <1>3, <1>7 DEF need, SameReading
  <1>10. Forward(t)
    <2>1. t.willReadTill = 0 /\ t.sentReadTill = w /\ w # 0
      BY <1>2, <1>3, <1>7 DEF SameReading
    <2>2. \A i \in Reads(t) : t.till[i] = w \/ t.till[i] < w
      BY <1>7, <1>8
    <2>3. \A i \in Reads(t) : t.till[i] <= w
      <3>1. \A i \in Reads(t) : t.till[i] \in Nat
        BY <1>7, ReadsAreOut
      <3> QED
        BY <1>2, <2>2, <3>1
    <2> HIDE DEF w
    <2> QED
      BY <2>1, <2>3 DEF Forward
  <1>11. Within(t, sv.top)
    <2>1. w <= sv.top
      BY <1>1 DEF Within
    <2> QED
      BY <1>1, <1>3, <1>7, <1>8, <2>1 DEF Within, SameReading, ServerChat
  <1>12. Sending(t) /\ \E i \in Reads(t) : t.till[i] = w
    BY <1>3, <1>7, <1>8 DEF Sending, SameReading
  <1>13. Kept(t, sv)
    <2>1. sv.served \subseteq 1 .. t.issued /\ \A i \in sv.served : t.till[i] <= sv.read
      BY <1>1, <1>2, <1>7, <1>8 DEF Kept
    <2>2. \A m \in Incoming : m < t.readBefore =>
              Settled(m, sv) \/ \E i \in Reads(t) : m <= t.till[i]
      <3>1. ASSUME NEW m \in Incoming, m < t.readBefore, ~Settled(m, sv)
            PROVE  \E i \in Reads(t) : m <= t.till[i]
        <4>1. m <= w \/ \E i \in Reads(s) : m <= s.till[i]
          BY <1>1, <1>3, <1>7, <3>1 DEF Kept, SameReading
        <4> QED
          BY <1>7, <1>8, <4>1
      <3> QED
        BY <3>1
    <2> QED
      BY <1>3, <1>7, <2>1, <2>2 DEF Kept, SameReading
  <1> QED
    BY <1>1, <1>3, <1>7, <1>8, <1>9, <1>10, <1>11, <1>12, <1>13 DEF Sound, SameReading, EntryKept

\* The positions that are queued or sent are as before.
SamePositions(s, t) ==
    /\ t.willReadTill = s.willReadTill
    /\ t.sentReadTill = s.sentReadTill
    /\ t.sentReadDone = s.sentReadDone

\* More is known to be read, here or on the server.
LEMMA Learn ==
    ASSUME NEW s, NEW sv \in ServerChat, Sound(s, sv),
           NEW sw \in ServerChat, sv.top <= sw.top, sv.read <= sw.read,
           sv.refused <= sw.refused, sw.served \subseteq 1 .. s.issued,
           \A i \in sw.served : s.till[i] <= sw.read,
           NEW t \in State, SameRequests(s, t), SamePositions(s, t),
           need(t) <= MaxRequests,
           t.last <= sw.top, s.readBefore <= t.readBefore, t.readBefore <= sw.top + 1,
           \A m \in Incoming : s.readBefore <= m /\ m < t.readBefore =>
               Settled(m, sw) \/ m <= s.willReadTill \/ \E i \in Reads(s) : m <= s.till[i]
    PROVE  Sound(t, sw)
  <1> USE BoundsAssumption
  <1>1. /\ s \in State /\ Numbered(s) /\ Forward(s) /\ Within(s, sv.top)
        /\ Sending(s) /\ Kept(s, sv)
    BY DEF Sound
  <1>2. Numbered(t) /\ Reads(t) = Reads(s)
    BY <1>1, RequestsStay
  <1>3. /\ s.willReadTill \in Nat /\ s.sentReadTill \in Nat
        /\ s.readBefore \in Nat /\ t.readBefore \in Nat
        /\ s.till \in [Id -> 0 .. MaxMsg]
        /\ sv.top \in Nat /\ sw.top \in Nat /\ sv.read \in Nat /\ sw.read \in Nat
        /\ sv.refused \in Nat /\ sw.refused \in Nat
    BY <1>1, Fields DEF ServerChat
  <1>4. \A i \in Reads(s) : s.till[i] \in Nat
    BY <1>1, ReadsAreOut
  <1>5. Forward(t)
    BY <1>1, <1>2, <1>3, <1>4 DEF Forward, SameRequests, SamePositions
  <1>6. Within(t, sw.top)
    BY <1>1, <1>3 DEF Within, SameRequests, SamePositions
  <1>7. Sending(t)
    BY <1>1, <1>2 DEF Sending, SameRequests, SamePositions
  <1>8. \A m \in Nat : Settled(m, sv) => Settled(m, sw)
    BY <1>3 DEF Settled
  <1>9. Kept(t, sw)
    <2>1. sw.served \subseteq 1 .. t.issued /\ \A i \in sw.served : t.till[i] <= sw.read
      BY DEF SameRequests
    <2>2. t.sentReadTill # 0 /\ t.sentReadDone => Settled(t.sentReadTill, sw)
      BY <1>1, <1>3, <1>8 DEF Kept, SamePositions
    <2>3. ASSUME NEW m \in Incoming, m < t.readBefore
          PROVE  Settled(m, sw) \/ m <= t.willReadTill \/ \E i \in Reads(t) : m <= t.till[i]
      <3>1. m \in Nat
        BY IncomingAssumption
      <3>2. CASE s.readBefore <= m
        BY <1>2, <2>3, <3>2 DEF SameRequests, SamePositions
      <3>3. CASE m < s.readBefore
        BY <1>1, <1>2, <1>8, <3>1, <3>3 DEF Kept, SameRequests, SamePositions
      <3> QED
        BY <1>3, <3>1, <3>2, <3>3
    <2> QED
      BY <2>1, <2>2, <2>3 DEF Kept
  <1> QED
    BY <1>2, <1>5, <1>6, <1>7, <1>9 DEF Sound

\* setInboxReadTill() for a position that is known, queued or sent.
LEMMA SetInboxReadTill ==
    ASSUME NEW s, NEW sv \in ServerChat, Sound(s, sv),
           NEW till \in 0 .. MaxMsg, till <= sv.top,
           \A m \in Incoming : s.readBefore <= m /\ m <= till =>
               Settled(m, sv) \/ m <= s.willReadTill \/ \E i \in Reads(s) : m <= s.till[i],
           NEW t, t = setInboxReadTill(s, till)
    PROVE  /\ Sound(t, sv)
           /\ need(t) = need(s)
           /\ SameRequests(s, t) /\ SamePositions(s, t)
           /\ t.readBefore = larger(s.readBefore, till + 1)
           /\ t.readInboxWaits = s.readInboxWaits
           /\ t.last = s.last
           /\ t.unreadKnown = s.unreadKnown
           /\ t.pending = s.pending /\ t.requested = s.requested
           /\ t.postponedRequestEntry = s.postponedRequestEntry
  <1> USE BoundsAssumption
  <1> DEFINE b == larger(s.readBefore, till + 1)
  <1>1. s \in State /\ need(s) <= MaxRequests /\ Within(s, sv.top) /\ Kept(s, sv)
    BY DEF Sound
  <1>2. /\ b \in 0 .. MaxMsg + 1 /\ s.readBefore <= b /\ b <= sv.top + 1
        /\ s.readBefore \in Nat
        /\ b = s.readBefore \/ b = till + 1
    BY <1>1, Fields DEF larger, Within, ServerChat
  <1>3. t = [s EXCEPT !.readBefore = b]
    BY <1>1 DEF setInboxReadTill, State
  <1> HIDE DEF b
  <1>4. t \in State
    BY <1>1, <1>2, <1>3 DEF State
  <1>5. /\ SameRequests(s, t) /\ SamePositions(s, t)
        /\ t.readBefore = b /\ t.readInboxWaits = s.readInboxWaits
        /\ t.last = s.last /\ t.unreadKnown = s.unreadKnown
        /\ t.pending = s.pending /\ t.requested = s.requested
        /\ t.postponedRequestEntry = s.postponedRequestEntry
    BY <1>1, <1>3 DEF State, SameRequests, SamePositions
  <1>6. need(t) = need(s)
    BY <1>5 DEF need, SameRequests, SamePositions
  <1>7. \A m \in Incoming : s.readBefore <= m /\ m < t.readBefore =>
            Settled(m, sv) \/ m <= s.willReadTill \/ \E i \in Reads(s) : m <= s.till[i]
    <2>1. \A m \in Incoming : m \in Nat
      BY IncomingAssumption
    <2> QED
      BY <1>2, <1>5, <2>1
  <1>8. /\ sv.top <= sv.top /\ sv.read <= sv.read /\ sv.refused <= sv.refused
        /\ sv.served \subseteq 1 .. s.issued /\ \A i \in sv.served : s.till[i] <= sv.read
    BY <1>1 DEF Kept, ServerChat
  <1>9. need(t) <= MaxRequests /\ t.last <= sv.top /\ s.readBefore <= t.readBefore
        /\ t.readBefore <= sv.top + 1
    BY <1>1, <1>2, <1>5, <1>6 DEF Within
  <1>10. Sound(t, sv)
    BY <1>4, <1>5, <1>7, <1>8, <1>9, Learn
  <1> QED
    BY <1>5, <1>6, <1>10 DEF b

queuedAt(s, till, when) == [s EXCEPT !.willReadTill = till, !.willReadWhen = when]

\* A position beyond all that was sent is queued.
LEMMA Queue ==
    ASSUME NEW s, NEW sv \in ServerChat, Sound(s, sv), need(s) < MaxRequests,
           NEW till \in 1 .. MaxMsg, till <= sv.top, s.willReadTill < till,
           s.sentReadTill < till, \A i \in Reads(s) : s.till[i] < till,
           NEW when \in BOOLEAN, NEW t, t = queuedAt(s, till, when)
    PROVE  /\ Sound(t, sv)
           /\ need(t) <= need(s) + 1
           /\ SameRequests(s, t)
           /\ t.willReadTill = till
           /\ t.sentReadTill = s.sentReadTill /\ t.sentReadDone = s.sentReadDone
           /\ t.readBefore = s.readBefore
           /\ t.readInboxWaits = s.readInboxWaits
           /\ t.last = s.last
           /\ t.unreadKnown = s.unreadKnown
           /\ t.pending = s.pending /\ t.requested = s.requested
           /\ t.postponedRequestEntry = s.postponedRequestEntry
  <1> USE BoundsAssumption
  <1>1. /\ s \in State /\ Numbered(s) /\ Forward(s) /\ Within(s, sv.top)
        /\ Sending(s) /\ Kept(s, sv)
    BY DEF Sound
  <1>2. till \in 0 .. MaxMsg /\ till # 0
    OBVIOUS
  <1>3. t \in State
    BY <1>1, <1>2 DEF State, queuedAt
  <1>4. /\ SameRequests(s, t)
        /\ t.willReadTill = till
        /\ t.sentReadTill = s.sentReadTill /\ t.sentReadDone = s.sentReadDone
        /\ t.readBefore = s.readBefore
        /\ t.readInboxWaits = s.readInboxWaits
        /\ t.last = s.last
        /\ t.unreadKnown = s.unreadKnown
        /\ t.pending = s.pending /\ t.requested = s.requested
        /\ t.postponedRequestEntry = s.postponedRequestEntry
    BY <1>1 DEF State, SameRequests, queuedAt
  <1>5. Numbered(t) /\ Reads(t) = Reads(s)
    BY <1>1, <1>4, RequestsStay
  <1>6. need(t) <= need(s) + 1 /\ need(t) <= MaxRequests
    <2>1. s.issued \in Nat
      BY <1>1, Fields
    <2> QED
      BY <1>4, <2>1 DEF need, SameRequests
  <1>7. Forward(t)
    BY <1>1, <1>4, <1>5 DEF Forward, SameRequests
  <1>8. Within(t, sv.top) /\ Sending(t)
    BY <1>1, <1>4, <1>5 DEF Within, Sending, SameRequests
  <1>9. Kept(t, sv)
    <2>1. \A m \in Incoming : m \in Nat /\ (m <= s.willReadTill => m <= till)
      BY <1>1, IncomingAssumption, Fields
    <2> QED
      BY <1>1, <1>4, <1>5, <2>1 DEF Kept, SameRequests
  <1> QED
    BY <1>3, <1>4, <1>5, <1>6, <1>7, <1>8, <1>9 DEF Sound

\* The unread count becomes known; nothing else depends on it.
LEMMA SetUnreadCount ==
    ASSUME NEW s, NEW sv, Sound(s, sv), NEW t, t = setUnreadCount(s)
    PROVE  /\ Sound(t, sv) /\ need(t) = need(s) /\ SamePositions(s, t)
           /\ Fetching(s) => Fetching(t)
           /\ t.readBefore = s.readBefore
           /\ t.readInboxWaits = s.readInboxWaits
           /\ t.last = s.last
           /\ t.pending = s.pending /\ t.requested = s.requested
           /\ t.postponedRequestEntry = s.postponedRequestEntry
  <1>1. /\ s \in State /\ need(s) <= MaxRequests /\ Numbered(s) /\ Forward(s)
        /\ Within(s, sv.top) /\ Sending(s) /\ Kept(s, sv)
    BY DEF Sound
  <1>2. t \in State
    BY <1>1 DEF State, setUnreadCount
  <1>3. /\ SameRequests(s, t) /\ SamePositions(s, t) /\ t.readBefore = s.readBefore
        /\ t.last = s.last /\ t.readInboxWaits = s.readInboxWaits
        /\ t.pending = s.pending /\ t.requested = s.requested
        /\ t.postponedRequestEntry = s.postponedRequestEntry
    BY <1>1 DEF State, SameRequests, SamePositions, setUnreadCount
  <1>4. Numbered(t) /\ Reads(t) = Reads(s) /\ need(t) = need(s)
    BY <1>1, <1>3, RequestsStay DEF need, SameRequests, SamePositions
  <1>5. Forward(t) /\ Within(t, sv.top) /\ Sending(t) /\ Kept(t, sv)
    BY <1>1, <1>3, <1>4 DEF Forward, Within, Sending, Kept, SameRequests, SamePositions
  <1> QED
    BY <1>1, <1>2, <1>3, <1>4, <1>5 DEF Sound, Fetching, SamePositions

\* What reading a chat can do to it.
AfterReading(s, t) ==
    /\ need(t) <= need(s) + 1
    /\ t.readInboxWaits = s.readInboxWaits
    /\ t.last = s.last
    /\ t.pending = s.pending /\ t.requested = s.requested
    /\ EntryKept(s, t)
    /\ t.postponedRequestEntry => s.postponedRequestEntry \/ s.requested
    /\ t.sentReadDone => s.sentReadDone /\ t.sentReadTill = s.sentReadTill

LEMMA SentIsRead ==
    ASSUME NEW s, NEW sv \in ServerChat, Sound(s, sv), s.willReadTill # 0,
           NEW t, t = sendReadRequest(s)
    PROVE  Sound(t, sv) /\ AfterReading(s, t)
  <1>1. s \in State
    BY DEF Sound
  <1>2. s.issued \in Nat
    BY <1>1, BoundsAssumption, Fields
  <1>3. need(s) \in Nat
    BY <1>2 DEF need
  <1> QED
    BY <1>3, SendReadRequest DEF AfterReading

\* The second half of readInboxTill(): the position is beyond all others.
LEMMA WillRead ==
    ASSUME NEW s, NEW sv \in ServerChat, Sound(s, sv), need(s) < MaxRequests,
           NEW till \in 1 .. MaxMsg, till <= sv.top, s.willReadTill < till,
           s.sentReadTill < till, \A i \in Reads(s) : s.till[i] < till,
           NEW force, NEW still, NEW t, t = willRead(s, till, force, still)
    PROVE  Sound(t, sv) /\ AfterReading(s, t)
  <1> USE BoundsAssumption
  <1> DEFINE q == queue(s, till)
             now == force \/ still \in {"unknown", "none"}
             u == IF now THEN sendReadRequest(q) ELSE [q EXCEPT !.willReadWhen = TRUE]
  <1>1. s \in State /\ s.willReadWhen \in BOOLEAN /\ s.issued \in Nat
    BY Fields DEF Sound, State
  <1>2. need(s) \in Nat
    BY <1>1 DEF need
  <1>3. /\ Sound(u, sv) /\ AfterReading(s, u)
        /\ u.willReadTill = till \/ \E i \in Reads(u) : u.till[i] = till
    <2>1. CASE now
      <3>1. q = queuedAt(s, till, s.willReadWhen)
        BY <1>1 DEF queue, queuedAt, State
      <3> HIDE DEF q
      <3>2. /\ Sound(q, sv)
            /\ need(q) <= need(s) + 1
            /\ q.willReadTill = till
            /\ q.sentReadTill = s.sentReadTill /\ q.sentReadDone = s.sentReadDone
            /\ q.readInboxWaits = s.readInboxWaits
            /\ q.last = s.last /\ q.unreadKnown = s.unreadKnown
            /\ q.pending = s.pending /\ q.requested = s.requested
            /\ q.postponedRequestEntry = s.postponedRequestEntry
        BY <1>1, <3>1, Queue
      <3>3. till # 0 /\ u = sendReadRequest(q)
        BY <2>1
      <3> HIDE DEF u
      <3>4. /\ Sound(u, sv)
            /\ need(u) = need(q)
            /\ ~u.sentReadDone
            /\ u.readInboxWaits = q.readInboxWaits
            /\ u.last = q.last /\ u.unreadKnown = q.unreadKnown
            /\ u.pending = q.pending /\ u.requested = q.requested
            /\ EntryKept(q, u)
            /\ u.postponedRequestEntry => q.postponedRequestEntry \/ q.requested
            /\ Reads(u) = Reads(q) \cup {q.issued + 1}
            /\ u.till[q.issued + 1] = till
        BY <3>2, <3>3, SendReadRequest
      <3> QED
        BY <3>2, <3>4 DEF AfterReading, EntryKept
    <2>2. CASE ~now
      <3>1. u = queuedAt(s, till, TRUE)
        BY <1>1, <2>2 DEF queue, queuedAt, State
      <3> HIDE DEF u
      <3> QED
        <4>1. /\ Sound(u, sv)
              /\ need(u) <= need(s) + 1
              /\ u.willReadTill = till
              /\ u.sentReadTill = s.sentReadTill /\ u.sentReadDone = s.sentReadDone
              /\ u.readInboxWaits = s.readInboxWaits
              /\ u.last = s.last /\ u.unreadKnown = s.unreadKnown
              /\ u.pending = s.pending /\ u.requested = s.requested
              /\ u.postponedRequestEntry = s.postponedRequestEntry
          <5>1. PICK when \in BOOLEAN : u = queuedAt(s, till, when)
            BY <3>1, Zenon
          <5> QED
            BY <5>1, Queue
        <4> QED
          BY <4>1 DEF AfterReading, EntryKept
    <2> QED
      BY <2>1, <2>2
  <1>4. CASE now /\ still = "unknown"
    <2>1. t = u
      BY <1>4 DEF willRead
    <2> QED
      BY <1>3, <2>1
  <1>5. CASE ~(now /\ still = "unknown")
    <2> DEFINE v == setInboxReadTill(u, till)
    <2>1. t = setUnreadCount(v)
      BY <1>5 DEF willRead
    <2> HIDE DEF u
    <2>2. \A m \in Incoming : m <= till =>
              m <= u.willReadTill \/ \E i \in Reads(u) : m <= u.till[i]
      BY <1>3
    <2>3. till \in 0 .. MaxMsg
      OBVIOUS
    <2>4. /\ Sound(v, sv) /\ need(v) = need(u) /\ SamePositions(u, v)
          /\ v.readInboxWaits = u.readInboxWaits
          /\ v.last = u.last
          /\ v.pending = u.pending /\ v.requested = u.requested
          /\ v.postponedRequestEntry = u.postponedRequestEntry
      BY <1>3, <2>2, <2>3, SetInboxReadTill
    <2> HIDE DEF v
    <2>5. /\ Sound(t, sv) /\ need(t) = need(v) /\ SamePositions(v, t)
          /\ t.readInboxWaits = v.readInboxWaits
          /\ t.last = v.last
          /\ t.pending = v.pending /\ t.requested = v.requested
          /\ t.postponedRequestEntry = v.postponedRequestEntry
      BY <2>1, <2>4, SetUnreadCount
    <2> QED
      BY <1>3, <2>4, <2>5 DEF AfterReading, EntryKept, SamePositions
  <1> QED
    BY <1>4, <1>5

LEMMA ReadInboxTill ==
    ASSUME NEW s, NEW sv \in ServerChat, Sound(s, sv), need(s) < MaxRequests,
           NEW till \in 0 .. MaxMsg, till <= sv.top,
           NEW force \in BOOLEAN, NEW loaded \in BOOLEAN,
           force => readInboxTillNeedsRequest(s, till),
           NEW t, t = readInboxTill(s, till, force, loaded)
    PROVE  Sound(t, sv) /\ AfterReading(s, t)
  <1> USE BoundsAssumption
  <1> DEFINE still == stillUnread(s, till, loaded)
             needsRequest == readInboxTillNeedsRequest(s, till)
             nothingToDo ==
                \/ ~needsRequest /\ ~force
                \/ readSent(s, till)
                \/ ~needsRequest /\ s.willReadTill = 0
  <1>1. /\ s \in State /\ Forward(s) /\ s.issued \in Nat
        /\ s.willReadTill \in Nat /\ s.sentReadTill \in Nat /\ s.readBefore \in Nat
    BY Fields DEF Sound
  <1>2. need(s) \in Nat
    BY <1>1 DEF need
  <1>3. Sound(s, sv) /\ AfterReading(s, s)
    BY <1>2 DEF AfterReading, EntryKept
  <1>4. CASE nothingToDo
    BY <1>3, <1>4 DEF readInboxTill
  <1>5. CASE ~nothingToDo
    <2>1. needsRequest /\ ~readSent(s, till)
      BY <1>5
    <2>2. /\ till \in 1 .. MaxMsg /\ s.readBefore <= till /\ s.sentReadTill < till
      BY <1>1, <2>1 DEF readInboxTillNeedsRequest, readSent, larger
    <2>3. CASE readQueued(s, till)
      <3>1. CASE force /\ s.willReadTill # 0 /\ s.willReadWhen
        <4>1. t = sendReadRequest(s)
          BY <1>5, <2>3, <3>1 DEF readInboxTill, sendPending
        <4> QED
          BY <3>1, <4>1, SentIsRead
      <3>2. CASE ~(force /\ s.willReadTill # 0 /\ s.willReadWhen)
        <4>1. t = s
          BY <1>5, <2>3, <3>2 DEF readInboxTill, sendPending
        <4> QED
          BY <1>3, <4>1
      <3> QED
        BY <3>1, <3>2
    <2>4. CASE ~readQueued(s, till) /\ ~force /\ still = "same"
      <3>1. t = setInboxReadTill(s, till)
        BY <1>5, <2>4 DEF readInboxTill
      <3>2. ~unreadBetween(s.readBefore, till)
        BY <2>4 DEF stillUnread
      <3>3. \A m \in Incoming : ~(s.readBefore <= m /\ m <= till)
        BY <3>2 DEF unreadBetween
      <3>4. /\ Sound(t, sv) /\ need(t) = need(s) /\ SamePositions(s, t)
            /\ t.readInboxWaits = s.readInboxWaits
            /\ t.last = s.last /\ t.unreadKnown = s.unreadKnown
            /\ t.pending = s.pending /\ t.requested = s.requested
            /\ t.postponedRequestEntry = s.postponedRequestEntry
        BY <3>1, <3>3, SetInboxReadTill
      <3> QED
        BY <1>2, <3>4 DEF AfterReading, EntryKept, SamePositions
    <2>5. CASE ~readQueued(s, till) /\ ~(~force /\ still = "same")
      <3>1. t = willRead(s, till, force, still)
        BY <1>5, <2>5 DEF readInboxTill
      <3>2. s.willReadTill < till
        BY <1>1, <2>5 DEF readQueued
      <3>3. \A i \in Reads(s) : s.till[i] < till
        <4>1. \A i \in Reads(s) : s.till[i] \in Nat
          BY <1>1, ReadsAreOut
        <4> QED
          BY <1>1, <2>2, <4>1 DEF Forward
      <3> HIDE DEF still
      <3> QED
        BY <2>2, <3>1, <3>2, <3>3, WillRead
    <2> QED
      BY <2>3, <2>4, <2>5
  <1> QED
    BY <1>4, <1>5

\* A position that was sent is forgotten once it is known to be read.
LEMMA ForgetSent ==
    ASSUME NEW s, NEW sv \in ServerChat, Sound(s, sv),
           \A i \in Reads(s) : s.till[i] < s.readBefore,
           NEW t \in State, SameRequests(s, t), t.sentReadTill = 0,
           t.willReadTill = s.willReadTill, t.readBefore = s.readBefore,
           t.readInboxWaits = s.readInboxWaits, t.last = s.last
    PROVE  Sound(t, sv)
  <1>1. /\ s \in State /\ Numbered(s) /\ Forward(s) /\ Within(s, sv.top) /\ Kept(s, sv)
        /\ need(s) <= MaxRequests
    BY DEF Sound
  <1>2. Numbered(t) /\ Reads(t) = Reads(s)
    BY <1>1, RequestsStay
  <1>3. s.willReadTill \in Nat /\ sv.top \in Nat
    BY <1>1, BoundsAssumption, Fields DEF ServerChat
  <1>4. need(t) = need(s)
    BY DEF need, SameRequests
  <1>5. Forward(t) /\ Sending(t)
    BY <1>1, <1>2, <1>3 DEF Forward, Sending, SameRequests
  <1>6. Within(t, sv.top) /\ Kept(t, sv)
    BY <1>1, <1>2, <1>3 DEF Within, Kept, SameRequests
  <1> QED
    BY <1>1, <1>2, <1>4, <1>5, <1>6 DEF Sound

\* An entry that is not held up is applied, and what waited for it is done.
LEMMA EntryApplied ==
    ASSUME NEW s, NEW sv \in ServerChat, Sound(s, sv), Fetching(s),
           NEW loaded \in BOOLEAN, NEW t, t = dialogEntryApplied(s, loaded)
    PROVE  /\ Sound(t, sv)
           /\ Fetching(t)
           /\ t.requested => s.requested /\ s.postponedRequestEntry /\ t.postponedRequestEntry
  <1> USE BoundsAssumption
  <1>1. CASE s.postponedRequestEntry
    BY <1>1 DEF dialogEntryApplied
  <1>2. CASE ~s.postponedRequestEntry
    <2> DEFINE last == IF s.last = Unknown THEN 0 ELSE s.last
               r == [s EXCEPT !.last = IF @ = Unknown THEN 0 ELSE @,
                              !.pending = FALSE, !.requested = FALSE,
                              !.readInboxWaits = FALSE]
               u == IF s.readInboxWaits THEN readInboxTill(r, r.last, FALSE, loaded) ELSE r
    <2>1. /\ s \in State /\ need(s) <= MaxRequests /\ Within(s, sv.top) /\ Kept(s, sv)
          /\ s.issued \in Nat
      BY Fields DEF Sound
    <2>2. last \in 0 .. MaxMsg /\ last <= sv.top
      BY <2>1, Fields DEF Within, ServerChat, Unknown
    <2>3. r = [s EXCEPT !.last = last, !.pending = FALSE, !.requested = FALSE,
                        !.readInboxWaits = FALSE]
      BY <2>1 DEF State
    <2>4. t = IF u.sentReadTill # 0 /\ u.sentReadDone
              THEN [setInboxReadTill(u, u.sentReadTill) EXCEPT !.sentReadTill = 0] ELSE u
      BY <1>2 DEF dialogEntryApplied
    <2> HIDE DEF r, last
    <2>5. /\ SameRequests(s, r) /\ SamePositions(s, r) /\ r.last = last
          /\ ~r.pending /\ ~r.requested /\ ~r.readInboxWaits
          /\ r.readBefore = s.readBefore /\ ~r.postponedRequestEntry
      BY <1>2, <2>1, <2>3 DEF State, SameRequests, SamePositions
    <2>6. r \in State
      BY <2>1, <2>2, <2>3 DEF State
    <2>7. need(r) <= MaxRequests /\ (s.readInboxWaits => need(r) < MaxRequests)
      BY <2>1, <2>5 DEF need, SameRequests, SamePositions
    <2>8. Sound(r, sv)
      <3>1. /\ sv.top <= sv.top /\ sv.read <= sv.read /\ sv.refused <= sv.refused
            /\ sv.served \subseteq 1 .. s.issued
            /\ \A i \in sv.served : s.till[i] <= sv.read
        BY <2>1 DEF Kept, ServerChat
      <3>2. s.readBefore <= r.readBefore /\ r.readBefore <= sv.top + 1 /\ r.last <= sv.top
        BY <2>1, <2>2, <2>5, Fields DEF Within
      <3>3. \A m \in Incoming : ~(s.readBefore <= m /\ m < r.readBefore)
        BY <2>1, <2>5, IncomingAssumption, Fields
      <3> QED
        BY <2>5, <2>6, <2>7, <3>1, <3>2, <3>3, Learn
    <2>9. Sound(u, sv) /\ ~u.requested /\ ~u.pending
      <3>1. CASE s.readInboxWaits
        <4>1. PICK force \in BOOLEAN : ~force /\ u = readInboxTill(r, r.last, force, loaded)
          BY <3>1, Zenon
        <4>2. Sound(u, sv) /\ AfterReading(r, u)
          BY <2>2, <2>5, <2>7, <2>8, <3>1, <4>1, ReadInboxTill
        <4> QED
          BY <2>5, <4>2 DEF AfterReading
      <3>2. CASE ~s.readInboxWaits
        BY <2>5, <2>8, <3>2
      <3> QED
        BY <3>1, <3>2
    <2> HIDE DEF u
    <2>10. CASE ~(u.sentReadTill # 0 /\ u.sentReadDone)
      <3>1. t = u
        BY <2>4, <2>10
      <3>2. Fetching(u)
        BY <2>10 DEF Fetching
      <3> QED
        BY <2>9, <3>1, <3>2
    <2>11. CASE u.sentReadTill # 0 /\ u.sentReadDone
      <3> DEFINE v == setInboxReadTill(u, u.sentReadTill)
      <3>1. /\ u \in State /\ Forward(u) /\ Within(u, sv.top) /\ Kept(u, sv)
            /\ u.sentReadTill \in 0 .. MaxMsg /\ u.readBefore \in Nat
            /\ sv.read \in Nat /\ sv.refused \in Nat
        BY <2>9, Fields DEF Sound, ServerChat
      <3>2. \A m \in Incoming : m <= u.sentReadTill => Settled(m, sv)
        <4>1. Settled(u.sentReadTill, sv)
          BY <2>11, <3>1 DEF Kept
        <4> QED
          BY <3>1, <4>1, IncomingAssumption DEF Settled
      <3>3. /\ Sound(v, sv)
            /\ SameRequests(u, v) /\ SamePositions(u, v)
            /\ v.readBefore = larger(u.readBefore, u.sentReadTill + 1)
            /\ v.pending = u.pending /\ v.requested = u.requested
        BY <2>9, <3>1, <3>2, SetInboxReadTill DEF Within
      <3>4. t = [v EXCEPT !.sentReadTill = 0]
        BY <2>4, <2>11
      <3> HIDE DEF v
      <3>5. v \in State
        BY <3>3 DEF Sound
      <3>6. /\ SameRequests(v, t) /\ t.sentReadTill = 0
            /\ t.willReadTill = v.willReadTill /\ t.readBefore = v.readBefore
            /\ t.readInboxWaits = v.readInboxWaits /\ t.last = v.last
            /\ t.requested = v.requested
        BY <3>4, <3>5 DEF State, SameRequests
      <3>7. t \in State
        <4>1. 0 \in 0 .. MaxMsg
          OBVIOUS
        <4> QED
          BY <3>4, <3>5, <4>1 DEF State
      <3>8. \A i \in Reads(v) : v.till[i] < v.readBefore
        <4>1. Reads(v) = Reads(u) /\ v.till = u.till
          BY <3>3, RequestsStay DEF SameRequests
        <4>2. \A i \in Reads(u) : u.till[i] \in Nat /\ u.till[i] <= u.sentReadTill
          BY <2>11, <3>1, ReadsAreOut DEF Forward
        <4> QED
          BY <3>1, <3>3, <4>1, <4>2 DEF larger
      <3>9. Sound(t, sv)
        BY <3>3, <3>6, <3>7, <3>8, ForgetSent
      <3> QED
        BY <2>9, <3>3, <3>6, <3>9 DEF Fetching
    <2> QED
      BY <2>10, <2>11
  <1> QED
    BY <1>1, <1>2

\* The entry is asked for.
LEMMA RequestDialogEntry ==
    ASSUME NEW s, NEW sv \in ServerChat, Sound(s, sv),
           NEW t, t = requestDialogEntry(s)
    PROVE  /\ Sound(t, sv)
           /\ Fetching(t)
           /\ EntryKept(s, t)
           /\ SameRequests(s, t) /\ SameReading(s, t)
  <1>1. /\ s \in State /\ need(s) <= MaxRequests /\ Within(s, sv.top) /\ Kept(s, sv)
    BY DEF Sound
  <1>2. CASE s.requested
    BY <1>2 DEF requestDialogEntry, Fetching, EntryKept, SameRequests, SameReading
  <1>3. CASE ~s.requested
    <2>1. t = [s EXCEPT !.pending = TRUE]
      BY <1>3 DEF requestDialogEntry
    <2>2. t \in State
      BY <1>1, <2>1 DEF State
    <2>3. /\ SameRequests(s, t) /\ SameReading(s, t) /\ SamePositions(s, t)
          /\ t.pending /\ t.requested = s.requested
          /\ t.postponedRequestEntry = s.postponedRequestEntry
      BY <1>1, <2>1 DEF State, SameRequests, SameReading, SamePositions
    <2>4. need(t) = need(s)
      BY <2>3 DEF need, SameRequests, SameReading
    <2>5. /\ sv.top <= sv.top /\ sv.read <= sv.read /\ sv.refused <= sv.refused
          /\ sv.served \subseteq 1 .. s.issued
          /\ \A i \in sv.served : s.till[i] <= sv.read
      BY <1>1 DEF Kept, ServerChat
    <2>6. /\ s.readBefore <= t.readBefore /\ t.readBefore <= sv.top + 1 /\ t.last <= sv.top
          /\ \A m \in Incoming : ~(s.readBefore <= m /\ m < t.readBefore)
      BY <1>1, <2>3, IncomingAssumption, BoundsAssumption, Fields DEF Within, SameReading
    <2>7. Sound(t, sv)
      BY <1>1, <2>2, <2>3, <2>4, <2>5, <2>6, Learn
    <2> QED
      BY <2>3, <2>7 DEF Fetching, EntryKept
  <1> QED
    BY <1>2, <1>3

\* What was read elsewhere is settled.
LEMMA ReadElsewhere ==
    ASSUME NEW s, NEW sv \in ServerChat, Sound(s, sv), Fetching(s),
           NEW upTo \in 0 .. MaxMsg, upTo <= sv.top,
           \A m \in Incoming : s.readBefore <= m /\ m <= upTo => Settled(m, sv),
           NEW counted \in BOOLEAN, NEW t, t = readElsewhere(s, upTo, counted)
    PROVE  Sound(t, sv) /\ Fetching(t) /\ EntryKept(s, t)
  <1> DEFINE u == IF counted THEN setUnreadCount(s) ELSE requestDialogEntry(s)
  <1>1. t = setInboxReadTill(u, upTo)
    BY DEF readElsewhere
  <1>2. Sound(u, sv) /\ Fetching(u) /\ EntryKept(s, u) /\ u.readBefore = s.readBefore
    <2>1. CASE counted
      BY <2>1, SetUnreadCount DEF EntryKept
    <2>2. CASE ~counted
      BY <2>2, RequestDialogEntry DEF SameReading
    <2> QED
      BY <2>1, <2>2
  <1> HIDE DEF u
  <1>3. /\ Sound(t, sv) /\ SamePositions(u, t)
        /\ t.pending = u.pending /\ t.requested = u.requested
        /\ t.postponedRequestEntry = u.postponedRequestEntry
    BY <1>1, <1>2, SetInboxReadTill
  <1> QED
    BY <1>2, <1>3 DEF Fetching, EntryKept, SamePositions

\* finishSentRequest() for a request that is no read request, or whose
\* answer has been taken in.
LEMMA Finished ==
    ASSUME NEW s, NEW sv \in ServerChat, Sound(s, sv), Fetching(s),
           NEW id, id \notin Reads(s), NEW t, t = finishSentRequest(s, id)
    PROVE  /\ Sound(t, sv)
           /\ Fetching(t)
           /\ EntryKept(s, t)
           /\ need(t) = need(s)
           /\ t.last = s.last
  <1>1. /\ s \in State /\ need(s) <= MaxRequests /\ Numbered(s) /\ Within(s, sv.top)
        /\ s.issued \in Nat
    BY BoundsAssumption, Fields DEF Sound
  <1>2. /\ t \in State
        /\ t.issued = s.issued /\ t.till = s.till
        /\ SameReading(s, t)
        /\ s.pending \/ s.requested => t.pending \/ t.requested
        /\ EntryKept(s, t)
        /\ Numbered(t)
        /\ Reads(t) = Reads(s)
    <2>1. Reads(s) \ {id} = Reads(s)
      OBVIOUS
    <2> QED
      BY <1>1, <2>1, FinishSentRequest
  <1>3. need(t) = need(s)
    BY <1>2 DEF need, SameReading
  <1>4. Sound(t, sv)
    BY <1>1, <1>2, <1>3, RequestsKeepReading DEF Within
  <1> QED
    BY <1>2, <1>3, <1>4 DEF Fetching, SameReading

\* A request that is not a read request is sent.
LEMMA Requested ==
    ASSUME NEW s, NEW sv \in ServerChat, Sound(s, sv), Fetching(s), need(s) < MaxRequests,
           NEW type \in RequestType \ {"read"}, NEW t, t = sendRequest(s, type, 0)
    PROVE  Sound(t, sv) /\ Fetching(t) /\ EntryKept(s, t) /\ Reads(t) = Reads(s)
  <1> USE BoundsAssumption
  <1>1. /\ s \in State /\ Numbered(s) /\ Within(s, sv.top) /\ s.issued \in Nat
        /\ s.issued < MaxRequests /\ s.issued <= s.issued + 1 /\ 0 \in 0 .. MaxMsg
    BY Fields DEF Sound, need
  <1>2. /\ t \in State
        /\ t.issued = s.issued + 1
        /\ t.till = [s.till EXCEPT ![s.issued + 1] = 0]
        /\ SameReading(s, t)
        /\ t.pending = s.pending
        /\ t.requested = s.requested
        /\ s.postponedRequestEntry => t.postponedRequestEntry
        /\ Numbered(t)
        /\ Reads(t) = Reads(s) \cup IF type = "read" THEN {s.issued + 1} ELSE {}
    BY <1>1, SendRequest
  <1>3. Reads(t) = Reads(s)
    BY <1>2
  <1>4. need(t) <= MaxRequests
    BY <1>1, <1>2 DEF need, SameReading
  <1>5. /\ \A i \in 1 .. s.issued : t.till[i] = s.till[i]
        /\ \A i \in Id : t.till[i] <= sv.top
    <2>1. s.till \in [Id -> 0 .. MaxMsg] /\ s.issued + 1 \notin 1 .. s.issued
          /\ 1 .. s.issued \subseteq Id /\ 0 <= sv.top /\ \A i \in Id : s.till[i] <= sv.top
      <3>1. s.till \in [Id -> 0 .. MaxMsg] /\ \A i \in Id : s.till[i] <= sv.top
        BY <1>1, Fields DEF Within
      <3>2. 0 <= sv.top
        BY DEF ServerChat
      <3>3. s.issued + 1 \notin 1 .. s.issued /\ 1 .. s.issued \subseteq Id
        BY <1>1 DEF Id
      <3> QED
        BY <3>1, <3>2, <3>3
    <2> QED
      BY <1>2, <2>1
  <1>6. Sound(t, sv)
    BY <1>1, <1>2, <1>3, <1>4, <1>5, RequestsKeepReading
  <1> QED
    BY <1>2, <1>3, <1>6 DEF Fetching, EntryKept, SameReading

\* A request that is not a read request is taken out of the set of requests
\* that are out, or of those that are postponed.
LEMMA TakenOut ==
    ASSUME NEW s, NEW sv \in ServerChat, Sound(s, sv), Fetching(s),
           NEW id, s.type[id] # "read", NEW t,
           t = answered(s, id) \/ t = [s EXCEPT !.postponed = @ \ {id}]
    PROVE  /\ Sound(t, sv) /\ Fetching(t) /\ EntryKept(s, t) /\ need(t) = need(s)
           /\ id \notin Reads(t)
  <1>1. /\ s \in State /\ need(s) <= MaxRequests /\ Numbered(s) /\ Within(s, sv.top)
        /\ s.issued \in Nat
    BY BoundsAssumption, Fields DEF Sound
  <1>2. s.out \ {id} \in SUBSET Id /\ s.postponed \ {id} \in SUBSET Id
    BY <1>1 DEF State
  <1>3. t \in State
    BY <1>1, <1>2 DEF State, answered
  <1>4. /\ SameReading(s, t) /\ t.issued = s.issued /\ t.type = s.type /\ t.till = s.till
        /\ t.sent = s.sent /\ t.out \subseteq s.out /\ s.out \subseteq t.out \cup {id}
        /\ t.postponed \subseteq s.postponed
        /\ t.pending = s.pending /\ t.requested = s.requested
        /\ t.postponedRequestEntry = s.postponedRequestEntry
    BY <1>1 DEF State, answered, SameReading
  <1>5. Reads(t) = Reads(s) /\ id \notin Reads(t)
    BY <1>4 DEF Reads
  <1>6. Numbered(t)
    BY <1>1, <1>4 DEF Numbered, History, Deletion
  <1>7. need(t) = need(s)
    BY <1>4 DEF need, SameReading
  <1>8. Sound(t, sv)
    BY <1>1, <1>3, <1>4, <1>5, <1>6, <1>7, RequestsKeepReading DEF Within
  <1> QED
    BY <1>4, <1>5, <1>7, <1>8 DEF Fetching, EntryKept, SameReading

\* The answer to a read request is taken in: the server has read so far, or
\* has refused to.
LEMMA ReadFinished ==
    ASSUME NEW s, NEW sv \in ServerChat, Sound(s, sv), Fetching(s),
           NEW id \in Reads(s), Settled(s.till[id], sv),
           NEW t, t = readFinished(answered(s, id), id)
    PROVE  /\ Sound(t, sv)
           /\ Fetching(t)
           /\ EntryKept(s, t)
           /\ id \in 1 .. t.issued /\ id \notin Reads(t)
  <1> USE BoundsAssumption
  <1> DEFINE a == answered(s, id)
  <1>1. /\ s \in State /\ need(s) <= MaxRequests /\ Numbered(s) /\ Forward(s)
        /\ Within(s, sv.top) /\ Sending(s) /\ Kept(s, sv)
    BY DEF Sound
  <1>2. /\ id \in Id /\ id \in 1 .. s.issued /\ s.till[id] \in Nat /\ s.sentReadTill \in Nat
        /\ s.readBefore \in Nat /\ sv.read \in Nat /\ sv.refused \in Nat
    BY <1>1, ReadsAreOut, Fields DEF Numbered, Reads, ServerChat
  <1>3. a \in State
    <2>1. s.out \ {id} \in SUBSET Id
      BY <1>1 DEF State
    <2> QED
      BY <1>1, <2>1 DEF State, answered
  <1>4. /\ SameReading(s, a) /\ a.issued = s.issued /\ a.type = s.type /\ a.till = s.till
        /\ a.sent = s.sent /\ a.out = s.out \ {id} /\ a.postponed = s.postponed
        /\ a.pending = s.pending /\ a.requested = s.requested
        /\ a.postponedRequestEntry = s.postponedRequestEntry
    BY <1>1 DEF State, answered, SameReading
  <1>5. Reads(a) = Reads(s) \ {id}
    BY <1>4 DEF Reads
  <1>6. Numbered(a) /\ need(a) = need(s)
    BY <1>1, <1>4 DEF Numbered, History, Deletion, need, SameReading
  <1>7. Forward(a) /\ Within(a, sv.top)
    BY <1>1, <1>4, <1>5 DEF Forward, Within, SameReading
  <1>8. Kept(a, sv)
    <2>1. \A m \in Incoming : m <= s.till[id] => Settled(m, sv)
      <3>1. s.till[id] <= sv.read \/ s.till[id] <= sv.refused
        BY DEF Settled
      <3>2. \A m \in Incoming : m \in Nat
        BY IncomingAssumption
      <3> QED
        BY <1>2, <3>1, <3>2 DEF Settled
    <2> QED
      BY <1>1, <1>4, <1>5, <2>1 DEF Kept, SameReading
  <1> HIDE DEF a
  <1>9. CASE s.sentReadTill # s.till[id]
    <2>1. t = a
      BY <1>4, <1>9 DEF readFinished, a, SameReading
    <2>2. Sending(a)
      BY <1>1, <1>4, <1>5, <1>9 DEF Sending, SameReading
    <2> QED
      BY <1>1, <1>2, <1>3, <1>4, <1>5, <1>6, <1>7, <1>8, <2>1, <2>2
      DEF Sound, Fetching, EntryKept, SameReading
  <1>10. CASE s.sentReadTill = s.till[id]
    <2> DEFINE d == [a EXCEPT !.sentReadDone = TRUE]
    <2>1. /\ SameRequests(a, d) /\ d.sentReadDone /\ d.sentReadTill = a.sentReadTill
          /\ d.willReadTill = a.willReadTill /\ d.readBefore = a.readBefore
          /\ d.readInboxWaits = a.readInboxWaits /\ d.last = a.last
          /\ d.pending = a.pending /\ d.requested = a.requested
          /\ d.postponedRequestEntry = a.postponedRequestEntry
      BY <1>3 DEF State, SameRequests
    <2>2. d \in State
      BY <1>3 DEF State
    <2>3. Numbered(d) /\ Reads(d) = Reads(a)
      BY <1>6, <2>1, RequestsStay
    <2>4. need(d) = need(s)
      BY <1>6, <2>1 DEF need, SameRequests
    <2>5. Forward(d) /\ Within(d, sv.top) /\ Sending(d)
      BY <1>7, <2>1, <2>3 DEF Forward, Within, Sending, SameRequests
    <2>6. Kept(d, sv)
      BY <1>4, <1>8, <1>10, <2>1, <2>3 DEF Kept, SameRequests, SameReading
    <2>7. Sound(d, sv)
      BY <1>1, <2>2, <2>3, <2>4, <2>5, <2>6 DEF Sound
    <2>8. EntryKept(s, d) /\ id \in 1 .. d.issued /\ id \notin Reads(d)
      BY <1>2, <1>4, <1>5, <2>1, <2>3 DEF EntryKept, SameRequests
    <2>9. CASE unreadCountRefreshNeeded(a, a.till[id])
      <3>1. t = requestDialogEntry(d)
        BY <1>4, <1>10, <2>9 DEF readFinished, a, SameReading
      <3> HIDE DEF d
      <3>2. /\ Sound(t, sv) /\ Fetching(t) /\ EntryKept(d, t) /\ SameRequests(d, t)
        BY <2>7, <3>1, RequestDialogEntry
      <3> QED
        BY <2>8, <3>2, RequestsStay DEF EntryKept, SameRequests
    <2>10. CASE ~unreadCountRefreshNeeded(a, a.till[id])
      <3>1. t = [a EXCEPT !.sentReadDone = TRUE, !.sentReadTill = 0]
        BY <1>4, <1>10, <2>10 DEF readFinished, a, SameReading
      <3>2. /\ SameRequests(d, t) /\ t.sentReadTill = 0
            /\ t.willReadTill = d.willReadTill /\ t.readBefore = d.readBefore
            /\ t.readInboxWaits = d.readInboxWaits /\ t.last = d.last
            /\ t.pending = d.pending /\ t.requested = d.requested
            /\ t.postponedRequestEntry = d.postponedRequestEntry
        BY <1>3, <3>1 DEF State, SameRequests
      <3>3. t \in State
        <4>1. 0 \in 0 .. MaxMsg
          OBVIOUS
        <4> QED
          BY <1>3, <3>1, <4>1 DEF State
      <3>4. s.till[id] + 1 <= s.readBefore
        BY <1>2, <1>4, <2>10 DEF unreadCountRefreshNeeded, SameReading
      <3>5. \A i \in Reads(d) : d.till[i] < d.readBefore
        <4>1. \A i \in Reads(s) :
                 /\ s.till[i] \in Nat
                 /\ s.sentReadTill # 0 => s.till[i] <= s.sentReadTill
                 /\ s.sentReadTill = 0 => s.till[i] < s.readBefore
          BY <1>1, ReadsAreOut DEF Forward
        <4>2. Reads(d) \subseteq Reads(s) /\ d.till = s.till /\ d.readBefore = s.readBefore
          BY <1>4, <1>5, <2>1, <2>3 DEF SameRequests, SameReading
        <4> QED
          BY <1>2, <1>10, <3>4, <4>1, <4>2
      <3> HIDE DEF d
      <3>6. Sound(t, sv)
        BY <2>7, <3>2, <3>3, <3>5, ForgetSent
      <3> QED
        BY <2>8, <3>2, <3>6, RequestsStay DEF Fetching, EntryKept, SameRequests
    <2> QED
      BY <2>9, <2>10
  <1> QED
    BY <1>9, <1>10

-----------------------------------------------------------------------------
(* The handlers.                                                           *)

\* The server only ever learns.
ServerLearns ==
    /\ server' \in [Chats -> ServerChat]
    /\ \A d \in Chats : /\ server[d].top <= server'[d].top
                        /\ server[d].read <= server'[d].read
                        /\ server'[d].read <= server'[d].top

\* A chat on which handlers may have run, but for sendReadRequests().
GoodChat(s, sv, requests, c) ==
    /\ Sound(s, sv)
    /\ Fetching(s)
    /\ s.requested => s.postponedRequestEntry \/ \E a \in requests : c \in a.chats

\* Each chat is as given, or its read that is due was sent after that.
MayHaveRead(ch) ==
    /\ chat' = [d \in Chats |-> chat'[d]]
    /\ \A d \in Chats :
           \/ chat'[d] = ch[d]
           \/ ch[d].willReadTill # 0 /\ chat'[d] = sendReadRequest(ch[d])

\* What every handler has in common: it leaves the chats sound, it may send
\* the reads that are due, and it posts sendDialogRequests() for the entries
\* it asks for.
LEMMA HandlerStep ==
    ASSUME IInv, ServerLearns, NEW ch,
           \A d \in Chats : GoodChat(ch[d], server'[d], asked', d),
           MayHaveRead(ch), postponeRequestDialogEntries, timer' \in BOOLEAN, asked' \subseteq asked
    PROVE  IInv'
  <1>1. /\ asked \subseteq Asked /\ posted \in BOOLEAN /\ IsFiniteSet(asked)
        /\ server \in [Chats -> ServerChat] /\ PastAnswers
        /\ \A d \in Chats : chat[d].pending => posted
    BY DEF IInv, TypeOK, EntryIsOnItsWay
  <1>2. \A d \in Chats : GoodChat(chat'[d], server'[d], asked', d)
    <2>1. ASSUME NEW d \in Chats, ch[d].willReadTill # 0, chat'[d] = sendReadRequest(ch[d])
          PROVE  GoodChat(chat'[d], server'[d], asked', d)
      <3>1. Sound(ch[d], server'[d]) /\ server'[d] \in ServerChat
        BY DEF GoodChat, ServerLearns
      <3>2. /\ Sound(chat'[d], server'[d]) /\ ~chat'[d].sentReadDone
            /\ EntryKept(ch[d], chat'[d])
        BY <2>1, <3>1, SendReadRequest
      <3> QED
        BY <3>2 DEF GoodChat, Fetching, EntryKept
    <2> QED
      BY <2>1 DEF MayHaveRead
  <1>3. chat' \in [Chats -> State]
    BY <1>2 DEF GoodChat, Sound, MayHaveRead
  <1>4. posted' \in BOOLEAN /\ \A d \in Chats : chat'[d].pending => posted'
    BY <1>1 DEF postponeRequestDialogEntries
  <1>5. IsFiniteSet(asked')
    BY <1>1, FS_Subset
  <1>6. PastAnswers'
    <2>1. \A a \in asked : \A d \in Chats : a.answer[d].read \in Nat /\ a.answer[d].top \in Nat
      BY <1>1 DEF Asked
    <2>2. \A d \in Chats : /\ server[d].top \in Nat /\ server[d].read \in Nat
                          /\ server'[d].top \in Nat /\ server'[d].read \in Nat
      BY <1>1 DEF ServerLearns, ServerChat
    <2> QED
      BY <1>1, <2>1, <2>2 DEF PastAnswers, ServerLearns
  <1> QED
    BY <1>1, <1>2, <1>3, <1>4, <1>5, <1>6
    DEF IInv, TypeOK, GoodServer, ServerLearns, GoodChat, EntryIsOnItsWay

\* What IInv says of one chat.
LEMMA OfChat ==
    ASSUME IInv, NEW c \in Chats
    PROVE  /\ GoodChat(chat[c], server[c], asked, c)
           /\ server[c] \in ServerChat /\ server[c].read <= server[c].top
           /\ chat[c] \in State /\ chat = [d \in Chats |-> chat[d]]
  BY DEF IInv, TypeOK, GoodServer, GoodChat, EntryIsOnItsWay

\* The server has learnt more of a chat.
LEMMA ServerMoves ==
    ASSUME NEW s, NEW sv \in ServerChat, Sound(s, sv),
           NEW sw \in ServerChat, sv.top <= sw.top, sv.read <= sw.read,
           sv.refused <= sw.refused, sw.served \subseteq 1 .. s.issued,
           \A i \in sw.served : s.till[i] <= sw.read
    PROVE  Sound(s, sw)
  <1>1. /\ s \in State /\ need(s) <= MaxRequests /\ Within(s, sv.top)
    BY DEF Sound
  <1>2. SameRequests(s, s) /\ SamePositions(s, s)
    BY DEF SameRequests, SamePositions
  <1>3. /\ s.last \in Int /\ s.readBefore \in Nat /\ sv.top \in Nat /\ sw.top \in Nat
    BY <1>1, BoundsAssumption, Fields DEF ServerChat, Unknown
  <1>4. s.last <= sw.top /\ s.readBefore <= s.readBefore /\ s.readBefore <= sw.top + 1
    BY <1>1, <1>3 DEF Within
  <1>5. \A m \in Incoming : ~(s.readBefore <= m /\ m < s.readBefore)
    <2>1. \A m \in Incoming : m \in Nat
      BY IncomingAssumption
    <2> QED
      BY <1>3, <2>1
  <1> QED
    BY <1>1, <1>2, <1>4, <1>5, Learn

LEMMA ServerStays ==
    ASSUME IInv, UNCHANGED server
    PROVE  ServerLearns
  <1>1. server \in [Chats -> ServerChat] /\ \A d \in Chats : server[d].read <= server[d].top
    BY DEF IInv, TypeOK, GoodServer
  <1>2. \A d \in Chats : server[d].top \in Nat /\ server[d].read \in Nat
    BY <1>1, BoundsAssumption DEF ServerChat
  <1> QED
    BY <1>1, <1>2 DEF ServerLearns

\* A handler of one chat.
LEMMA ChatStep ==
    ASSUME IInv, ServerLearns, NEW c \in Chats,
           \A d \in Chats \ {c} : server'[d] = server[d],
           NEW s, changes(c, s) \/ reading(c, s),
           Sound(s, server'[c]), Fetching(s), EntryKept(chat[c], s)
    PROVE  IInv'
  <1> DEFINE ch == [chat EXCEPT ![c] = s]
  <1>1. asked' = asked /\ postponeRequestDialogEntries
    BY DEF changes, reading
  <1>2. chat = [d \in Chats |-> chat[d]] /\ timer \in BOOLEAN
    BY OfChat DEF IInv, TypeOK
  <1>3. \A d \in Chats : ch[d] = IF d = c THEN s ELSE chat[d]
    BY <1>2
  <1>4. \A d \in Chats : GoodChat(ch[d], server'[d], asked', d)
    BY <1>1, <1>3, OfChat DEF GoodChat, EntryKept
  <1>5. MayHaveRead(ch) /\ timer' \in BOOLEAN
    <2>1. CASE chat' = ch /\ timer' \in BOOLEAN
      BY <1>2, <2>1 DEF MayHaveRead
    <2>2. CASE sendReadRequests(ch)
      BY <2>2 DEF sendReadRequests, timerAfter, MayHaveRead
    <2>3. CASE changes(c, s)
      BY <1>2, <2>1, <2>3 DEF changes
    <2>4. CASE reading(c, s)
      <3>1. afterReading(ch)
        BY <2>4 DEF reading
      <3> HIDE DEF ch
      <3> QED
        BY <1>2, <2>1, <2>2, <3>1 DEF afterReading, startTimer
    <2> QED
      BY <2>3, <2>4
  <1>6. asked' \subseteq asked
    BY <1>1
  <1> HIDE DEF ch
  <1> QED
    BY <1>1, <1>4, <1>5, <1>6, HandlerStep

\* A handler of one chat that the server does not hear of.
LEMMA OwnStep ==
    ASSUME IInv, UNCHANGED server, NEW c \in Chats,
           NEW s, changes(c, s) \/ reading(c, s),
           Sound(s, server[c]), Fetching(s), EntryKept(chat[c], s)
    PROVE  IInv'
  <1>1. ServerLearns /\ server'[c] = server[c] /\ \A d \in Chats \ {c} : server'[d] = server[d]
    BY ServerStays
  <1>2. Sound(s, server'[c])
    BY <1>1
  <1> QED
    BY <1>1, <1>2, ChatStep

LEMMA Room ==
    ASSUME NEW s, room(s)
    PROVE  need(s) < MaxRequests
  BY DEF room, need

LEMMA AfterReadingFetches ==
    ASSUME NEW s, NEW t, Fetching(s), AfterReading(s, t)
    PROVE  Fetching(t) /\ EntryKept(s, t)
  BY DEF Fetching, AfterReading

LEMMA RequestHistoryStep ==
    ASSUME IInv, NEW c \in Chats, requestHistory(c) PROVE IInv'
  <1> DEFINE s == sendRequest(chat[c], "history", 0)
  <1>1. "history" \in RequestType \ {"read"}
    BY DEF RequestType
  <1>2. changes(c, s) /\ UNCHANGED server /\ need(chat[c]) < MaxRequests
    BY Room DEF requestHistory
  <1>3. Sound(s, server[c]) /\ Fetching(s) /\ EntryKept(chat[c], s)
    BY <1>1, <1>2, OfChat, Requested DEF GoodChat
  <1> HIDE DEF s
  <1> QED
    BY <1>2, <1>3, OwnStep

LEMMA SendPreparedMessageStep ==
    ASSUME IInv, NEW c \in Chats, sendPreparedMessage(c) PROVE IInv'
  <1> DEFINE s == sendRequest(chat[c], "send", 0)
  <1>1. "send" \in RequestType \ {"read"}
    BY DEF RequestType
  <1>2. changes(c, s) /\ UNCHANGED server /\ need(chat[c]) < MaxRequests
    BY Room DEF sendPreparedMessage
  <1>3. Sound(s, server[c]) /\ Fetching(s) /\ EntryKept(chat[c], s)
    BY <1>1, <1>2, OfChat, Requested DEF GoodChat
  <1> HIDE DEF s
  <1> QED
    BY <1>2, <1>3, OwnStep

LEMMA DeleteAllMessagesStep ==
    ASSUME IInv, NEW c \in Chats, deleteAllMessages(c) PROVE IInv'
  <1>1. PICK type \in Calls \cap Deletions : changes(c, sendRequest(chat[c], type, 0))
    BY DEF deleteAllMessages
  <1> DEFINE s == sendRequest(chat[c], type, 0)
  <1>2. type \in RequestType \ {"read"}
    BY DEF RequestType, Deletions
  <1>3. changes(c, s) /\ UNCHANGED server /\ need(chat[c]) < MaxRequests
    BY <1>1, Room DEF deleteAllMessages
  <1>4. Sound(s, server[c]) /\ Fetching(s) /\ EntryKept(chat[c], s)
    BY <1>2, <1>3, OfChat, Requested DEF GoodChat
  <1> HIDE DEF s
  <1> QED
    BY <1>3, <1>4, OwnStep

\* What is shown of a chat changes, and what is known of its last message.
LEMMA LastChanges ==
    ASSUME NEW s, NEW sv \in ServerChat, Sound(s, sv), Fetching(s),
           NEW sw \in ServerChat, sv.top <= sw.top, sw.read = sv.read,
           sw.refused = sv.refused, sw.served = sv.served,
           NEW last \in {Unknown} \cup 0 .. MaxMsg, last <= sw.top,
           NEW t, t = [s EXCEPT !.last = last]
    PROVE  /\ Sound(t, sw) /\ Fetching(t) /\ EntryKept(s, t) /\ need(t) = need(s)
           /\ t.readBefore = s.readBefore /\ t.last = last
           /\ t.sentReadTill = s.sentReadTill /\ t.willReadTill = s.willReadTill
  <1>1. /\ s \in State /\ need(s) <= MaxRequests /\ Within(s, sv.top) /\ Kept(s, sv)
    BY DEF Sound
  <1>2. t \in State
    BY <1>1 DEF State
  <1>3. /\ SameRequests(s, t) /\ SamePositions(s, t) /\ t.readBefore = s.readBefore
        /\ t.last = last /\ t.readInboxWaits = s.readInboxWaits
        /\ t.pending = s.pending /\ t.requested = s.requested
        /\ t.postponedRequestEntry = s.postponedRequestEntry
    BY <1>1 DEF State, SameRequests, SamePositions
  <1>4. need(t) = need(s)
    BY <1>3 DEF need, SameRequests, SamePositions
  <1>5. s.readBefore \in Nat /\ sv.top \in Nat /\ sw.top \in Nat /\ \A m \in Incoming : m \in Nat
    BY <1>1, BoundsAssumption, IncomingAssumption, Fields DEF ServerChat
  <1>6. sv.read <= sw.read /\ sv.refused <= sw.refused
    BY DEF ServerChat
  <1>7. s.readBefore <= t.readBefore /\ t.readBefore <= sw.top + 1 /\ t.last <= sw.top
    BY <1>1, <1>3, <1>5 DEF Within
  <1>8. \A m \in Incoming : ~(s.readBefore <= m /\ m < t.readBefore)
    BY <1>3, <1>5
  <1>9. sw.served \subseteq 1 .. s.issued /\ \A i \in sw.served : s.till[i] <= sw.read
    BY <1>1 DEF Kept
  <1>10. Sound(t, sw)
    BY <1>1, <1>2, <1>3, <1>4, <1>6, <1>7, <1>8, <1>9, Learn
  <1> QED
    BY <1>3, <1>4, <1>10 DEF Fetching, EntryKept, SamePositions

LEMMA DeleteMessagesStep ==
    ASSUME IInv, NEW c \in Chats, deleteMessages(c) PROVE IInv'
  <1> DEFINE s == sendRequest(chat[c], "delete", 0)
             t == [s EXCEPT !.last = Unknown]
             u == requestDialogEntry(t)
  <1>1. "delete" \in RequestType \ {"read"}
    BY DEF RequestType, Deletions
  <1>2. UNCHANGED server /\ need(chat[c]) < MaxRequests /\ (changes(c, s) \/ changes(c, u))
    BY Room DEF deleteMessages
  <1>3. /\ GoodChat(chat[c], server[c], asked, c)
        /\ server[c] \in ServerChat
    BY OfChat
  <1>4. Sound(s, server[c]) /\ Fetching(s) /\ EntryKept(chat[c], s)
    BY <1>1, <1>2, <1>3, Requested DEF GoodChat
  <1>5. Sound(t, server[c]) /\ Fetching(t) /\ EntryKept(s, t)
    <2>1. /\ Unknown \in {Unknown} \cup 0 .. MaxMsg /\ Unknown <= server[c].top
          /\ server[c].top <= server[c].top
      BY <1>3, BoundsAssumption DEF Unknown, ServerChat
    <2> HIDE DEF s
    <2> QED
      BY <1>3, <1>4, <2>1, LastChanges
  <1> HIDE DEF t
  <1>6. Sound(u, server[c]) /\ Fetching(u) /\ EntryKept(t, u)
    BY <1>3, <1>5, RequestDialogEntry
  <1>7. EntryKept(chat[c], u)
    BY <1>4, <1>5, <1>6 DEF EntryKept
  <1> HIDE DEF s, u
  <1> QED
    BY <1>2, <1>4, <1>6, <1>7, OwnStep

LEMMA CancelRequestStep ==
    ASSUME IInv, NEW c \in Chats, cancelRequest(c) PROVE IInv'
  <1>1. PICK id \in chat[c].sent \cup chat[c].postponed :
            /\ chat[c].type[id] = "history"
            /\ changes(c, finishSentRequest([chat[c] EXCEPT !.postponed = @ \ {id}], id))
    BY DEF cancelRequest
  <1> DEFINE s == [chat[c] EXCEPT !.postponed = @ \ {id}]
             t == finishSentRequest(s, id)
  <1>2. Sound(chat[c], server[c]) /\ Fetching(chat[c]) /\ server[c] \in ServerChat
    BY OfChat DEF GoodChat
  <1>3. /\ Sound(s, server[c]) /\ Fetching(s) /\ EntryKept(chat[c], s)
        /\ id \notin Reads(s)
    BY <1>1, <1>2, TakenOut
  <1> HIDE DEF s
  <1>4. Sound(t, server[c]) /\ Fetching(t) /\ EntryKept(s, t)
    BY <1>2, <1>3, Finished
  <1>5. changes(c, t) /\ UNCHANGED server /\ EntryKept(chat[c], t)
    BY <1>1, <1>3, <1>4 DEF cancelRequest, s, EntryKept
  <1> HIDE DEF t
  <1> QED
    BY <1>4, <1>5, OwnStep

LEMMA RequestEntryStep ==
    ASSUME IInv, NEW c \in Chats, requestEntry(c) PROVE IInv'
  <1> DEFINE s == requestDialogEntry(chat[c])
  <1>1. changes(c, s) /\ UNCHANGED server
    BY DEF requestEntry
  <1>2. Sound(s, server[c]) /\ Fetching(s) /\ EntryKept(chat[c], s)
    BY OfChat, RequestDialogEntry DEF GoodChat
  <1> HIDE DEF s
  <1> QED
    BY <1>1, <1>2, OwnStep

\* The user reads the chat up to some position.
LEMMA ReadingStep ==
    ASSUME IInv, NEW c \in Chats, need(chat[c]) < MaxRequests, UNCHANGED server,
           NEW till \in 0 .. MaxMsg, till <= server[c].top,
           NEW force \in BOOLEAN, NEW loaded \in BOOLEAN, ~force,
           reading(c, readInboxTill(chat[c], till, force, loaded))
    PROVE  IInv'
  <1> DEFINE s == readInboxTill(chat[c], till, force, loaded)
  <1>1. Sound(chat[c], server[c]) /\ Fetching(chat[c]) /\ server[c] \in ServerChat
    BY OfChat DEF GoodChat
  <1>2. reading(c, s)
    OBVIOUS
  <1>3. Sound(s, server[c]) /\ AfterReading(chat[c], s)
    BY <1>1, ReadInboxTill
  <1> HIDE DEF s
  <1>4. Fetching(s) /\ EntryKept(chat[c], s)
    BY <1>1, <1>3, AfterReadingFetches
  <1> QED
    BY <1>2, <1>3, <1>4, OwnStep

LEMMA ShowMessageStep ==
    ASSUME IInv, NEW c \in Chats, showMessage(c) PROVE IInv'
  <1>1. PICK till \in 1 .. server[c].top, loaded \in BOOLEAN :
            reading(c, readInboxTill(chat[c], till, FALSE, loaded))
    BY DEF showMessage
  <1>2. PICK force \in BOOLEAN :
            ~force /\ reading(c, readInboxTill(chat[c], till, force, loaded))
    BY <1>1, Zenon
  <1>3. UNCHANGED server /\ need(chat[c]) < MaxRequests
    BY Room DEF showMessage
  <1>4. till \in 0 .. MaxMsg /\ till <= server[c].top
    BY BoundsAssumption, OfChat DEF ServerChat
  <1> QED
    BY <1>2, <1>3, <1>4, ReadingStep

LEMMA ReadInboxStep ==
    ASSUME IInv, NEW c \in Chats, readInbox(c) PROVE IInv'
  <1>1. UNCHANGED server /\ need(chat[c]) < MaxRequests
    BY Room DEF readInbox
  <1>2. PICK loaded \in BOOLEAN :
          \/ /\ chat[c].last # Unknown
             /\ reading(c, readInboxTill(chat[c], chat[c].last, FALSE, loaded))
          \/ /\ chat[c].last = Unknown /\ loaded
             /\ reading(c, readInboxTill(chat[c], server[c].top, FALSE, loaded))
          \/ /\ chat[c].last = Unknown /\ ~loaded
             /\ reading(c, [requestDialogEntry(chat[c]) EXCEPT !.readInboxWaits = TRUE])
    BY DEF readInbox
  <1>3. /\ Sound(chat[c], server[c]) /\ Fetching(chat[c]) /\ server[c] \in ServerChat
        /\ chat[c] \in State /\ Within(chat[c], server[c].top)
    BY OfChat DEF GoodChat, Sound
  <1>4. ASSUME NEW till \in 0 .. MaxMsg, till <= server[c].top,
               reading(c, readInboxTill(chat[c], till, FALSE, loaded))
        PROVE  IInv'
    <2>1. PICK force \in BOOLEAN :
              ~force /\ reading(c, readInboxTill(chat[c], till, force, loaded))
      BY <1>4, Zenon
    <2> QED
      BY <1>1, <1>4, <2>1, ReadingStep
  <1>5. CASE /\ chat[c].last # Unknown
             /\ reading(c, readInboxTill(chat[c], chat[c].last, FALSE, loaded))
    <2>1. chat[c].last \in 0 .. MaxMsg /\ chat[c].last <= server[c].top
      BY <1>3, <1>5, Fields DEF Within
    <2> QED
      BY <1>4, <1>5, <2>1
  <1>6. CASE reading(c, readInboxTill(chat[c], server[c].top, FALSE, loaded))
    <2>1. server[c].top \in 0 .. MaxMsg /\ server[c].top <= server[c].top
      BY <1>3, BoundsAssumption DEF ServerChat
    <2> QED
      BY <1>4, <1>6, <2>1
  <1>7. CASE reading(c, [requestDialogEntry(chat[c]) EXCEPT !.readInboxWaits = TRUE])
    <2> DEFINE r == requestDialogEntry(chat[c])
               t == [r EXCEPT !.readInboxWaits = TRUE]
    <2>1. /\ Sound(r, server[c]) /\ Fetching(r) /\ EntryKept(chat[c], r)
          /\ SameRequests(chat[c], r) /\ SameReading(chat[c], r)
      BY <1>3, RequestDialogEntry
    <2>2. need(r) = need(chat[c])
      BY <2>1 DEF need, SameRequests, SameReading
    <2> HIDE DEF r
    <2>3. /\ r \in State /\ Within(r, server[c].top) /\ Kept(r, server[c]) /\ Numbered(r)
          /\ Forward(r) /\ Sending(r) /\ r.issued \in Nat
      BY <2>1, BoundsAssumption, Fields DEF Sound
    <2>4. t \in State
      BY <2>3 DEF State
    <2>5. /\ SameRequests(r, t) /\ SamePositions(r, t) /\ t.readBefore = r.readBefore
          /\ t.last = r.last /\ t.pending = r.pending /\ t.requested = r.requested
          /\ t.postponedRequestEntry = r.postponedRequestEntry
      BY <2>3 DEF State, SameRequests, SamePositions
    <2>6. need(t) <= MaxRequests
      BY <1>1, <2>2, <2>3, <2>5, BoundsAssumption DEF need, SameRequests, SamePositions
    <2>7. Numbered(t) /\ Reads(t) = Reads(r)
      BY <2>3, <2>5, RequestsStay
    <2> HIDE DEF t
    <2>8. /\ Within(t, server[c].top) /\ Kept(t, server[c]) /\ Forward(t) /\ Sending(t)
      BY <2>3, <2>5, <2>7 DEF Within, Kept, Forward, Sending, SameRequests, SamePositions
    <2>9. Sound(t, server[c])
      BY <2>4, <2>6, <2>7, <2>8 DEF Sound
    <2>10. Fetching(t) /\ EntryKept(chat[c], t)
      BY <2>1, <2>5 DEF Fetching, EntryKept, SamePositions
    <2> QED
      BY <1>1, <1>7, <2>9, <2>10, OwnStep DEF t, r
  <1> QED
    BY <1>2, <1>5, <1>6, <1>7

LEMMA SendPendingReadInboxStep ==
    ASSUME IInv, NEW c \in Chats, sendPendingReadInbox(c) PROVE IInv'
  <1> DEFINE s == sendReadRequest(chat[c])
  <1>1. reading(c, s) /\ UNCHANGED server /\ chat[c].willReadTill # 0
    BY DEF sendPendingReadInbox, sendPending
  <1>2. Sound(chat[c], server[c]) /\ Fetching(chat[c]) /\ server[c] \in ServerChat
    BY OfChat DEF GoodChat
  <1>3. Sound(s, server[c]) /\ AfterReading(chat[c], s)
    BY <1>1, <1>2, SentIsRead
  <1> HIDE DEF s
  <1>4. Fetching(s) /\ EntryKept(chat[c], s)
    BY <1>2, <1>3, AfterReadingFetches
  <1> QED
    BY <1>1, <1>3, <1>4, OwnStep

LEMMA NewItemAddedStep ==
    ASSUME IInv, NEW c \in Chats, newItemAdded(c) PROVE IInv'
  <1> USE BoundsAssumption
  <1> DEFINE m == server[c].top + 1
             sw == [server[c] EXCEPT !.top = m]
             s == [chat[c] EXCEPT !.last = m]
  <1>1. /\ m \in Msg /\ room(s) /\ server' = [server EXCEPT ![c].top = m]
    BY DEF newItemAdded
  <1>2. PICK shown \in BOOLEAN, loaded \in BOOLEAN :
            LET t == IF shown /\ m \in Incoming
                     THEN readInboxTill(s, m, TRUE, loaded)
                     ELSE s
                isUnread == m \in Incoming /\ t.readBefore <= m
                u == IF isUnread \/ m \notin Incoming THEN t
                     ELSE readElsewhere(t, m, loaded)
            IN reading(c, IF u.unreadKnown THEN u ELSE requestDialogEntry(u))
    BY DEF newItemAdded
  <1>3. /\ Sound(chat[c], server[c]) /\ Fetching(chat[c])
        /\ server[c] \in ServerChat /\ server[c].read <= server[c].top
        /\ Within(chat[c], server[c].top)
        /\ server \in [Chats -> ServerChat]
    BY OfChat DEF GoodChat, Sound, IInv, TypeOK
  <1>4. m \in 1 .. MaxMsg /\ server[c].top \in Nat /\ server[c].read \in Nat
    BY <1>1, <1>3 DEF Msg, ServerChat
  <1>5. /\ sw \in ServerChat /\ sw.top = m /\ sw.read = server[c].read
        /\ sw.refused = server[c].refused /\ sw.served = server[c].served
    <2>1. m \in 0 .. MaxMsg
      BY <1>4
    <2> HIDE DEF m
    <2> QED
      BY <1>3, <2>1 DEF ServerChat
  <1>6. /\ server' = [d \in Chats |-> IF d = c THEN sw ELSE server[d]]
        /\ server'[c] = sw /\ \A d \in Chats \ {c} : server'[d] = server[d]
    BY <1>1, <1>3
  <1> HIDE DEF sw
  <1>7. ServerLearns
    <2>1. \A d \in Chats : /\ server[d].read <= server[d].top /\ server[d] \in ServerChat
      BY OfChat
    <2>2. \A d \in Chats : server[d].top \in Nat /\ server[d].read \in Nat
      BY <2>1 DEF ServerChat
    <2>3. \A d \in Chats : /\ server[d].top <= server'[d].top
                          /\ server[d].read <= server'[d].read
                          /\ server'[d].read <= server'[d].top
      BY <1>3, <1>4, <1>5, <1>6, <2>1, <2>2
    <2> QED
      BY <1>3, <1>5, <1>6, <2>3 DEF ServerLearns
  <1>8. /\ Sound(s, sw) /\ Fetching(s) /\ EntryKept(chat[c], s) /\ need(s) = need(chat[c])
        /\ s.readBefore = chat[c].readBefore
    <2>1. m \in {Unknown} \cup 0 .. MaxMsg /\ m <= sw.top /\ server[c].top <= sw.top
      BY <1>4, <1>5
    <2> HIDE DEF m
    <2> QED
      BY <1>3, <1>5, <2>1, LastChanges
  <1>9. need(s) < MaxRequests /\ s.readBefore <= m /\ s.readBefore \in Nat
    BY <1>1, <1>3, <1>8, Room, Fields DEF Within, Sound
  <1> DEFINE t == IF shown /\ m \in Incoming THEN readInboxTill(s, m, TRUE, loaded) ELSE s
             u == IF (m \in Incoming /\ t.readBefore <= m) \/ m \notin Incoming THEN t
                  ELSE readElsewhere(t, m, loaded)
             v == IF u.unreadKnown THEN u ELSE requestDialogEntry(u)
  <1>10. reading(c, v)
    BY <1>2
  <1> HIDE DEF s
  <1>11. Sound(t, sw) /\ Fetching(t) /\ EntryKept(s, t)
    <2>1. CASE shown /\ m \in Incoming
      <3>1. PICK force \in BOOLEAN : force /\ t = readInboxTill(s, m, force, loaded)
        BY <2>1, Zenon
      <3>2. readInboxTillNeedsRequest(s, m) /\ m \in 0 .. MaxMsg /\ m <= sw.top
        BY <1>4, <1>5, <1>9 DEF readInboxTillNeedsRequest, larger
      <3> HIDE DEF t, m
      <3>3. Sound(t, sw) /\ AfterReading(s, t)
        BY <1>5, <1>8, <1>9, <3>1, <3>2, ReadInboxTill
      <3> QED
        BY <1>8, <3>3, AfterReadingFetches
    <2>2. CASE ~(shown /\ m \in Incoming)
      BY <1>8, <2>2 DEF EntryKept
    <2> QED
      BY <2>1, <2>2
  <1> HIDE DEF t
  <1>12. Sound(u, sw) /\ Fetching(u) /\ EntryKept(t, u)
    <2>1. CASE u = t
      BY <1>11, <2>1 DEF EntryKept
    <2>2. CASE u = readElsewhere(t, m, loaded) /\ ~(t.readBefore <= m)
      <3>1. m \in 0 .. MaxMsg /\ m <= sw.top
        BY <1>4, <1>5
      <3>2. \A i \in Incoming : ~(t.readBefore <= i /\ i <= m)
        <4>1. t.readBefore \in Nat /\ \A i \in Incoming : i \in Nat
          BY <1>11, IncomingAssumption, Fields DEF Sound
        <4> QED
          BY <1>4, <2>2, <4>1
      <3> HIDE DEF u, m
      <3> QED
        BY <1>5, <1>11, <2>2, <3>1, <3>2, ReadElsewhere
    <2> QED
      BY <2>1, <2>2
  <1> HIDE DEF u
  <1>13. Sound(v, sw) /\ Fetching(v) /\ EntryKept(u, v)
    BY <1>5, <1>12, RequestDialogEntry DEF EntryKept
  <1>14. EntryKept(chat[c], v)
    BY <1>8, <1>11, <1>12, <1>13 DEF EntryKept
  <1> HIDE DEF v
  <1> QED
    BY <1>6, <1>7, <1>10, <1>13, <1>14, ChatStep

LEMMA InboxReadStep ==
    ASSUME IInv, NEW c \in Chats, inboxRead(c) PROVE IInv'
  <1> USE BoundsAssumption
  <1>1. PICK upTo \in server[c].read + 1 .. server[c].top, counted \in BOOLEAN :
          /\ server' = [server EXCEPT ![c].read = upTo]
          /\ changes(c, IF larger(chat[c].readBefore, 1) > upTo THEN chat[c]
                        ELSE readElsewhere(chat[c], upTo, counted))
    BY DEF inboxRead
  <1> DEFINE sw == [server[c] EXCEPT !.read = upTo]
             t == IF larger(chat[c].readBefore, 1) > upTo THEN chat[c]
                  ELSE readElsewhere(chat[c], upTo, counted)
  <1>2. changes(c, t)
    BY <1>1
  <1>3. /\ Sound(chat[c], server[c]) /\ Fetching(chat[c]) /\ Kept(chat[c], server[c])
        /\ server[c] \in ServerChat /\ server[c].read <= server[c].top
        /\ server \in [Chats -> ServerChat]
        /\ chat[c].till \in [Id -> 0 .. MaxMsg]
        /\ chat[c] \in State
    BY OfChat, Fields DEF GoodChat, Sound, IInv, TypeOK
  <1>4. /\ server[c].top \in 0 .. MaxMsg /\ server[c].read \in Nat /\ server[c].refused \in Nat
        /\ upTo \in 0 .. MaxMsg /\ server[c].read <= upTo /\ upTo <= server[c].top
    BY <1>3 DEF ServerChat
  <1>5. /\ sw \in ServerChat /\ sw.top = server[c].top /\ sw.read = upTo
        /\ sw.refused = server[c].refused /\ sw.served = server[c].served
    BY <1>3, <1>4 DEF ServerChat
  <1>6. /\ server' = [d \in Chats |-> IF d = c THEN sw ELSE server[d]]
        /\ server'[c] = sw /\ \A d \in Chats \ {c} : server'[d] = server[d]
    BY <1>1, <1>3
  <1> HIDE DEF sw
  <1>7. ServerLearns
    <2>1. \A d \in Chats : /\ server[d].read <= server[d].top /\ server[d] \in ServerChat
      BY OfChat
    <2>2. \A d \in Chats : server[d].top \in Nat /\ server[d].read \in Nat
      BY <2>1 DEF ServerChat
    <2>3. \A d \in Chats : /\ server[d].top <= server'[d].top
                          /\ server[d].read <= server'[d].read
                          /\ server'[d].read <= server'[d].top
      BY <1>3, <1>4, <1>5, <1>6, <2>1, <2>2
    <2> QED
      BY <1>3, <1>5, <1>6, <2>3 DEF ServerLearns
  <1>8. Sound(chat[c], sw)
    <2>1. \A i \in sw.served : chat[c].till[i] <= sw.read
      <3>1. \A i \in server[c].served : i \in Id
        BY <1>3 DEF ServerChat
      <3> QED
        BY <1>3, <1>4, <1>5, <3>1 DEF Kept
    <2>2. /\ server[c].top <= sw.top /\ server[c].read <= sw.read
          /\ server[c].refused <= sw.refused /\ sw.served \subseteq 1 .. chat[c].issued
      BY <1>3, <1>4, <1>5 DEF Kept
    <2> QED
      BY <1>3, <1>5, <2>1, <2>2, ServerMoves
  <1>9. Sound(t, sw) /\ Fetching(t) /\ EntryKept(chat[c], t)
    <2>1. \A m \in Incoming : m <= upTo => Settled(m, sw)
      BY <1>5 DEF Settled
    <2>2. LET r == readElsewhere(chat[c], upTo, counted)
          IN Sound(r, sw) /\ Fetching(r) /\ EntryKept(chat[c], r)
      BY <1>3, <1>4, <1>5, <1>8, <2>1, ReadElsewhere
    <2> QED
      BY <1>3, <1>8, <2>2 DEF EntryKept
  <1> HIDE DEF t
  <1> QED
    BY <1>2, <1>6, <1>7, <1>9, ChatStep

LEMMA SendReadRequestsTimerStep ==
    ASSUME IInv, sendReadRequestsTimer PROVE IInv'
  <1>1. ServerLearns
    BY ServerStays DEF sendReadRequestsTimer
  <1>2. \A d \in Chats : GoodChat(chat[d], server'[d], asked', d)
    BY OfChat DEF sendReadRequestsTimer
  <1>3. MayHaveRead(chat) /\ timer' \in BOOLEAN
    BY DEF sendReadRequestsTimer, MayHaveRead, timerAfter
  <1>4. asked' \subseteq asked /\ postponeRequestDialogEntries
    BY DEF sendReadRequestsTimer
  <1> QED
    BY <1>1, <1>2, <1>3, <1>4, HandlerStep

LEMMA FreeSlot ==
    ASSUME asked \subseteq Asked, IsFiniteSet(asked), Cardinality(asked) < MaxAsked
    PROVE  freeSlot \in 1 .. MaxAsked
  <1> USE BoundsAssumption
  <1>1. SUFFICES ASSUME \A n \in 1 .. MaxAsked : \E a \in asked : a.slot = n
                 PROVE  FALSE
    BY DEF freeSlot
  <1> DEFINE f == [a \in asked |-> a.slot]
  <1>2. f \in Surjection(asked, 1 .. MaxAsked)
    BY <1>1 DEF Surjection, Asked
  <1> HIDE DEF f
  <1>3. Cardinality(1 .. MaxAsked) <= Cardinality(asked)
    BY <1>2, FS_Surjection
  <1>4. Cardinality(1 .. MaxAsked) = MaxAsked
    <2>1. 1 \in Int /\ MaxAsked \in Int
      OBVIOUS
    <2>2. Cardinality(1 .. MaxAsked) = IF 1 > MaxAsked THEN 0 ELSE MaxAsked - 1 + 1
      BY <2>1, FS_Interval
    <2> QED
      BY <2>2
  <1>5. Cardinality(asked) \in Nat
    BY FS_CardinalityType
  <1> QED
    BY <1>3, <1>4, <1>5

LEMMA SendDialogRequestsStep ==
    ASSUME IInv, sendDialogRequests PROVE IInv'
  <1> USE BoundsAssumption
  <1> DEFINE pending == {c \in Chats : chat[c].pending}
             held == {c \in pending : postponeEntryRequest(chat[c])}
             moved(c) == [chat[c] EXCEPT !.pending = FALSE, !.requested = TRUE,
                                         !.postponedRequestEntry = @ \/ c \in held]
             new == [slot |-> freeSlot, chats |-> pending \ held,
                     answered |-> FALSE, answer |-> NoAnswer]
  <1>1. /\ posted' = FALSE /\ Cardinality(asked) < MaxAsked
        /\ chat' = [c \in Chats |-> IF c \in pending THEN moved(c) ELSE chat[c]]
        /\ asked' = IF pending = {} THEN asked ELSE asked \cup {new}
        /\ timer' = timer /\ server' = server
    BY DEF sendDialogRequests
  <1>2. /\ asked \subseteq Asked /\ IsFiniteSet(asked) /\ timer \in BOOLEAN
        /\ server \in [Chats -> ServerChat] /\ PastAnswers
    BY DEF IInv, TypeOK
  <1>3. new \in Asked /\ \A c \in Chats : new.answer[c].read = 0 /\ new.answer[c].top = 0
    <2>1. freeSlot \in 1 .. MaxAsked
      BY <1>1, <1>2, FreeSlot
    <2>2. NoAnswer \in [Chats -> [top : 0 .. MaxMsg, read : 0 .. MaxMsg]]
      BY DEF NoAnswer
    <2>3. pending \ held \in SUBSET Chats
      OBVIOUS
    <2> HIDE DEF pending, held
    <2> QED
      BY <2>1, <2>2, <2>3 DEF Asked, NoAnswer
  <1>4. IsFiniteSet(asked') /\ asked' \subseteq Asked /\ asked \subseteq asked'
    <2> HIDE DEF new
    <2>1. IsFiniteSet(asked \cup {new})
      BY <1>2, FS_AddElement
    <2> QED
      BY <1>1, <1>2, <1>3, <2>1
  <1>5. ASSUME NEW c \in Chats
        PROVE  /\ Sound(chat'[c], server'[c]) /\ Fetching(chat'[c]) /\ ~chat'[c].pending
               /\ chat'[c].requested =>
                      chat'[c].postponedRequestEntry \/ \E a \in asked' : c \in a.chats
    <2> DEFINE s == chat[c]
               t == chat'[c]
    <2>1. /\ Sound(s, server[c]) /\ Fetching(s) /\ s \in State
          /\ s.requested => s.postponedRequestEntry \/ \E a \in asked : c \in a.chats
      BY OfChat DEF GoodChat
    <2>2. CASE c \notin pending
      BY <1>1, <1>4, <2>1, <2>2
    <2>3. CASE c \in pending
      <3>1. t = moved(c)
        BY <1>1, <2>3
      <3>2. /\ SameRequests(s, t) /\ SameReading(s, t) /\ ~t.pending /\ t.requested
            /\ c \in held => t.postponedRequestEntry
        BY <2>1, <3>1 DEF State, SameRequests, SameReading
      <3>3. t \in State
        <4>1. PICK h \in BOOLEAN : h = (s.postponedRequestEntry \/ c \in held)
          OBVIOUS
        <4>2. t = [s EXCEPT !.pending = FALSE, !.requested = TRUE,
                            !.postponedRequestEntry = h]
          BY <2>1, <3>1, <4>1 DEF State
        <4> HIDE DEF t
        <4> QED
          BY <2>1, <4>2 DEF State
      <3>4. t.postponedRequestEntry \/ \E a \in asked' : c \in a.chats
        <4>1. CASE c \in held
          BY <3>2, <4>1
        <4>2. CASE c \notin held
          <5>1. new \in asked' /\ c \in new.chats
            BY <1>1, <2>3, <4>2
          <5> HIDE DEF new
          <5> QED
            BY <5>1
        <4> QED
          BY <4>1, <4>2
      <3>5. Numbered(t) /\ Reads(t) = Reads(s) /\ need(t) = need(s)
        BY <2>1, <3>2, RequestsStay DEF Sound, need, SameRequests, SameReading
      <3> HIDE DEF t, s
      <3>6. Sound(t, server[c])
        <4>1. /\ s.issued \in Nat /\ server[c] \in ServerChat /\ Within(s, server[c].top)
              /\ need(s) <= MaxRequests
          BY <1>2, <2>1, Fields DEF Sound
        <4>2. /\ s.issued <= t.issued /\ \A i \in 1 .. s.issued : t.till[i] = s.till[i]
              /\ \A i \in Id : t.till[i] <= server[c].top
              /\ need(t) <= MaxRequests
          BY <3>2, <3>5, <4>1 DEF Within, SameRequests
        <4> QED
          BY <2>1, <3>2, <3>3, <3>5, <4>1, <4>2, RequestsKeepReading
      <3>7. server'[c] = server[c] /\ Fetching(t)
        BY <1>1, <2>1, <3>2 DEF Fetching, SameReading
      <3> QED
        BY <3>2, <3>4, <3>6, <3>7 DEF t
    <2> QED
      BY <2>2, <2>3
  <1>6. chat' \in [Chats -> State]
    <2>1. chat' = [c \in Chats |-> chat'[c]]
      BY <1>1
    <2> QED
      BY <1>5, <2>1 DEF Sound
  <1>7. PastAnswers'
    <2>1. \A c \in Chats : server[c].read \in Nat /\ server[c].top \in Nat
      BY <1>2 DEF ServerChat
    <2>2. \A a \in asked' : a \in asked \/ a = new
      BY <1>1
    <2>3. \A c \in Chats : /\ new.answer[c].read <= server[c].read
                          /\ new.answer[c].top <= server[c].top
      BY <1>3, <2>1
    <2>4. server' = server
      BY <1>1
    <2> HIDE DEF new
    <2> QED
      BY <1>2, <2>2, <2>3, <2>4 DEF PastAnswers
  <1>8. \A c \in Chats : GoodServer(server[c])
    BY DEF IInv
  <1> HIDE DEF new, moved, held, pending
  <1> QED
    BY <1>1, <1>2, <1>4, <1>5, <1>6, <1>7, <1>8 DEF IInv, TypeOK, EntryIsOnItsWay

LEMMA ServerAnswersStep ==
    ASSUME IInv, serverAnswers PROVE IInv'
  <1>1. PICK a \in asked :
         /\ ~a.answered
         /\ asked' = (asked \ {a}) \cup
              {[a EXCEPT !.answered = TRUE,
                         !.answer = [c \in Chats |-> [top |-> server[c].top,
                                                      read |-> server[c].read]]]}
    BY DEF serverAnswers
  <1> DEFINE answer == [c \in Chats |-> [top |-> server[c].top, read |-> server[c].read]]
             b == [a EXCEPT !.answered = TRUE, !.answer = answer]
  <1>2. /\ asked \subseteq Asked /\ IsFiniteSet(asked)
        /\ server \in [Chats -> ServerChat] /\ PastAnswers /\ EntryIsOnItsWay
        /\ \A c \in Chats : GoodServer(server[c]) /\ Sound(chat[c], server[c]) /\ Fetching(chat[c])
        /\ chat \in [Chats -> State] /\ posted \in BOOLEAN /\ timer \in BOOLEAN
    BY DEF IInv, TypeOK
  <1>3. answer \in [Chats -> [top : 0 .. MaxMsg, read : 0 .. MaxMsg]]
    BY <1>2 DEF ServerChat
  <1>4. \A c \in Chats : answer[c].read = server[c].read /\ answer[c].top = server[c].top
    OBVIOUS
  <1>5. /\ asked' = (asked \ {a}) \cup {b}
    BY <1>1
  <1> HIDE DEF answer
  <1>6. b \in Asked /\ b.chats = a.chats /\ b.answer = answer
    BY <1>2, <1>3 DEF Asked
  <1> HIDE DEF b
  <1>7. IsFiniteSet(asked')
    BY <1>2, <1>5, FS_AddElement, FS_RemoveElement
  <1>8. asked' \subseteq Asked
    BY <1>2, <1>5, <1>6
  <1>9. UNCHANGED <<chat, posted, timer, server>>
    BY DEF serverAnswers
  <1>10. PastAnswers'
    <2>1. \A c \in Chats : server[c].read \in Nat /\ server[c].top \in Nat
      BY <1>2, BoundsAssumption DEF ServerChat
    <2> QED
      BY <1>2, <1>4, <1>5, <1>6, <1>9, <2>1 DEF PastAnswers
  <1>11. EntryIsOnItsWay'
    BY <1>2, <1>5, <1>6, <1>9 DEF EntryIsOnItsWay
  <1> QED
    BY <1>2, <1>7, <1>8, <1>9, <1>10, <1>11 DEF IInv, TypeOK

\* History::applyDialog() with what the server held when it answered.
LEMMA DialogApplied ==
    ASSUME NEW s, NEW sv \in ServerChat, Sound(s, sv), Fetching(s), sv.read <= sv.top,
           NEW answer \in [top : 0 .. MaxMsg, read : 0 .. MaxMsg],
           answer.top <= sv.top, answer.read <= sv.read,
           NEW t, t = applyDialog(s, answer)
    PROVE  /\ Sound(t, sv) /\ Fetching(t)
           /\ t.requested => s.requested
           /\ t.postponedRequestEntry = s.postponedRequestEntry
  <1> USE BoundsAssumption
  <1> DEFINE l == [s EXCEPT !.last = answer.top]
             k == setUnreadCount(l)
  <1>1. /\ answer.top \in {Unknown} \cup 0 .. MaxMsg /\ answer.read \in 0 .. MaxMsg
        /\ sv.top \in Nat /\ sv.read \in Nat /\ sv.top <= sv.top
        /\ answer.read <= sv.top /\ s \in State
    BY DEF ServerChat, Sound
  <1>2. Sound(l, sv) /\ Fetching(l)
    BY <1>1, LastChanges
  <1>3. l.requested = s.requested /\ l.postponedRequestEntry = s.postponedRequestEntry
    BY <1>1 DEF State
  <1> HIDE DEF l
  <1> HIDE DEF k
  <1>9. /\ Sound(k, sv) /\ Fetching(k)
        /\ k.requested = l.requested
        /\ k.postponedRequestEntry = l.postponedRequestEntry
    BY <1>2, SetUnreadCount DEF k
  <1>10. CASE answer.read + 1 >= larger(s.readBefore, 1)
    <2>1. t = setInboxReadTill(k, answer.read)
      BY <1>10 DEF applyDialog, l, k
    <2>2. \A m \in Incoming : m <= answer.read => Settled(m, sv)
      <3>1. \A m \in Incoming : m \in Nat
        BY IncomingAssumption
      <3> QED
        BY <1>1, <3>1 DEF Settled
    <2> QED
      BY <1>1, <1>3, <1>9, <2>1, <2>2, SetInboxReadTill DEF Fetching, SamePositions
  <1>11. CASE ~(answer.read + 1 >= larger(s.readBefore, 1))
    <2>1. t = l
      BY <1>11 DEF applyDialog, l
    <2> QED
      BY <1>2, <1>3, <2>1
  <1> QED
    BY <1>10, <1>11

\* afterReading() for chats in which only reading has happened.
LEMMA AfterReadingMoves ==
    ASSUME NEW ch, ch = [d \in Chats |-> ch[d]], timer \in BOOLEAN, afterReading(ch)
    PROVE  MayHaveRead(ch) /\ timer' \in BOOLEAN
  BY DEF afterReading, startTimer, sendReadRequests, timerAfter, MayHaveRead

LEMMA DialogsDoneStep ==
    ASSUME IInv, NEW n, dialogsDone(n) PROVE IInv'
  <1>1. PICK a \in asked, loaded \in BOOLEAN :
         /\ asked' = asked \ {a}
         /\ afterReading([c \in Chats |->
              IF c \in a.chats
              THEN dialogEntryApplied(
                       dialogEntryApplied(applyDialog(chat[c], a.answer[c]), loaded),
                       loaded)
              ELSE chat[c]])
    BY DEF dialogsDone
  <1> DEFINE once(c) == dialogEntryApplied(applyDialog(chat[c], a.answer[c]), loaded)
             twice(c) == dialogEntryApplied(once(c), loaded)
             ch == [c \in Chats |-> IF c \in a.chats THEN twice(c) ELSE chat[c]]
  <1>2. /\ ServerLearns /\ server' = server /\ timer \in BOOLEAN
        /\ asked \subseteq Asked /\ PastAnswers /\ postponeRequestDialogEntries
        /\ asked' \subseteq asked
    BY <1>1, ServerStays DEF dialogsDone, IInv, TypeOK
  <1>3. ASSUME NEW c \in Chats
        PROVE  GoodChat(ch[c], server'[c], asked', c)
    <2>1. /\ Sound(chat[c], server[c]) /\ Fetching(chat[c])
          /\ server[c] \in ServerChat /\ server[c].read <= server[c].top
          /\ chat[c].requested =>
                chat[c].postponedRequestEntry \/ \E b \in asked : c \in b.chats
      BY OfChat DEF GoodChat
    <2>2. CASE c \in a.chats
      <3> DEFINE s == applyDialog(chat[c], a.answer[c])
      <3>1. /\ a.answer[c] \in [top : 0 .. MaxMsg, read : 0 .. MaxMsg]
            /\ a.answer[c].top <= server[c].top /\ a.answer[c].read <= server[c].read
        BY <1>2 DEF Asked, PastAnswers
      <3>2. Sound(s, server[c]) /\ Fetching(s)
        BY <2>1, <3>1, DialogApplied
      <3> HIDE DEF s
      <3>3. Sound(once(c), server[c]) /\ Fetching(once(c))
        BY <2>1, <3>2, EntryApplied DEF s
      <3>4. ch[c] = dialogEntryApplied(once(c), loaded)
        BY <2>2
      <3> HIDE DEF once, ch
      <3>5. /\ Sound(ch[c], server[c]) /\ Fetching(ch[c])
            /\ ch[c].requested => ch[c].postponedRequestEntry
        BY <2>1, <3>3, <3>4, EntryApplied
      <3> QED
        BY <1>2, <3>5 DEF GoodChat
    <2>3. CASE c \notin a.chats
      <3>1. ch[c] = chat[c]
        BY <2>3
      <3> HIDE DEF ch
      <3> QED
        BY <1>1, <1>2, <2>1, <2>3, <3>1 DEF GoodChat
    <2> QED
      BY <2>2, <2>3
  <1>4. ch = [d \in Chats |-> ch[d]] /\ afterReading(ch)
    BY <1>1
  <1> HIDE DEF ch
  <1>5. MayHaveRead(ch) /\ timer' \in BOOLEAN
    BY <1>2, <1>4, AfterReadingMoves
  <1> QED
    BY <1>2, <1>3, <1>5, HandlerStep

LEMMA DialogsFailStep ==
    ASSUME IInv, NEW n, dialogsFail(n) PROVE IInv'
  <1>1. PICK a \in asked, loaded \in BOOLEAN :
         /\ asked' = asked \ {a}
         /\ afterReading([c \in Chats |->
              IF c \in a.chats THEN dialogEntryApplied(chat[c], loaded) ELSE chat[c]])
    BY DEF dialogsFail
  <1> DEFINE ch == [c \in Chats |->
                      IF c \in a.chats THEN dialogEntryApplied(chat[c], loaded) ELSE chat[c]]
  <1>2. /\ ServerLearns /\ server' = server /\ timer \in BOOLEAN
        /\ postponeRequestDialogEntries /\ asked' \subseteq asked
    BY <1>1, ServerStays DEF dialogsFail, IInv, TypeOK
  <1>3. ASSUME NEW c \in Chats
        PROVE  GoodChat(ch[c], server'[c], asked', c)
    <2>1. /\ Sound(chat[c], server[c]) /\ Fetching(chat[c]) /\ server[c] \in ServerChat
          /\ chat[c].requested =>
                chat[c].postponedRequestEntry \/ \E b \in asked : c \in b.chats
      BY OfChat DEF GoodChat
    <2>2. CASE c \in a.chats
      <3>1. ch[c] = dialogEntryApplied(chat[c], loaded)
        BY <2>2
      <3> HIDE DEF ch
      <3>2. /\ Sound(ch[c], server[c]) /\ Fetching(ch[c])
            /\ ch[c].requested => ch[c].postponedRequestEntry
        BY <2>1, <3>1, EntryApplied
      <3> QED
        BY <1>2, <3>2 DEF GoodChat
    <2>3. CASE c \notin a.chats
      <3>1. ch[c] = chat[c]
        BY <2>3
      <3> HIDE DEF ch
      <3> QED
        BY <1>1, <1>2, <2>1, <2>3, <3>1 DEF GoodChat
    <2> QED
      BY <2>2, <2>3
  <1>4. ch = [d \in Chats |-> ch[d]] /\ afterReading(ch)
    BY <1>1
  <1> HIDE DEF ch
  <1>5. MayHaveRead(ch) /\ timer' \in BOOLEAN
    BY <1>2, <1>4, AfterReadingMoves
  <1> QED
    BY <1>2, <1>3, <1>5, HandlerStep

LEMMA RequestDoneStep ==
    ASSUME IInv, NEW c \in Chats, requestDone(c) PROVE IInv'
  <1>1. PICK id \in outstanding(c, {"history", "send"}) :
            changes(c, finishSentRequest(answered(chat[c], id), id))
    BY DEF requestDone
  <1> DEFINE s == answered(chat[c], id)
             t == finishSentRequest(s, id)
  <1>2. Sound(chat[c], server[c]) /\ Fetching(chat[c]) /\ server[c] \in ServerChat
    BY OfChat DEF GoodChat
  <1>3. /\ Sound(s, server[c]) /\ Fetching(s) /\ EntryKept(chat[c], s)
        /\ id \notin Reads(s)
    <2>1. chat[c].type[id] # "read"
      BY DEF outstanding
    <2> QED
      BY <1>2, <2>1, TakenOut
  <1>4. changes(c, t) /\ UNCHANGED server
    BY <1>1 DEF requestDone
  <1> HIDE DEF s
  <1>5. Sound(t, server[c]) /\ Fetching(t) /\ EntryKept(s, t)
    BY <1>2, <1>3, Finished
  <1>6. EntryKept(chat[c], t)
    BY <1>3, <1>5 DEF EntryKept
  <1> HIDE DEF t
  <1> QED
    BY <1>4, <1>5, <1>6, OwnStep

LEMMA DeleteDoneStep ==
    ASSUME IInv, NEW c \in Chats, deleteDone(c) PROVE IInv'
  <1>1. PICK id \in outstanding(c, {"delete"}) :
         LET s == answered(chat[c], id)
             done == finishSentRequest(s, id)
         IN \/ changes(c, done)
            \/ changes(c, IF done.last = Unknown THEN requestDialogEntry(done)
                          ELSE done)
            \/ /\ room(s)
               /\ changes(c, finishSentRequest(sendRequest(s, "delete", 0), id))
    BY DEF deleteDone
  <1> DEFINE s == answered(chat[c], id)
             done == finishSentRequest(s, id)
             asking == requestDialogEntry(done)
             next == sendRequest(s, "delete", 0)
             both == finishSentRequest(next, id)
  <1>2. Sound(chat[c], server[c]) /\ Fetching(chat[c]) /\ server[c] \in ServerChat
    BY OfChat DEF GoodChat
  <1>3. /\ Sound(s, server[c]) /\ Fetching(s) /\ EntryKept(chat[c], s)
        /\ id \notin Reads(s)
    <2>1. chat[c].type[id] # "read"
      BY DEF outstanding
    <2> QED
      BY <1>2, <2>1, TakenOut
  <1>4. UNCHANGED server
    BY DEF deleteDone
  <1>5. changes(c, done) \/ changes(c, asking) \/ (room(s) /\ changes(c, both))
    BY <1>1
  <1> HIDE DEF s
  <1>6. Sound(done, server[c]) /\ Fetching(done) /\ EntryKept(s, done)
    BY <1>2, <1>3, Finished
  <1> HIDE DEF done
  <1>7. Sound(asking, server[c]) /\ Fetching(asking) /\ EntryKept(done, asking)
    BY <1>2, <1>6, RequestDialogEntry
  <1>8. ASSUME room(s)
        PROVE  Sound(both, server[c]) /\ Fetching(both) /\ EntryKept(s, both)
    <2>1. "delete" \in RequestType \ {"read"}
      BY DEF RequestType, Deletions
    <2>2. need(s) < MaxRequests
      BY <1>8, Room
    <2>3. /\ Sound(next, server[c]) /\ Fetching(next) /\ EntryKept(s, next)
          /\ Reads(next) = Reads(s)
      BY <1>2, <1>3, <2>1, <2>2, Requested
    <2>4. id \notin Reads(next)
      BY <1>3, <2>3
    <2> HIDE DEF next
    <2>5. Sound(both, server[c]) /\ Fetching(both) /\ EntryKept(next, both)
      BY <1>2, <2>3, <2>4, Finished
    <2> QED
      BY <2>3, <2>5 DEF EntryKept
  <1>9. /\ EntryKept(chat[c], done) /\ EntryKept(chat[c], asking)
        /\ room(s) => EntryKept(chat[c], both)
    BY <1>3, <1>6, <1>7, <1>8 DEF EntryKept
  <1> HIDE DEF asking, both
  <1>10. CASE changes(c, done)
    BY <1>4, <1>6, <1>9, <1>10, OwnStep
  <1>11. CASE changes(c, asking)
    BY <1>4, <1>7, <1>9, <1>11, OwnStep
  <1>12. CASE room(s) /\ changes(c, both)
    BY <1>4, <1>8, <1>9, <1>12, OwnStep
  <1> QED
    BY <1>5, <1>10, <1>11, <1>12

LEMMA DeleteChannelDoneStep ==
    ASSUME IInv, NEW c \in Chats, deleteChannelDone(c) PROVE IInv'
  <1>1. PICK id \in outstanding(c, {"deleteChannel"}) : changes(c, answered(chat[c], id))
    BY DEF deleteChannelDone
  <1> DEFINE s == answered(chat[c], id)
  <1>2. changes(c, s) /\ UNCHANGED server /\ chat[c].type[id] # "read"
    BY <1>1 DEF deleteChannelDone, outstanding
  <1>3. Sound(s, server[c]) /\ Fetching(s) /\ EntryKept(chat[c], s)
    BY <1>2, OfChat, TakenOut DEF GoodChat
  <1> HIDE DEF s
  <1> QED
    BY <1>2, <1>3, OwnStep

\* The server has carried out, or refused, a read request.
LEMMA ServerReadsOn ==
    ASSUME IInv, NEW c \in Chats, NEW sw \in ServerChat,
           server' = [server EXCEPT ![c] = sw], sw.top = server[c].top,
           server[c].read <= sw.read, sw.read <= sw.top, server[c].refused <= sw.refused,
           sw.served \subseteq 1 .. chat[c].issued,
           \A i \in sw.served : chat[c].till[i] <= sw.read
    PROVE  /\ ServerLearns
           /\ server'[c] = sw
           /\ Sound(chat[c], sw)
           /\ \A d \in Chats : GoodChat(chat[d], server'[d], asked, d)
  <1>1. server \in [Chats -> ServerChat]
    BY DEF IInv, TypeOK
  <1>2. /\ server' = [d \in Chats |-> IF d = c THEN sw ELSE server[d]]
        /\ server'[c] = sw /\ \A d \in Chats \ {c} : server'[d] = server[d]
    BY <1>1
  <1>3. \A d \in Chats : /\ server[d].read <= server[d].top /\ server[d] \in ServerChat
                        /\ server[d].top \in Nat /\ server[d].read \in Nat
    BY OfChat, BoundsAssumption DEF ServerChat
  <1>4. ServerLearns
    <2>1. \A d \in Chats : /\ server[d].top <= server'[d].top
                          /\ server[d].read <= server'[d].read
                          /\ server'[d].read <= server'[d].top
      BY <1>2, <1>3
    <2> QED
      BY <1>2, <1>3, <2>1 DEF ServerLearns
  <1>5. Sound(chat[c], sw)
    <2>1. Sound(chat[c], server[c]) /\ server[c].top <= sw.top
      BY <1>3, OfChat DEF GoodChat
    <2> QED
      BY <1>3, <2>1, ServerMoves
  <1> QED
    BY <1>2, <1>4, <1>5, OfChat DEF GoodChat

\* What is known of a read request that is out.
LEMMA OutstandingRead ==
    ASSUME IInv, NEW c \in Chats, NEW id \in outstanding(c, {"read"})
    PROVE  /\ id \in Reads(chat[c]) /\ id \in 1 .. chat[c].issued /\ id \in Id
           /\ chat[c].till[id] \in 0 .. MaxMsg /\ chat[c].till[id] <= server[c].top
  <1>1. /\ chat[c] \in State /\ Numbered(chat[c]) /\ Within(chat[c], server[c].top)
    BY OfChat DEF GoodChat, Sound
  <1>2. id \in Reads(chat[c])
    BY DEF outstanding, Reads
  <1> QED
    BY <1>1, <1>2, Fields DEF Numbered, Within, Reads

LEMMA ServerReadsStep ==
    ASSUME IInv, NEW c \in Chats, serverReads(c) PROVE IInv'
  <1> USE BoundsAssumption
  <1>1. PICK id \in outstanding(c, {"read"}) \ server[c].served :
           server' = [server EXCEPT ![c].served = @ \cup {id},
                                    ![c].read = larger(@, chat[c].till[id])]
    BY DEF serverReads
  <1> DEFINE till == chat[c].till[id]
             sv == server[c]
             sw == [sv EXCEPT !.served = @ \cup {id}, !.read = larger(@, till)]
  <1>2. /\ id \in 1 .. chat[c].issued /\ id \in Id /\ till \in 0 .. MaxMsg /\ till <= sv.top
    BY OutstandingRead
  <1>3. /\ sv \in ServerChat /\ sv.read <= sv.top /\ Kept(chat[c], sv)
        /\ sv.read \in 0 .. MaxMsg /\ sv.top \in Nat /\ sv.refused \in Nat
        /\ chat[c].till \in [Id -> 0 .. MaxMsg] /\ sv.served \in SUBSET Id
        /\ server \in [Chats -> ServerChat]
    BY OfChat, Fields DEF GoodChat, Sound, ServerChat, IInv, TypeOK
  <1>4. server' = [server EXCEPT ![c] = sw]
    BY <1>1, <1>3
  <1> HIDE DEF till
  <1>5. /\ sw \in ServerChat /\ sw.top = sv.top /\ sw.refused = sv.refused
        /\ sw.served = sv.served \cup {id} /\ sw.read = larger(sv.read, till)
    <2>1. larger(sv.read, till) \in 0 .. MaxMsg /\ sv.served \cup {id} \in SUBSET Id
      BY <1>2, <1>3 DEF larger
    <2> HIDE DEF sv
    <2> QED
      BY <1>3, <2>1 DEF ServerChat
  <1>6. /\ sv.read <= sw.read /\ till <= sw.read /\ sw.read <= sw.top
        /\ sv.refused <= sw.refused
    BY <1>2, <1>3, <1>5 DEF larger
  <1>7. /\ sw.served \subseteq 1 .. chat[c].issued
        /\ \A i \in sw.served : chat[c].till[i] <= sw.read
    <2>1. \A i \in sv.served : chat[c].till[i] \in Nat /\ chat[c].till[i] <= sv.read
      BY <1>3 DEF Kept
    <2>2. sw.read \in Nat
      BY <1>2, <1>3, <1>5 DEF larger
    <2> QED
      BY <1>2, <1>3, <1>5, <1>6, <2>1, <2>2 DEF Kept, till
  <1> HIDE DEF sw
  <1>8. ServerLearns /\ \A d \in Chats : GoodChat(chat[d], server'[d], asked, d)
    BY <1>4, <1>5, <1>6, <1>7, ServerReadsOn
  <1>9. UNCHANGED <<chat, posted, timer, asked>> /\ timer \in BOOLEAN /\ posted \in BOOLEAN
    BY DEF serverReads, IInv, TypeOK
  <1>10. MayHaveRead(chat) /\ postponeRequestDialogEntries
    BY <1>9, OfChat DEF MayHaveRead, postponeRequestDialogEntries, IInv, TypeOK
  <1> QED
    BY <1>8, <1>9, <1>10, HandlerStep

\* The callback of a read request, once it is known what the server did.
LEMMA ReadAnsweredStep ==
    ASSUME IInv, ServerLearns, NEW c \in Chats, NEW id \in outstanding(c, {"read"}),
           readAnswered(c, id), Settled(chat[c].till[id], server'[c]),
           \A d \in Chats : GoodChat(chat[d], server'[d], asked, d)
    PROVE  IInv'
  <1> DEFINE r == readFinished(answered(chat[c], id), id)
             ch == [chat EXCEPT ![c] = r]
  <1>1. PICK due \in SUBSET {d \in Chats : ch[d].willReadTill # 0} :
         /\ chat' = [d \in Chats |->
              LET s == IF d \in due THEN sendReadRequest(ch[d]) ELSE ch[d]
              IN IF d = c THEN finishSentRequest(s, id) ELSE s]
         /\ timer' = timerAfter(ch, due)
    BY DEF readAnswered
  <1>2. postponeRequestDialogEntries /\ asked' = asked /\ asked' \subseteq asked
    BY DEF readAnswered
  <1>3. timer' \in BOOLEAN
    BY <1>1 DEF timerAfter
  <1>4. /\ server'[c] \in ServerChat /\ id \in Reads(chat[c])
        /\ Sound(chat[c], server'[c]) /\ Fetching(chat[c])
        /\ \A d \in Chats : server'[d] \in ServerChat
        /\ chat = [d \in Chats |-> chat[d]]
    BY OutstandingRead, OfChat DEF ServerLearns, GoodChat
  <1>5. /\ Sound(r, server'[c]) /\ Fetching(r) /\ EntryKept(chat[c], r)
        /\ id \in 1 .. r.issued /\ id \notin Reads(r)
    BY <1>4, ReadFinished
  <1>6. /\ chat' = [d \in Chats |-> chat'[d]]
        /\ \A d \in Chats : ch[d] = IF d = c THEN r ELSE chat[d]
    BY <1>1, <1>4
  <1> HIDE DEF r
  <1>7. \A d \in Chats : GoodChat(ch[d], server'[d], asked', d)
    BY <1>2, <1>5, <1>6 DEF GoodChat, EntryKept
  <1>8. ASSUME NEW d \in Chats
        PROVE  GoodChat(chat'[d], server'[d], asked', d)
    <2> DEFINE s == IF d \in due THEN sendReadRequest(ch[d]) ELSE ch[d]
    <2>1. chat'[d] = IF d = c THEN finishSentRequest(s, id) ELSE s
      BY <1>1
    <2>2. /\ GoodChat(s, server'[d], asked', d)
          /\ d = c => id \notin Reads(s)
      <3>1. CASE d \in due
        <4>1. ch[d].willReadTill # 0 /\ s = sendReadRequest(ch[d])
          BY <1>1, <3>1
        <4> HIDE DEF s, ch
        <4>2. Sound(ch[d], server'[d])
          BY <1>7 DEF GoodChat
        <4>3. /\ Sound(s, server'[d]) /\ ~s.sentReadDone
              /\ EntryKept(ch[d], s)
              /\ Reads(s) = Reads(ch[d]) \cup {ch[d].issued + 1}
          BY <1>4, <4>1, <4>2, SendReadRequest
        <4>4. d = c => id # ch[d].issued + 1
          <5>1. r.issued \in Nat
            BY <1>5, BoundsAssumption, Fields DEF Sound
          <5> QED
            BY <1>5, <1>6, <5>1
        <4> QED
          BY <1>5, <1>6, <1>7, <4>3, <4>4 DEF GoodChat, Fetching, EntryKept
      <3>2. CASE d \notin due
        <4>1. s = ch[d]
          BY <3>2
        <4> HIDE DEF s, ch
        <4> QED
          BY <1>5, <1>6, <1>7, <4>1
      <3> QED
        BY <3>1, <3>2
    <2> HIDE DEF s
    <2>3. CASE d = c
      <3>1. /\ Sound(chat'[d], server'[d]) /\ Fetching(chat'[d]) /\ EntryKept(s, chat'[d])
        BY <1>4, <2>1, <2>2, <2>3, Finished DEF GoodChat
      <3> QED
        BY <2>2, <3>1 DEF GoodChat, EntryKept
    <2> QED
      BY <2>1, <2>2, <2>3
  <1>9. MayHaveRead(chat')
    BY <1>6 DEF MayHaveRead
  <1> HIDE DEF ch
  <1> QED
    BY <1>2, <1>3, <1>8, <1>9, HandlerStep

LEMMA ReadDoneStep ==
    ASSUME IInv, NEW c \in Chats, readDone(c) PROVE IInv'
  <1>1. PICK id \in outstanding(c, {"read"}) \cap server[c].served : readAnswered(c, id)
    BY DEF readDone
  <1>2. ServerLearns /\ server' = server
    BY ServerStays DEF readDone
  <1>3. \A d \in Chats : GoodChat(chat[d], server'[d], asked, d)
    BY <1>2, OfChat
  <1>4. Settled(chat[c].till[id], server'[c])
    BY <1>2, OfChat DEF GoodChat, Sound, Kept, Settled
  <1> QED
    BY <1>1, <1>2, <1>3, <1>4, ReadAnsweredStep

LEMMA ReadFailStep ==
    ASSUME IInv, NEW c \in Chats, readFail(c) PROVE IInv'
  <1> USE BoundsAssumption
  <1>1. PICK id \in outstanding(c, {"read"}) \ server[c].served :
           /\ readAnswered(c, id)
           /\ server' = [server EXCEPT ![c].refused = larger(@, chat[c].till[id])]
    BY DEF readFail
  <1> DEFINE till == chat[c].till[id]
             sv == server[c]
             sw == [sv EXCEPT !.refused = larger(@, till)]
  <1>2. till \in 0 .. MaxMsg
    BY OutstandingRead
  <1>3. /\ sv \in ServerChat /\ sv.read <= sv.top /\ Kept(chat[c], sv)
        /\ sv.read \in Nat /\ sv.refused \in 0 .. MaxMsg
        /\ server \in [Chats -> ServerChat]
    BY OfChat DEF GoodChat, Sound, ServerChat, IInv, TypeOK
  <1>4. server' = [server EXCEPT ![c] = sw]
    BY <1>1, <1>3
  <1> HIDE DEF till
  <1>5. /\ sw \in ServerChat /\ sw.top = sv.top /\ sw.read = sv.read
        /\ sw.served = sv.served /\ sw.refused = larger(sv.refused, till)
    <2>1. larger(sv.refused, till) \in 0 .. MaxMsg
      BY <1>2, <1>3 DEF larger
    <2> HIDE DEF sv
    <2> QED
      BY <1>3, <2>1 DEF ServerChat
  <1>6. sv.read <= sw.read /\ sv.refused <= sw.refused /\ till <= sw.refused
    BY <1>2, <1>3, <1>5 DEF larger
  <1>7. sw.served \subseteq 1 .. chat[c].issued /\ \A i \in sw.served : chat[c].till[i] <= sw.read
    BY <1>3, <1>5 DEF Kept
  <1> HIDE DEF sw
  <1>8. /\ ServerLearns /\ server'[c] = sw
        /\ \A d \in Chats : GoodChat(chat[d], server'[d], asked, d)
    BY <1>3, <1>4, <1>5, <1>6, <1>7, ServerReadsOn
  <1>9. Settled(chat[c].till[id], server'[c])
    BY <1>6, <1>8 DEF Settled, till
  <1> QED
    BY <1>1, <1>8, <1>9, ReadAnsweredStep

-----------------------------------------------------------------------------
(* The invariant holds.                                                    *)

LEMMA InitIsSound == Init => IInv
  <1> USE BoundsAssumption
  <1> SUFFICES ASSUME Init PROVE IInv
    OBVIOUS
  <1>1. /\ chat = [c \in Chats |-> EmptyState] /\ posted = FALSE /\ timer = FALSE
        /\ asked = {}
        /\ server = [c \in Chats |-> [top |-> 0, read |-> 0, served |-> {}, refused |-> 0]]
    BY DEF Init
  <1>2. EmptyState \in State
    <2>1. /\ [i \in Id |-> "none"] \in [Id -> RequestType \cup {"none"}]
          /\ [i \in Id |-> 0] \in [Id -> 0 .. MaxMsg]
          /\ 0 \in 0 .. MaxMsg + 1
      OBVIOUS
    <2> QED
      BY <2>1 DEF EmptyState, State
  <1>3. ASSUME NEW c \in Chats
        PROVE  GoodServer(server[c]) /\ Sound(chat[c], server[c]) /\ Fetching(chat[c])
    <2>1. /\ EmptyState.issued = 0 /\ EmptyState.sent = {} /\ EmptyState.postponed = {}
          /\ EmptyState.out = {} /\ EmptyState.willReadTill = 0
          /\ EmptyState.sentReadTill = 0 /\ ~EmptyState.readInboxWaits
          /\ EmptyState.readBefore = 0 /\ EmptyState.last = Unknown
          /\ EmptyState.till = [i \in Id |-> 0]
      BY DEF EmptyState
    <2>2. chat[c] = EmptyState
      BY <1>1
    <2>3. /\ server[c].top = 0 /\ server[c].read = 0 /\ server[c].served = {}
          /\ server[c] \in ServerChat
      BY <1>1 DEF ServerChat
    <2>4. need(chat[c]) <= MaxRequests /\ Numbered(chat[c])
      BY <2>1, <2>2 DEF need, Numbered
    <2>5. Forward(chat[c]) /\ Within(chat[c], server[c].top)
      BY <2>1, <2>2, <2>3 DEF Forward, Within, Reads, Unknown
    <2>6. Sending(chat[c]) /\ Fetching(chat[c])
      BY <2>1, <2>2 DEF Sending, Fetching
    <2>7. Kept(chat[c], server[c])
      <3>1. \A m \in Incoming : ~(m < 0)
        BY IncomingAssumption
      <3> QED
        BY <2>1, <2>2, <2>3, <3>1 DEF Kept
    <2> QED
      BY <1>2, <2>2, <2>3, <2>4, <2>5, <2>6, <2>7 DEF Sound, GoodServer
  <1>4. TypeOK
    BY <1>1, <1>2, <1>3 DEF TypeOK, GoodServer
  <1>5. EntryIsOnItsWay
    BY <1>1 DEF EntryIsOnItsWay, EmptyState
  <1>6. PastAnswers /\ IsFiniteSet(asked)
    BY <1>1, FS_EmptySet DEF PastAnswers
  <1> QED
    BY <1>3, <1>4, <1>5, <1>6 DEF IInv

LEMMA NextIsSound == IInv /\ [Next]_vars => IInv'
  <1> SUFFICES ASSUME IInv, [Next]_vars PROVE IInv'
    OBVIOUS
  <1>1. ASSUME NEW c \in Chats, User(c) PROVE IInv'
    BY <1>1, RequestHistoryStep, SendPreparedMessageStep, DeleteMessagesStep,
       DeleteAllMessagesStep, CancelRequestStep, RequestEntryStep, ShowMessageStep,
       ReadInboxStep, SendPendingReadInboxStep DEF User
  <1>2. ASSUME NEW c \in Chats, Pushed(c) PROVE IInv'
    BY <1>2, NewItemAddedStep, InboxReadStep DEF Pushed
  <1>3. ASSUME NEW c \in Chats, Answered(c) PROVE IInv'
    BY <1>3, RequestDoneStep, DeleteDoneStep, DeleteChannelDoneStep, ReadDoneStep,
       ReadFailStep DEF Answered
  <1>4. ASSUME NEW n, Dialogs(n) PROVE IInv'
    BY <1>4, DialogsDoneStep, DialogsFailStep DEF Dialogs
  <1>5. CASE UNCHANGED vars
    BY <1>5 DEF vars, IInv, TypeOK, EntryIsOnItsWay, PastAnswers
  <1> QED
    BY <1>1, <1>2, <1>3, <1>4, <1>5, ServerReadsStep, SendReadRequestsTimerStep,
       SendDialogRequestsStep, ServerAnswersStep DEF Next

LEMMA Invariance == Spec => []IInv
  BY InitIsSound, NextIsSound, PTL DEF Spec

\* The fields of every chat and of every request keep their types: numbers of
\* requests stay within bounds although reads are sent without asking.
THEOREM TypesAreKept == Spec => []TypeOK
  <1>1. IInv => TypeOK
    BY DEF IInv
  <1> QED
    BY <1>1, Invariance, PTL

\* No request for history of a chat is out while a deletion of it is not
\* finished, whatever is sent, cancelled, answered or done in rounds.
THEOREM HistoryNeverDuringDeletion == Spec => []NoHistoryDuringDeletion
  <1>1. IInv => NoHistoryDuringDeletion
    BY DEF IInv, Sound, Numbered, History, Deletion, NoHistoryDuringDeletion
  <1> QED
    BY <1>1, Invariance, PTL

\* An entry that is pending or requested is posted, asked for, or held up by
\* a request of the chat: it is never forgotten.
THEOREM EntryAlwaysOnItsWay == Spec => []EntryIsOnItsWay
  <1>1. IInv => EntryIsOnItsWay
    BY DEF IInv
  <1> QED
    BY <1>1, Invariance, PTL

\* The assertions of sendReadRequest() and of the callback of its request.
THEOREM ReadAssertionsHold == Spec => []ReadAssertions
  <1>1. IInv => ReadAssertions
    BY DEF IInv, Sound, Forward, Reads, ReadAssertions, outstanding
  <1> QED
    BY <1>1, Invariance, PTL

\* A position that was sent is in a request that is out, or in an entry that
\* somebody fetches.
THEOREM SentReadAlwaysTracked == Spec => []SentReadIsTracked
  <1>1. IInv => SentReadIsTracked
    BY DEF IInv, Sound, Sending, Fetching, Reads, SentReadIsTracked, outstanding
  <1> QED
    BY <1>1, Invariance, PTL

\* What the user has read is read on the server, refused by it, queued or on
\* its way there.
THEOREM ReadNeverLost == Spec => []ReadIsNotLost
  <1>1. IInv => ReadIsNotLost
    BY DEF IInv, Sound, Kept, Settled, Reads, ReadIsNotLost, outstanding
  <1> QED
    BY <1>1, Invariance, PTL
=============================================================================
