-------------------------- MODULE ChannelDifference --------------------------
(***************************************************************************)
(* How Api::Updates (api/api_updates.cpp) keeps one channel synchronised:  *)
(* pushed updates go through the channel's PtsWaiter, a gap or an open     *)
(* chat arms a timer, the timer asks for updates.getChannelDifference and  *)
(* the answer resets the waiter.  The client is single threaded (the main  *)
(* thread's event loop), so one handler is one action.  What interleaves   *)
(* is the network: pushes are lost and reordered, RPC answers are delayed, *)
(* and the server moves on between computing an answer and its delivery.   *)
(*                                                                         *)
(* Events of the channel are the numbers 1, 2, 3, ... (its pts).  An       *)
(* update with pts p and count c stands for the events p-c+1 .. p.  The    *)
(* transport delivers a message at most once: MTP::details::               *)
(* ReceivedIdsManager drops repeated message ids.                          *)
(***************************************************************************)
EXTENDS PtsWaiter, FiniteSets

CONSTANTS
    MaxPts,    \* bound: events the server ever creates in the channel
    MaxCount,  \* bound: events one update may stand for
    MaxNet,    \* bound: messages in flight
    Answers,   \* the kinds of answer the server gives to a difference request
    MayFail    \* whether a difference request may end in an RPC error

AnswerKinds == {"empty", "difference", "tooLong", "tooLongNoPts"}

ASSUME BoundsAssumption ==
    /\ MaxPts \in Nat \ {0}
    /\ MaxCount \in Nat
    /\ MaxNet \in Nat
ASSUME AnswersAssumption == Answers \subseteq AnswerKinds
ASSUME MayFailAssumption == MayFail \in BOOLEAN

VARIABLES
    box,        \* the ChannelData's _ptsWaiter and its _whenGetDiffByPts entry
    afterFail,  \* the channel has an entry in _whenGetDiffAfterFail
    active,     \* the channel is the peer of some _activeChats entry
    diff,       \* the latest getChannelDifference request and its fate
    net,        \* messages on their way to the client
    serverPts,  \* the channel's pts on the server
    ends,       \* server: the pts values at which some update ends
    known,      \* history: events whose effect the client has applied
    counted     \* history: events counted by check() since _good last moved

clientVars == <<box, afterFail, active, diff, known, counted>>
vars == <<box, afterFail, active, diff, net, serverPts, ends, known, counted>>

Kinds == {"update", "affected", "seen", "tooLong"}
Message == [kind : Kinds, pts : Nat, count : Nat]

Points(u) == (u.pts - u.count + 1) .. u.pts

DiffStates == {"none", "sent", "answered", "failed"}
Difference == [state : DiffStates, kind : AnswerKinds, pts : Nat, final : BOOLEAN]
NoDiff == [state |-> "none", kind |-> "empty", pts |-> 0, final |-> TRUE]

(***************************************************************************)
(* The channel may be known with a pts already (from its dialog) or not.   *)
(***************************************************************************)
Init ==
    /\ box \in {NewWaiter, init(NewWaiter, 1)}
    /\ afterFail = FALSE
    /\ active = FALSE
    /\ diff = NoDiff
    /\ net = {}
    /\ serverPts = 1
    /\ ends = {1}
    /\ known = 1 .. box.good
    /\ counted = {}

-----------------------------------------------------------------------------
(* getChannelDifference(channel, from), called with the box b, the         *)
(* after-fail entry a and the request d as the handler has left them so    *)
(* far.  The force flag only hints at the server's rate limits and is left *)
(* out.                                                                    *)

mayRequest(b) == inited(b) /\ ~b.requesting

forgetTimer(b, from) ==
    [b EXCEPT !.timer = b.timer /\ from = "PtsGapOrShortPoll"]

getChannelDifference(b, a, d, from) ==
    IF mayRequest(b)
    THEN /\ box' = setRequesting(forgetTimer(b, from), TRUE)
         /\ afterFail' = (a /\ from = "AfterFail")
         /\ diff' = [NoDiff EXCEPT !.state = "sent", !.pts = b.good]
    ELSE /\ box' = forgetTimer(b, from)
         /\ afterFail' = a
         /\ diff' = d

-----------------------------------------------------------------------------
(* Handlers of what the network delivers.                                  *)

\* Events from before the first pts the client learns come with the history
\* the client loads, not with updates.
loadedBefore(pts) == IF inited(box) THEN {} ELSE 1 .. pts

countedAfter(pts, count) ==
    IF box.requesting \/ stale(box, pts, count) THEN counted
    ELSE IF ~inited(box) \/ caughtUp(box, pts, count) THEN {}
    ELSE counted \cup Points([pts |-> pts, count |-> count])

\* feedUpdate(): updateNewChannelMessage, updateEditChannelMessage,
\* updatePinnedChannelMessages and updateDeleteChannelMessages.
feedChannelUpdate ==
    \E m \in net :
        /\ m.kind = "update"
        /\ net' = net \ {m}
        /\ LET u == [pts |-> m.pts, count |-> m.count] IN
           IF box.requesting
           THEN UNCHANGED <<box, known, counted>>
           ELSE /\ box' = updateAndApply(box, u)
                /\ known' = known \cup loadedBefore(u.pts)
                                  \cup UNION {Points(v) : v \in applied(box, u)}
                /\ counted' = countedAfter(u.pts, u.count)
        /\ UNCHANGED <<afterFail, active, diff, serverPts, ends>>

\* ptsUpdateAndApply(pts, count) and ptsReceived(pts): an RPC answer names
\* the pts, the effect on the messages is the caller's.
feedPts(kind) ==
    \E m \in net :
        /\ m.kind = kind
        /\ net' = net \ {m}
        /\ box' = updateAndApplyPts(box, m.pts, m.count)
        /\ known' = known \cup loadedBefore(m.pts) \cup Points(m)
                          \cup UNION {Points(v) : v \in appliedByPts(box, m.pts, m.count)}
        /\ counted' = countedAfter(m.pts, m.count)
        /\ UNCHANGED <<afterFail, active, diff, serverPts, ends>>

applyAffected == feedPts("affected")

ptsReceived == feedPts("seen")

\* pts = 0 stands for an updateChannelTooLong without the optional pts.
updateChannelTooLong ==
    \E m \in net :
        /\ m.kind = "tooLong"
        /\ net' = net \ {m}
        /\ IF m.pts = 0 \/ box.good < m.pts
           THEN getChannelDifference(box, afterFail, diff, "Unknown")
           ELSE UNCHANGED <<box, afterFail, diff>>
        /\ UNCHANGED <<active, serverPts, ends, known, counted>>

-----------------------------------------------------------------------------
(* The answer to a difference request.                                     *)

\* feedChannelDifference() applies what the difference carries; for TooLong
\* the history is marked not loaded at the bottom and is loaded again.
fedBy(d) == CASE d.kind = "difference" -> (box.good + 1) .. d.pts
              [] d.kind \in {"tooLong", "tooLongNoPts"} -> 1 .. d.pts
              [] OTHER -> {}

\* applyDialogs() ends in ptsReceived(), with _requesting still set: all that
\* is left of it is applySkippedUpdates().
resynced(b, d) ==
    CASE d.kind = "tooLong" -> applySkippedUpdates(init(b, d.pts))
      [] d.kind = "tooLongNoPts" -> b
      [] OTHER -> init(b, d.pts)

\* A plausible slip: an open chat does not go back to short polling.
afterFinalNoPoll(b) == b

afterFinal(b) == IF active THEN waitForShortPoll(b) ELSE b

channelDifferenceDone ==
    /\ diff.state = "answered"
    /\ LET b == setRequesting(resynced(box, diff), FALSE) IN
       \/ /\ ~diff.final
          /\ getChannelDifference(b, afterFail, NoDiff, "Unknown")
       \/ /\ diff.final
          /\ box' = afterFinal(b)
          /\ diff' = NoDiff
          /\ UNCHANGED afterFail
    /\ known' = known \cup fedBy(diff)
    /\ counted' = IF diff.kind = "tooLongNoPts" THEN counted ELSE {}
    /\ UNCHANGED <<active, net, serverPts, ends>>

\* The RPC error arms the after-fail entry; _requesting stays as it is.
channelDifferenceFail ==
    /\ MayFail
    /\ diff.state = "sent"
    /\ diff' = [diff EXCEPT !.state = "failed"]
    /\ afterFail' = TRUE
    /\ UNCHANGED <<box, active, net, serverPts, ends, known, counted>>

-----------------------------------------------------------------------------
(* Timers: getDifferenceByPts() and getDifferenceAfterFail() call          *)
(* getChannelDifference() and erase the entry that was due.                *)

getDifferenceByPts ==
    /\ box.timer
    /\ getChannelDifference([box EXCEPT !.timer = FALSE], afterFail, diff, "PtsGapOrShortPoll")
    /\ UNCHANGED <<active, net, serverPts, ends, known, counted>>

getDifferenceAfterFail ==
    /\ afterFail
    /\ getChannelDifference(box, FALSE, diff, "AfterFail")
    /\ UNCHANGED <<active, net, serverPts, ends, known, counted>>

-----------------------------------------------------------------------------
(* The user: opening and closing the chat (addActiveChat) and leaving the  *)
(* channel (ApiWrap::deleteHistory).                                       *)

openChat ==
    /\ active' = TRUE
    /\ box' = waitForShortPoll(box)
    /\ UNCHANGED <<afterFail, diff, net, serverPts, ends, known, counted>>

closeChat ==
    /\ active
    /\ active' = FALSE
    /\ UNCHANGED <<box, afterFail, diff, net, serverPts, ends, known, counted>>

deleteHistory ==
    /\ box' = stopWaitingForShortPoll(box)
    /\ UNCHANGED <<afterFail, active, diff, net, serverPts, ends, known, counted>>

-----------------------------------------------------------------------------
(* The server and the network (external).                                  *)

Send(m) == net' = net \cup {m}

HasRoom == Cardinality(net) < MaxNet

\* Something happens in the channel: pushed to this client, or the answer to
\* a request this client made.
ServerPost ==
    \E kind \in {"update", "affected"}, count \in 1 .. MaxCount :
        /\ HasRoom
        /\ serverPts + count <= MaxPts
        /\ serverPts' = serverPts + count
        /\ ends' = ends \cup {serverPts'}
        /\ Send([kind |-> kind, pts |-> serverPts', count |-> count])
        /\ UNCHANGED clientVars

\* Messages that create no event: an update with a zero pts_count, an answer
\* that mentions the current pts, a hint that the client is behind.
ServerMention ==
    \E m \in [kind : {"update", "seen"}, pts : {serverPts}, count : {0}]
              \cup [kind : {"tooLong"}, pts : {0, serverPts}, count : {0}] :
        /\ HasRoom
        /\ m \notin net
        /\ Send(m)
        /\ UNCHANGED <<clientVars, serverPts, ends>>

ServerAnswer ==
    /\ diff.state = "sent"
    /\ \E kind \in Answers, pts \in ends, final \in BOOLEAN :
        /\ kind = "empty" => pts = diff.pts /\ pts = serverPts /\ final
        /\ kind = "difference" => pts > diff.pts /\ final = (pts = serverPts)
        /\ kind \in {"tooLong", "tooLongNoPts"} => pts = serverPts
        /\ diff' = [state |-> "answered", kind |-> kind, pts |-> pts, final |-> final]
    /\ UNCHANGED <<box, afterFail, active, net, serverPts, ends, known, counted>>

\* A push does not survive a broken connection; RPC answers are sent again.
Lose ==
    \E m \in net :
        /\ m.kind \in {"update", "tooLong"}
        /\ net' = net \ {m}
        /\ UNCHANGED <<clientVars, serverPts, ends>>

-----------------------------------------------------------------------------
Handlers ==
    \/ feedChannelUpdate \/ applyAffected \/ ptsReceived \/ updateChannelTooLong
    \/ channelDifferenceDone \/ channelDifferenceFail
    \/ getDifferenceByPts \/ getDifferenceAfterFail

User == openChat \/ closeChat \/ deleteHistory

Server == ServerPost \/ ServerMention \/ ServerAnswer

Next == Handlers \/ User \/ Server \/ Lose

Spec == Init /\ [][Next]_vars

(***************************************************************************)
(* An armed timer fires, a request reaches its end and the client handles  *)
(* the answer: base::Timer and the MTProto session guarantee no more, and  *)
(* nothing is assumed of the user, of pushes or of when the server posts.  *)
(***************************************************************************)
Fairness ==
    /\ WF_vars(getDifferenceByPts)
    /\ WF_vars(getDifferenceAfterFail)
    /\ WF_vars(ServerAnswer)
    /\ WF_vars(channelDifferenceDone)

FairSpec == Spec /\ Fairness
-----------------------------------------------------------------------------
(* Properties.                                                             *)

\* Every variable has its type: the PtsWaiter members, the request and the
\* messages of Api::Updates are what their declarations say.
TypeOK ==
    /\ box \in Waiter
    /\ afterFail \in BOOLEAN
    /\ active \in BOOLEAN
    /\ diff \in Difference
    /\ net \subseteq Message
    /\ serverPts \in Nat
    /\ ends \subseteq Nat
    /\ known \subseteq Int
    /\ counted \subseteq Int

\* PtsWaiter::check() moves _good only over events the client has really
\* applied: whatever is lost, reordered, postponed or skipped while a
\* difference is requested, every event up to _good is known to the client.
NoSilentLoss == 1 .. box.good \subseteq known

\* An event that check() counted but the client has not applied yet is still
\* in _queue, unless a difference that will bring it is being requested: the
\* queue is never cleared over events that have already been counted.
PostponedIsKept ==
    ~box.requesting =>
        counted \subseteq known \cup UNION {Points(u) : u \in box.queue}

\* An update postponed by PtsWaiter::updated() always has somebody to come
\* back for it: _waitingForSkipped is set, and the channel's entry in
\* _whenGetDiffByPts is there.
QueuedIsTimed == box.queue # {} => box.skipped /\ box.timer

-----------------------------------------------------------------------------
(* Why NoSilentLoss holds.  _last = _count is a statement about numbers;   *)
(* it means that nothing is missing because every event is counted once:   *)
(* _count is _good plus the number of distinct events counted, all of them *)
(* between _good and _last, and no message in flight repeats one of them.  *)

\* _count is exact.
Accounting ==
    /\ IsFiniteSet(counted)
    /\ counted \subseteq (box.good + 1) .. box.last
    /\ box.count = box.good + Cardinality(counted)
    /\ box.good <= box.last
    /\ box.last <= serverPts

\* No two messages stand for the same event, and none for a counted one.
CarriedOnce ==
    /\ \A m \in net : Points(m) \cap counted = {}
    /\ \A m, n \in net : m # n => Points(m) \cap Points(n) = {}

\* Every pts the client meets is the end of an update: no update straddles it.
AtEnds ==
    /\ serverPts \in ends
    /\ \A e \in ends : 1 <= e /\ e <= serverPts
    /\ box.good \in ends \cup {0}
    /\ box.last \in ends \cup {0}
    /\ \A m \in net : m.count > 0 => \A e \in ends \cup {0} :
           e >= m.pts \/ e <= m.pts - m.count
    /\ \A m \in net : m.kind # "tooLong" => m.pts \in ends
    /\ \A m \in net : m.kind = "tooLong" => m.count = 0

\* The request is made from _good, and its answer does not lag behind it.
DiffAgrees ==
    /\ diff.state \in {"sent", "answered", "failed"} <=> box.requesting
    /\ diff.state \in {"sent", "answered"} => inited(box)
    /\ diff.state = "sent" => diff.pts = box.good
    /\ diff.state = "answered" =>
          /\ diff.pts \in ends
          /\ diff.pts >= box.good
          /\ diff.kind = "empty" => diff.pts = box.good
          /\ diff.kind = "tooLongNoPts" => diff.pts >= box.last
    /\ box.requesting => box.queue = {}

\* Before the first pts the waiter is empty.
Fresh ==
    ~inited(box) => box.last = 0 /\ box.count = 0 /\ box.queue = {} /\ counted = {}

Inductive ==
    /\ TypeOK
    /\ NoSilentLoss
    /\ PostponedIsKept
    /\ box.queue # {} => box.skipped
    /\ Accounting
    /\ CarriedOnce
    /\ AtEnds
    /\ DiffAgrees
    /\ Fresh

-----------------------------------------------------------------------------
(* Action and liveness properties.                                         *)

Log == INSTANCE EventLog WITH total <- serverPts, good <- box.good

\* The channel is a client of the abstract log: the pts from which the next
\* difference is requested never moves back (an answer never undoes what
\* updates reached meanwhile), never passes the server's, never passes an
\* event that is not applied, and nothing that was applied is forgotten.
ImplementsEventLog == Log!Spec

\* An update that PtsWaiter postponed is eventually applied, or fetched with
\* the difference that cleared the queue, unless that request fails.
QueuedIsApplied ==
    \A p \in 1 .. MaxPts :
        (\E u \in box.queue : p \in Points(u))
            ~> (p \in known \/ diff.state = "failed")

\* While the chat of a channel whose pts was known stays open, the client
\* comes to know every event of the server, even if every push is lost:
\* channelDifferenceDone() goes back to short polling after each answer.
OpenChatCatchesUp ==
    inited(box) /\ <>[](active /\ box.shortPoll /\ diff.state # "failed")
        => []<>(1 .. serverPts \subseteq known)

\* api_updates.h: "growing timeout for getChannelDifference calls, if it
\* fails": a failed request is eventually made again.
FailedIsRetried == (diff.state = "failed") ~> (diff.state = "sent")
=============================================================================
