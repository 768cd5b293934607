----------------------------- MODULE CommonUpdates -----------------------------
(***************************************************************************)
(* The common box of Api::Updates (api/api_updates.cpp): containers of     *)
(* updates numbered by seq, single updates numbered by pts, and            *)
(* updates.getDifference, which resynchronises both after a gap, an        *)
(* unknown sender, updatesTooLong or a new server session.                 *)
(*                                                                         *)
(* Two numberings are kept in step here.  A gap in seq puts the whole      *)
(* container into _bySeqUpdates; a gap in pts puts one update into the     *)
(* queue of the PtsWaiter.  While a difference is requested what the       *)
(* server pushes is dropped (mtpUpdateReceived), but what it returns as    *)
(* the result of another request still goes through applyUpdates.          *)
(*                                                                         *)
(* The Updates object is the record st and a method is an operator from    *)
(* the record before the call to the record after it, because the methods  *)
(* call one another in the middle of a handler.  _updatesDate and          *)
(* _updatesQts only travel to the server and back and are left out.        *)
(***************************************************************************)
EXTENDS PtsWaiter, FiniteSets

CONSTANTS
    MaxPts,    \* bound: events with a pts
    MaxSeq,    \* bound: numbered containers
    MaxNet,    \* bound: messages in flight
    MayFail,          \* whether updates.getDifference may end in an RPC error
    MayBeUnhandled,   \* whether the server may give the two answers the code
                      \* has no handler for
    ResultsNumbered   \* whether the result of a request may carry a seq

ASSUME BoundsAssumption == MaxPts \in Nat /\ MaxSeq \in Nat /\ MaxNet \in Nat
ASSUME FlagsAssumption == {MayFail, MayBeUnhandled, ResultsNumbered} \subseteq BOOLEAN

VARIABLES
    st,         \* the Updates object
    net,        \* messages on their way to the client
    serverPts,  \* the account's pts on the server
    serverSeq,  \* the number of the last numbered container
    lostUpTo    \* history: the pts when a server session was last dropped

vars == <<st, net, serverPts, serverSeq, lostUpTo>>

Points(u) == (u.pts - u.count + 1) .. u.pts

(***************************************************************************)
(* A message.  kind "updates" is updates and updatesCombined: containers   *)
(* start .. seq (0 without a seq) with at most one update inside, which is *)
(* a "message" with a pts, a message of a "channel" that is not loaded, or *)
(* something without consequences here.  loaded is FALSE if the message    *)
(* mentions users the client does not know.  via "result" is the answer of *)
(* another request, "push" everything else.                                *)
(***************************************************************************)
Message == [kind : {"updates", "short", "affected", "tooLong", "newSession"},
            via : {"push", "result"}, start : Nat, seq : Nat,
            what : {"message", "channel", "other"},
            pts : Nat, count : Nat, loaded : BOOLEAN]

Plain == [kind |-> "updates", via |-> "push", start |-> 0, seq |-> 0,
          what |-> "other", pts |-> 0, count |-> 0, loaded |-> TRUE]

\* state and difference are the two requests; slice and difference two of
\* the answers (an answer of kind state is that of updates.getState).
\* A request that is "stuck" has ended in a way nobody handles.
Difference == [state : {"none", "sent", "answered", "failed", "stuck"},
               kind : {"state", "empty", "slice", "difference"},
               pts : Nat, seq : Nat]
NoDiff == [state |-> "none", kind |-> "empty", pts |-> 0, seq |-> 0]

(***************************************************************************)
(*   box        _ptsWaiter, its timer _getDifferenceTimeByPts              *)
(*   seq, bySeq _updatesSeq, _bySeqUpdates                                 *)
(*   seqTimer, minTimer, afterFail                                         *)
(*              _bySeqTimer, _byMinChannelTimer, _getDifferenceTimeAfterFail*)
(*   diff       the outstanding request                                    *)
(*   known, knownSeq                                                       *)
(*              history: events and containers the client has applied      *)
(***************************************************************************)
Updates == [box : Waiter, seq : Nat, bySeq : SUBSET Message,
            seqTimer : BOOLEAN, minTimer : BOOLEAN, afterFail : BOOLEAN,
            diff : Difference, known : SUBSET Int, knownSeq : SUBSET Int]

\* The constructor raises _requesting and sends updates.getState.
NewUpdates == [box |-> setRequesting(NewWaiter, TRUE), seq |-> 0, bySeq |-> {},
               seqTimer |-> FALSE, minTimer |-> FALSE, afterFail |-> FALSE,
               diff |-> [NoDiff EXCEPT !.state = "sent", !.kind = "state"],
               known |-> {}, knownSeq |-> {}]

Init ==
    /\ st = NewUpdates
    /\ net = {}
    /\ serverPts = 1
    /\ serverSeq = 1
    /\ lostUpTo = 0

-----------------------------------------------------------------------------
(* Methods that other methods call.                                        *)

requestingDifference(s) == s.box.requesting

getDifference(s) ==
    LET t == [s EXCEPT !.box.timer = FALSE] IN
    IF requestingDifference(t) THEN t
    ELSE [t EXCEPT !.bySeq = {}, !.seqTimer = FALSE, !.afterFail = FALSE,
                   !.box = setRequesting(t.box, TRUE),
                   !.diff = [NoDiff EXCEPT !.state = "sent", !.pts = t.box.good]]

\* updateAndApply() with an update, and with an event applied by the caller.
loadedBefore(s, pts) ==
    IF requestingDifference(s) \/ inited(s.box) THEN {} ELSE 1 .. pts

applyUpdate(s, m) ==
    LET u == [pts |-> m.pts, count |-> m.count] IN
    [s EXCEPT !.box = updateAndApply(s.box, u),
              !.known = s.known \cup loadedBefore(s, m.pts)
                        \cup UNION {Points(v) : v \in applied(s.box, u)}]

applyPts(s, m) ==
    [s EXCEPT !.box = updateAndApplyPts(s.box, m.pts, m.count),
              !.known = s.known \cup loadedBefore(s, m.pts) \cup Points(m)
                        \cup UNION {Points(v) : v \in appliedByPts(s.box, m.pts, m.count)}]

feedUpdate(s, m) ==
    CASE m.what = "message" /\ (m.loaded \/ requestingDifference(s)) -> applyUpdate(s, m)
      [] m.what = "message" /\ ~(m.loaded \/ requestingDifference(s)) -> getDifference(s)
      [] m.what = "channel" -> [s EXCEPT !.minTimer = s.minTimer \/ ~requestingDifference(s)]
      [] OTHER -> s

\* The updates of a container are fed, then its seq is adopted.
consume(s, m) ==
    LET t == feedUpdate(s, m) IN
    IF m.seq = 0 THEN t
    ELSE [t EXCEPT !.seq = m.seq, !.seqTimer = FALSE,
                   !.knownSeq = t.knownSeq \cup (m.start .. m.seq)]

(***************************************************************************)
(* setState(), the loop over _bySeqUpdates: containers up to the new seq   *)
(* are erased, the ones that follow it without a gap are applied (there    *)
(* the loop calls applyUpdates(), which calls setState() last), and the    *)
(* first gap starts the timer.  A container may send a getDifference()     *)
(* request, which clears the map under the loop.                           *)
(***************************************************************************)
\* A plausible slip: the loop leaves at the gap without starting the timer.
gapFoundQuietly(s) == s

gapFound(s) == [s EXCEPT !.seqTimer = TRUE]

front(s) == CHOOSE m \in s.bySeq : \A n \in s.bySeq : m.start <= n.start

\* One turn of the loop; it stays where it is at a gap and at the end.
turn[s \in Updates] ==
    LET m == front(s)
        t == [s EXCEPT !.bySeq = s.bySeq \ {m}]
    IN  IF s.bySeq = {} \/ m.start > s.seq + 1 THEN s
        ELSE IF m.start = s.seq + 1 THEN consume(t, m) ELSE t

drain(s) ==
    LET turns == Cardinality(s.bySeq)
        after[n \in 0 .. turns] == IF n = 0 THEN s ELSE turn[after[n - 1]]
    IN  IF after[turns].bySeq = {} THEN after[turns] ELSE gapFound(after[turns])

setState(s, pts, seq) ==
    LET t == IF pts = 0 THEN s ELSE [s EXCEPT !.box = init(s.box, pts)] IN
    IF seq = 0 \/ seq = t.seq THEN t
    ELSE drain([t EXCEPT !.seq = seq, !.seqTimer = FALSE])

\* A plausible slip: only older containers are told apart, a gap is applied.
followsNotOlder(s, m) == TRUE

follows(s, m) == m.start <= s.seq + 1

\* applyUpdates(): updates, updatesCombined, the updateShort* family and
\* updatesTooLong.
applyUpdates(s, m) ==
    CASE m.kind = "tooLong" -> getDifference(s)
      [] m.kind = "short" -> IF m.loaded THEN applyUpdate(s, m) ELSE getDifference(s)
      [] m.kind = "updates" /\ m.seq # 0 /\ m.start <= s.seq -> s
      [] m.kind = "updates" /\ m.seq # 0 /\ ~follows(s, m) ->
           [s EXCEPT !.bySeq = s.bySeq \cup {m}, !.seqTimer = TRUE]
      [] m.kind = "updates" /\ (m.seq = 0 \/ (m.start > s.seq /\ follows(s, m))) ->
           IF m.seq = 0 THEN feedUpdate(s, m) ELSE drain(consume(s, m))

-----------------------------------------------------------------------------
(* Handlers: one event of the main loop each.                              *)

Delivered(m) ==
    /\ m \in net
    /\ net' = net \ {m}
    /\ UNCHANGED <<serverPts, serverSeq, lostUpTo>>

\* A push is ignored while a difference is requested.
mtpUpdateReceived ==
    \E m \in net :
        /\ m.via = "push" /\ m.kind # "newSession"
        /\ Delivered(m)
        /\ st' = IF requestingDifference(st) THEN st ELSE applyUpdates(st, m)

\* ApiWrap::applyUpdates(), called with the result of a request: a container,
\* or updateShortSentMessage.
applyResult ==
    \E m \in net :
        /\ m.via = "result" /\ m.kind \in {"updates", "short"}
        /\ Delivered(m)
        /\ st' = applyUpdates(st, m)

\* messages.affectedMessages and messages.affectedHistory: the effect of the
\* event is the caller's.
applyAffected ==
    \E m \in net :
        /\ m.kind = "affected"
        /\ Delivered(m)
        /\ st' = applyPts(st, m)

\* A plausible slip: the new session only forgets the seq.
newSessionForgets(s) == [s EXCEPT !.seq = 0]

newSessionState(s) == getDifference([s EXCEPT !.seq = 0])

mtpNewSessionCreated ==
    \E m \in net :
        /\ m.kind = "newSession"
        /\ Delivered(m)
        /\ st' = newSessionState(st)

\* What an answer brings besides the state it ends with: the events after
\* the requested pts, and whatever the numbered containers up to seq did.
fed(s, d) ==
    [s EXCEPT !.known = s.known \cup
                  (CASE d.kind = "state" -> 1 .. d.pts
                     [] d.kind \in {"slice", "difference"} -> (s.box.good + 1) .. d.pts
                     [] OTHER -> {}),
              !.knownSeq = s.knownSeq \cup (1 .. d.seq)]

finished(s) == [s EXCEPT !.box = setRequesting(s.box, FALSE), !.diff = NoDiff]

stateOf(s, d) == setState(s, IF d.kind = "empty" THEN s.box.good ELSE d.pts, d.seq)

\* stateDone() and differenceDone(): the state is adopted first, with
\* _requesting still set, so that what leaves _bySeqUpdates is not counted.
differenceDone ==
    /\ st.diff.state = "answered"
    /\ LET s == finished(stateOf(fed(st, st.diff), st.diff)) IN
       st' = IF st.diff.kind = "slice" THEN getDifference(s) ELSE s
    /\ UNCHANGED <<net, serverPts, serverSeq, lostUpTo>>

differenceFail ==
    /\ MayFail
    /\ st.diff.state = "sent" /\ st.diff.kind # "state"
    /\ st' = [st EXCEPT !.diff.state = "failed", !.afterFail = TRUE]
    /\ UNCHANGED <<net, serverPts, serverSeq, lostUpTo>>

Fired == UNCHANGED <<net, serverPts, serverSeq, lostUpTo>>

\* updates.getState has no fail handler, and differenceDone() only logs an
\* updates.differenceTooLong: _requesting stays set.
differenceUnhandled ==
    /\ MayBeUnhandled
    /\ st.diff.state = "sent"
    /\ st' = [st EXCEPT !.diff.state = "stuck"]
    /\ UNCHANGED <<net, serverPts, serverSeq, lostUpTo>>

getDifferenceByPts == st.box.timer /\ st' = getDifference(st) /\ Fired

bySeqTimer ==
    st.seqTimer /\ st' = getDifference([st EXCEPT !.seqTimer = FALSE]) /\ Fired

byMinChannelTimer ==
    st.minTimer /\ st' = getDifference([st EXCEPT !.minTimer = FALSE]) /\ Fired

\* A plausible slip, the one of the channel's half of this function: the flag
\* of the failed request is still set when the request is made again.
afterFailStateStuck(s) == getDifference(s)

afterFailState(s) == getDifference([s EXCEPT !.box = setRequesting(s.box, FALSE)])

getDifferenceAfterFail == st.afterFail /\ st' = afterFailState(st) /\ Fired

-----------------------------------------------------------------------------
(* The server and the transport (external).                                *)

HasRoom == Cardinality(net) < MaxNet

Contents ==
    {[Plain EXCEPT !.what = "other"], [Plain EXCEPT !.what = "channel"],
     [Plain EXCEPT !.what = "message", !.count = 1],
     [Plain EXCEPT !.what = "message", !.count = 1, !.loaded = FALSE]}

\* A container, numbered n times (twice for updatesCombined) or not at all.
ServerUpdates ==
    \E c \in Contents, n \in 0 .. 2, via \in {"push", "result"} :
        /\ HasRoom
        /\ via = "result" /\ n > 0 => ResultsNumbered
        /\ serverPts + c.count <= MaxPts /\ serverSeq + n <= MaxSeq
        /\ serverPts' = serverPts + c.count
        /\ serverSeq' = serverSeq + n
        /\ net' = net \cup {[c EXCEPT !.via = via, !.pts = serverPts',
                                      !.start = IF n = 0 THEN 0 ELSE serverSeq + 1,
                                      !.seq = IF n = 0 THEN 0 ELSE serverSeq']}
        /\ UNCHANGED <<st, lostUpTo>>

\* A message of the short kinds, the answer to one that the client has sent
\* (which mentions nobody new), or a result that names a pts.
ServerShort ==
    \E kind \in {"short", "affected"}, via \in {"push", "result"}, loaded \in BOOLEAN :
        /\ HasRoom
        /\ serverPts < MaxPts
        /\ kind = "affected" => via = "result"
        /\ via = "result" => loaded
        /\ serverPts' = serverPts + 1
        /\ net' = net \cup {[Plain EXCEPT !.kind = kind, !.pts = serverPts', !.count = 1,
                               !.what = "message", !.loaded = loaded, !.via = via]}
        /\ UNCHANGED <<st, serverSeq, lostUpTo>>

ServerTooLong ==
    /\ HasRoom
    /\ net' = net \cup {[Plain EXCEPT !.kind = "tooLong"]}
    /\ UNCHANGED <<st, serverPts, serverSeq, lostUpTo>>

ServerAnswer ==
    /\ st.diff.state = "sent"
    /\ \E kind \in {"state", "empty", "slice", "difference"}, pts \in 1 .. serverPts :
        /\ (kind = "state") = (st.diff.kind = "state")
        /\ kind = "empty" => pts = st.diff.pts
        /\ kind \in {"state", "empty", "difference"} => pts = serverPts
        /\ kind = "slice" => st.diff.pts < pts /\ pts < serverPts
        /\ kind = "difference" => st.diff.pts < pts
        /\ st' = [st EXCEPT !.diff = [state |-> "answered", kind |-> kind,
                                      pts |-> pts, seq |-> serverSeq]]
    /\ UNCHANGED <<net, serverPts, serverSeq, lostUpTo>>

\* The server has forgotten the session: what it had pushed is lost, and the
\* unanswered requests are sent again by the transport.
ServerNewSession ==
    /\ net' = {m \in net : m.via = "result"} \cup {[Plain EXCEPT !.kind = "newSession"]}
    /\ Cardinality(net') <= MaxNet
    /\ lostUpTo' = serverPts
    /\ st' = IF st.diff.state # "answered" THEN st
             ELSE [st EXCEPT !.diff.state = "sent", !.diff.pts = st.box.good]
    /\ UNCHANGED <<serverPts, serverSeq>>

-----------------------------------------------------------------------------
Handlers ==
    \/ mtpUpdateReceived \/ applyResult \/ applyAffected \/ mtpNewSessionCreated
    \/ differenceDone \/ differenceFail \/ differenceUnhandled
    \/ getDifferenceByPts \/ bySeqTimer \/ byMinChannelTimer \/ getDifferenceAfterFail

Server ==
    \/ ServerUpdates \/ ServerShort \/ ServerTooLong \/ ServerAnswer \/ ServerNewSession

Next == Handlers \/ Server

Spec == Init /\ [][Next]_vars

(***************************************************************************)
(* Armed timers fire, the notice of a new session arrives, a request that  *)
(* is made again and again is answered some day and the answer is handled. *)
(***************************************************************************)
Fairness ==
    /\ WF_vars(getDifferenceByPts) /\ WF_vars(getDifferenceAfterFail)
    /\ WF_vars(bySeqTimer) /\ WF_vars(mtpNewSessionCreated)
    /\ SF_vars(ServerAnswer) /\ SF_vars(differenceDone)

FairSpec == Spec /\ Fairness

-----------------------------------------------------------------------------
(* Properties.                                                             *)

\* The Updates object, the messages and the server's numbers have their types.
TypeOK ==
    /\ st \in Updates
    /\ net \subseteq Message
    /\ serverPts \in Nat /\ serverSeq \in Nat /\ lostUpTo \in Nat

\* Every event up to the pts the client reports is applied: an update that is
\* dropped while a difference is requested, applied uncounted as the result
\* of another request, or drained with a container, never lets _good pass it.
NoSilentLoss == 1 .. st.box.good \subseteq st.known

Log == INSTANCE EventLog WITH total <- serverPts, known <- st.known, good <- st.box.good

\* The account's box is a client of the abstract log: _good never moves back,
\* never passes the server's pts nor an event that is not applied.
ImplementsEventLog == Log!Spec

\* _updatesSeq passes no container that was neither applied nor made up for
\* by a difference.
NoSkippedContainer == 1 .. st.seq \subseteq st.knownSeq

\* api_updates.h: "growing timeout for getDifference calls, if it fails": a
\* failed request is made again.
FailedIsRetried == (st.diff.state = "failed") ~> (st.diff.state = "sent")

\* The request has ended in a way nobody handles: all pushes are dropped for
\* ever, which the next properties except.
Deaf == st.diff.state = "stuck"

\* What was pushed into a session the server has forgotten is fetched:
\* mtpNewSessionCreated() asks for a difference, or one is already on its way.
LostIsFetched == []<>(st.box.good >= lostUpTo \/ Deaf)

\* An update that PtsWaiter postponed is eventually applied or fetched.
QueuedIsApplied ==
    \A p \in 1 .. MaxPts :
        (\E u \in st.box.queue : p \in Points(u)) ~> (p \in st.known \/ Deaf)

Queued(n) == \E m \in st.bySeq : n \in m.start .. m.seq

\* The containers in _bySeqUpdates wait and _bySeqTimer does not run.
Unwatched == st.bySeq # {} /\ ~st.seqTimer

\* A container in _bySeqUpdates that the timer watches is eventually applied or
\* made up for by a difference: what the draining loop leaves behind a gap, a
\* getDifference() from inside of it, a failure and a lost session included
\* (container 1 precedes the start).  The exception is what WaitForSkippedEnds
\* is about: the timer that fires while a difference is requested (containers
\* come as results then) does nothing, and what it watched waits for the next
\* numbered container or the next difference.
ContainerIsApplied ==
    \A n \in 2 .. MaxSeq :
        (Queued(n) /\ st.seqTimer)
            ~> (n \in st.knownSeq \/ Deaf \/ (Unwatched /\ requestingDifference(st)))

\* Containers lose their timer in no other way: neither the loop of setState(),
\* which cancels it and may be interrupted by getDifference(), nor an answer
\* leaves a container behind without starting it again.
GapIsWatched ==
    [][Unwatched' => Unwatched \/ (bySeqTimer /\ requestingDifference(st))]_vars

\* data_pts_waiter.h: "1s wait for skipped seq or pts in updates": the wait of
\* a container in _bySeqUpdates ends, whether or not the server sends more.
WaitForSkippedEnds ==
    \A n \in 2 .. MaxSeq : Queued(n) ~> (~Queued(n) \/ net # {})
=============================================================================
