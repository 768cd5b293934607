------------------------------ MODULE PtsWaiter ------------------------------
(***************************************************************************)
(* The class PtsWaiter (data/data_pts_waiter.{h,cpp}): the client-side     *)
(* bookkeeping of one "pts box".  The server numbers the events of a box   *)
(* with pts; an update carries the pts reached after it and the count of   *)
(* events it stands for.  The waiter recognises a missing update by        *)
(* comparing the largest pts seen (last) with the number of events         *)
(* received (count), postpones what arrived after a gap in a queue and     *)
(* asks its owner, Api::Updates, for a timer.                              *)
(*                                                                         *)
(* The object is a record; each method is an operator from the record      *)
(* before the call to the record after it.  What a method hands to         *)
(* applyUpdateNoPtsCheck / applyUpdatesNoPtsCheck is a second operator,    *)
(* the set of updates applied by the call (the queue is a map ordered by   *)
(* pts, and one call applies a whole prefix of it, so the set is enough).  *)
(*                                                                         *)
(*   good, last, count    _good, _last, _count                             *)
(*   queue                _queue with _updateQueue and _updatesQueue       *)
(*   requesting           _requesting                                      *)
(*   skipped, shortPoll   _waitingForSkipped, _waitingForShortPoll         *)
(*   timer                the owner's entry for this box: an element of    *)
(*                        _whenGetDiffByPts, or _getDifferenceTimeByPts    *)
(*                                                                         *)
(* _applySkippedLevel is zero between two calls and is not represented;    *)
(* the duration of a timer is abstracted, an armed timer may fire any time.*)
(***************************************************************************)
EXTENDS Integers

Update == [pts : Nat, count : Nat]

Waiter == [good : Nat, last : Nat, count : Nat, queue : SUBSET Update,
           requesting : BOOLEAN, skipped : BOOLEAN, shortPoll : BOOLEAN,
           timer : BOOLEAN]

NewWaiter == [good |-> 0, last |-> 0, count |-> 0, queue |-> {},
              requesting |-> FALSE, skipped |-> FALSE, shortPoll |-> FALSE,
              timer |-> FALSE]

inited(w) == w.good > 0

init(w, pts) ==
    [w EXCEPT !.good = pts, !.last = pts, !.count = pts, !.queue = {}]

setRequesting(w, isRequesting) ==
    [w EXCEPT !.requesting = isRequesting,
              !.queue = IF isRequesting THEN {} ELSE w.queue]

\* ptsWaiterStartTimerFor(channel, -1), unless the other reason still holds.
checkForWaiting(w) ==
    [w EXCEPT !.timer = w.timer /\ (w.skipped \/ w.shortPoll)]

waitForSkipped(w) == [w EXCEPT !.skipped = TRUE, !.timer = TRUE]

stopWaitingForSkipped(w) == checkForWaiting([w EXCEPT !.skipped = FALSE])

waitForShortPoll(w) == [w EXCEPT !.shortPoll = TRUE, !.timer = TRUE]

stopWaitingForShortPoll(w) == checkForWaiting([w EXCEPT !.shortPoll = FALSE])

(***************************************************************************)
(* check(): FALSE is "save that update and apply later".                   *)
(***************************************************************************)
Larger(a, b) == IF a >= b THEN a ELSE b

advanced(w, pts, count) ==
    [w EXCEPT !.last = Larger(w.last, pts), !.count = w.count + count]

caughtUp(w, pts, count) == Larger(w.last, pts) = w.count + count

\* A plausible slip: _good follows the largest pts seen, gap or not.
checkTrustsLast(w, pts, count) ==
    IF ~inited(w) THEN init(w, pts)
    ELSE [advanced(w, pts, count) EXCEPT !.good = Larger(w.last, pts)]

check(w, pts, count) ==
    IF ~inited(w) THEN init(w, pts)
    ELSE IF caughtUp(w, pts, count)
         THEN [advanced(w, pts, count) EXCEPT !.good = Larger(w.last, pts)]
         ELSE waitForSkipped(advanced(w, pts, count))

checkResult(w, pts, count) ==
    ~inited(w) \/ caughtUp(w, pts, count) \/ count = 0

(***************************************************************************)
(* applySkippedUpdates(): the queue is applied and cleared, but only while *)
(* the waiter is waiting for skipped updates.                              *)
(***************************************************************************)
applySkippedUpdates(w) ==
    IF w.skipped
    THEN [stopWaitingForSkipped(w) EXCEPT !.queue = {}]
    ELSE w

\* A plausible slip: the queue is cleared before it is read.
skippedDropped(w) == {}

skippedToApply(w) == IF w.skipped THEN w.queue ELSE {}

(***************************************************************************)
(* updated() and updateAndApply() with an update.                          *)
(***************************************************************************)
stale(w, pts, count) == pts <= w.good /\ count > 0

updated(w, u) ==
    IF w.requesting THEN TRUE
    ELSE ~stale(w, u.pts, u.count) /\ checkResult(w, u.pts, u.count)

afterUpdated(w, u) ==
    IF w.requesting \/ stale(w, u.pts, u.count) THEN w
    ELSE LET c == check(w, u.pts, u.count)
         IN  IF checkResult(w, u.pts, u.count) THEN c
             ELSE [c EXCEPT !.queue = c.queue \cup {u}]

updateAndApply(w, u) ==
    LET v == afterUpdated(w, u)
    IN  IF updated(w, u) /\ v.skipped /\ v.queue # {}
        THEN applySkippedUpdates([v EXCEPT !.queue = v.queue \cup {u}])
        ELSE v

\* What updateAndApply hands to applyUpdateNoPtsCheck.
applied(w, u) ==
    LET v == afterUpdated(w, u)
    IN  IF ~updated(w, u) THEN {}
        ELSE IF v.skipped /\ v.queue # {} THEN v.queue \cup {u}
        ELSE {u}

(***************************************************************************)
(* updateAndApply(channel, pts, count): no update to apply, the caller has *)
(* already done what the events stand for.                                 *)
(***************************************************************************)
\* A plausible slip: the early return while a difference is requested is gone.
ptsUpdatedRequesting(w, pts, count) ==
    IF stale(w, pts, count) THEN w ELSE check(w, pts, count)

ptsUpdated(w, pts, count) ==
    IF w.requesting \/ stale(w, pts, count) THEN w ELSE check(w, pts, count)

ptsUpdatedResult(w, pts, count) == updated(w, [pts |-> pts, count |-> count])

updateAndApplyPts(w, pts, count) ==
    IF ptsUpdatedResult(w, pts, count)
    THEN applySkippedUpdates(ptsUpdated(w, pts, count))
    ELSE ptsUpdated(w, pts, count)

appliedByPts(w, pts, count) ==
    IF ptsUpdatedResult(w, pts, count)
    THEN skippedToApply(ptsUpdated(w, pts, count))
    ELSE {}
==============================================================================
