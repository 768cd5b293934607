------------------------ MODULE ChannelDifferenceProofs ------------------------
(***************************************************************************)
(* Proofs about ChannelDifference: type correctness, and that _good never  *)
(* passes an event the client does not know (NoSilentLoss), for any number *)
(* of events, any update sizes and any number of messages in flight.       *)
(***************************************************************************)
EXTENDS ChannelDifference, FiniteSetTheorems, TLAPS

-----------------------------------------------------------------------------
(* The methods of PtsWaiter keep the members in their types.               *)

\* init(), setRequesting() and the two waits: what they do to the members.
LEMMA SettersType ==
    ASSUME NEW b \in Waiter, NEW pts \in Nat, NEW flag \in BOOLEAN
    PROVE  /\ init(b, pts) \in Waiter
           /\ setRequesting(b, flag) \in Waiter
           /\ waitForSkipped(b) \in Waiter
           /\ waitForShortPoll(b) \in Waiter
           /\ stopWaitingForSkipped(b) \in Waiter
           /\ stopWaitingForShortPoll(b) \in Waiter
           /\ applySkippedUpdates(b) \in Waiter
  BY DEF Waiter, init, setRequesting, waitForSkipped, waitForShortPoll,
         stopWaitingForSkipped, stopWaitingForShortPoll, checkForWaiting,
         applySkippedUpdates

\* check() keeps the members in their types.
LEMMA CheckType ==
    ASSUME NEW b \in Waiter, NEW pts \in Nat, NEW count \in Nat
    PROVE  check(b, pts, count) \in Waiter
<1>1. Larger(b.last, pts) \in Nat /\ b.count + count \in Nat
  BY DEF Larger, Waiter
<1>2. advanced(b, pts, count) \in Waiter
  BY <1>1 DEF advanced, Waiter
<1>3. [advanced(b, pts, count) EXCEPT !.good = Larger(b.last, pts)] \in Waiter
  BY <1>1, <1>2 DEF Waiter
<1> QED
  BY <1>2, <1>3, SettersType DEF check

\* updated() keeps the members in their types.
LEMMA AfterUpdatedType ==
    ASSUME NEW b \in Waiter, NEW pts \in Nat, NEW count \in Nat
    PROVE  afterUpdated(b, [pts |-> pts, count |-> count]) \in Waiter
<1> DEFINE u == [pts |-> pts, count |-> count]
           c == check(b, pts, count)
<1>1. u \in Update
  BY DEF Update
<1>2. c \in Waiter
  BY CheckType
<1>3. [c EXCEPT !.queue = c.queue \cup {u}] \in Waiter
  BY <1>1, <1>2 DEF Waiter
<1> QED
  BY <1>2, <1>3 DEF afterUpdated

\* updateAndApply() in its two forms keeps the members in their types.
LEMMA UpdateType ==
    ASSUME NEW b \in Waiter, NEW pts \in Nat, NEW count \in Nat
    PROVE  /\ updateAndApply(b, [pts |-> pts, count |-> count]) \in Waiter
           /\ updateAndApplyPts(b, pts, count) \in Waiter
<1> DEFINE u == [pts |-> pts, count |-> count]
           v == afterUpdated(b, u)
<1>1. u \in Update
  BY DEF Update
<1>2. ASSUME NEW c \in Waiter
      PROVE  [c EXCEPT !.queue = c.queue \cup {u}] \in Waiter
  BY <1>1, <1>2 DEF Waiter
<1>3. v \in Waiter
  BY AfterUpdatedType
<1>4. updateAndApply(b, u) \in Waiter
  BY <1>2, <1>3, SettersType DEF updateAndApply
<1>5. updateAndApplyPts(b, pts, count) \in Waiter
  BY CheckType, SettersType DEF updateAndApplyPts, ptsUpdated
<1> QED
  BY <1>4, <1>5

-----------------------------------------------------------------------------
(* Type correctness.                                                       *)

\* getChannelDifference() keeps the variables it assigns in their types.
LEMMA GetChannelDifferenceType ==
    ASSUME NEW b \in Waiter, NEW a \in BOOLEAN, NEW d \in Difference,
           NEW from, getChannelDifference(b, a, d, from)
    PROVE  /\ box' \in Waiter
           /\ afterFail' \in BOOLEAN
           /\ diff' \in Difference
<1>1. forgetTimer(b, from) \in Waiter
  BY DEF forgetTimer, Waiter
<1>2. b.good \in Nat
  BY DEF Waiter
<1>3. [NoDiff EXCEPT !.state = "sent", !.pts = b.good] \in Difference
  BY <1>2 DEF NoDiff, Difference, DiffStates, AnswerKinds
<1> QED
  BY <1>1, <1>3, SettersType DEF getChannelDifference

\* Points() of an update are integers.
LEMMA PointsInt ==
    ASSUME NEW u, u.pts \in Nat, u.count \in Nat
    PROVE  Points(u) \subseteq Int
  BY DEF Points

\* The initial states are typed.
LEMMA TypeInit == Init => TypeOK
<1> SUFFICES ASSUME Init PROVE TypeOK
  OBVIOUS
<1>1. NewWaiter \in Waiter
  BY DEF NewWaiter, Waiter
<1>2. box \in Waiter
  BY <1>1, SettersType DEF Init
<1>3. diff \in Difference
  BY DEF Init, NoDiff, Difference, DiffStates, AnswerKinds
<1>4. known \subseteq Int
  BY <1>2 DEF Init, Waiter
<1>5. net \subseteq Message /\ counted \subseteq Int
  BY DEF Init
<1>6. serverPts \in Nat /\ ends \subseteq Nat
  BY DEF Init
<1>7. active \in BOOLEAN /\ afterFail \in BOOLEAN
  BY Zenon DEF Init
<1> QED
  BY <1>2, <1>3, <1>4, <1>5, <1>6, <1>7 DEF TypeOK

\* Every step keeps the variables typed.
LEMMA TypeStep == TypeOK /\ [Next]_vars => TypeOK'
<1> SUFFICES ASSUME TypeOK, [Next]_vars
             PROVE  TypeOK'
  OBVIOUS
<1>1. ASSUME NEW m \in net
      PROVE  /\ m.kind \in Kinds /\ m.pts \in Nat /\ m.count \in Nat
             /\ Points(m) \subseteq Int
  BY <1>1, PointsInt DEF Message, TypeOK
<1>2. ASSUME NEW Q \in SUBSET Update
      PROVE  UNION {Points(v) : v \in Q} \subseteq Int
  BY <1>2, PointsInt DEF Update
<1>3. ASSUME NEW pts \in Nat, NEW count \in Nat
      PROVE  /\ loadedBefore(pts) \subseteq Int
             /\ countedAfter(pts, count) \subseteq Int
  <2>1. Points([pts |-> pts, count |-> count]) \subseteq Int
    BY PointsInt
  <2>2. loadedBefore(pts) \subseteq Int
    BY DEF loadedBefore
  <2>3. countedAfter(pts, count) \subseteq Int
    BY <2>1, Zenon DEF countedAfter, TypeOK
  <2> QED
    BY <2>2, <2>3
<1>4. CASE feedChannelUpdate
  <2>1. PICK m \in net : feedChannelUpdate!(m)
    BY <1>4 DEF feedChannelUpdate
  <2> DEFINE u == [pts |-> m.pts, count |-> m.count]
  <2>2. u \in Update
    BY <1>1 DEF Update
  <2>3. applied(box, u) \in SUBSET Update
    BY <1>1, <2>2, AfterUpdatedType DEF TypeOK, Waiter, applied
  <2>4. known' \subseteq Int /\ box' \in Waiter /\ counted' \subseteq Int
    BY <1>1, <1>2, <1>3, <2>1, <2>3, UpdateType DEF TypeOK
  <2> QED
    BY <2>1, <2>4 DEF TypeOK
<1>5. ASSUME NEW kind, feedPts(kind)
      PROVE  TypeOK'
  <2>1. PICK m \in net : feedPts(kind)!(m)
    BY <1>5 DEF feedPts
  <2>2. appliedByPts(box, m.pts, m.count) \in SUBSET Update
    BY <1>1, CheckType DEF TypeOK, Waiter, appliedByPts, skippedToApply, ptsUpdated
  <2>3. known' \subseteq Int /\ box' \in Waiter /\ counted' \subseteq Int
    BY <1>1, <1>2, <1>3, <2>1, <2>2, UpdateType DEF TypeOK
  <2> QED
    BY <2>1, <2>3 DEF TypeOK
<1>6. CASE updateChannelTooLong
  BY <1>6, GetChannelDifferenceType DEF updateChannelTooLong, TypeOK
<1>7. CASE channelDifferenceDone
  <2> DEFINE b == setRequesting(resynced(box, diff), FALSE)
  <2>1. diff.pts \in Nat /\ NoDiff \in Difference
    BY DEF TypeOK, Difference, NoDiff, DiffStates, AnswerKinds
  <2>2. b \in Waiter
    BY <2>1, SettersType DEF TypeOK, resynced
  <2>3. /\ box' \in Waiter
        /\ afterFail' \in BOOLEAN
        /\ diff' \in Difference
    BY <1>7, <2>1, <2>2, SettersType, GetChannelDifferenceType
       DEF channelDifferenceDone, afterFinal, TypeOK
  <2>4. known' \subseteq Int /\ counted' \subseteq Int
    <3>1. box.good \in Nat
      BY DEF TypeOK, Waiter
    <3> QED
      BY <1>7, <2>1, <3>1 DEF channelDifferenceDone, fedBy, TypeOK
  <2> QED
    BY <1>7, <2>3, <2>4 DEF channelDifferenceDone, TypeOK
<1>8. CASE channelDifferenceFail
  <2>1. [diff EXCEPT !.state = "failed"] \in Difference
    BY DEF TypeOK, Difference, DiffStates
  <2> QED
    BY <1>8, <2>1 DEF channelDifferenceFail, TypeOK
<1>9. CASE getDifferenceByPts
  <2>1. [box EXCEPT !.timer = FALSE] \in Waiter
    BY DEF TypeOK, Waiter
  <2> QED
    BY <1>9, <2>1, GetChannelDifferenceType DEF getDifferenceByPts, TypeOK
<1>10. CASE getDifferenceAfterFail
  BY <1>10, GetChannelDifferenceType DEF getDifferenceAfterFail, TypeOK
<1>11. CASE User
  BY <1>11, SettersType DEF User, openChat, closeChat, deleteHistory, TypeOK
<1>12. CASE ServerPost
  <2>1. serverPts' \in Nat
    BY <1>12 DEF ServerPost, TypeOK
  <2>2. net' \subseteq Message
    BY <1>12, <2>1 DEF ServerPost, Send, Message, Kinds, TypeOK
  <2> QED
    BY <1>12, <2>1, <2>2 DEF ServerPost, clientVars, TypeOK
<1>13. CASE ServerMention
  BY <1>13 DEF ServerMention, Send, Message, Kinds, clientVars, TypeOK
<1>14. CASE ServerAnswer
  <2>1. diff' \in Difference
    BY <1>14, AnswersAssumption
       DEF ServerAnswer, Difference, DiffStates, TypeOK
  <2> QED
    BY <1>14, <2>1 DEF ServerAnswer, TypeOK
<1>15. CASE Lose
  BY <1>15 DEF Lose, clientVars, TypeOK
<1>16. CASE UNCHANGED vars
  BY <1>16 DEF vars, TypeOK
<1> QED
  BY <1>4, <1>5, <1>6, <1>7, <1>8, <1>9, <1>10, <1>11, <1>12, <1>13, <1>14,
     <1>15, <1>16 DEF Next, Handlers, Server, applyAffected, ptsReceived

\* The type invariant holds in every reachable state.
THEOREM TypeCorrect == Spec => []TypeOK
  BY TypeInit, TypeStep, PTL DEF Spec

-----------------------------------------------------------------------------
(* What one call of the waiter does to the counts and to the queue.        *)

\* An interval of n numbers has n elements.
LEMMA PointsCardinality ==
    ASSUME NEW pts \in Nat, NEW count \in Nat
    PROVE  LET P == (pts - count + 1) .. pts
           IN  IsFiniteSet(P) /\ Cardinality(P) = count
  BY FS_Interval

\* check(): the count stays exact, and when _last = _count nothing between
\* the old _good and the new one is missing from what was counted.
LEMMA CheckCounts ==
    ASSUME NEW b \in Waiter, NEW pts \in Nat, NEW count \in Nat,
           NEW C \in SUBSET Int, IsFiniteSet(C),
           inited(b), b.good <= b.last,
           C \subseteq (b.good + 1) .. b.last,
           b.count = b.good + Cardinality(C),
           ((pts - count + 1) .. pts) \cap C = {},
           count > 0 => b.good <= pts - count
    PROVE  LET c == check(b, pts, count)
               P == (pts - count + 1) .. pts
               D == IF caughtUp(b, pts, count) THEN {} ELSE C \cup P
           IN  /\ IsFiniteSet(D)
               /\ D \subseteq (c.good + 1) .. c.last
               /\ c.count = c.good + Cardinality(D)
               /\ c.good <= c.last
               /\ caughtUp(b, pts, count) => (b.good + 1) .. c.good = C \cup P
<1> DEFINE c == check(b, pts, count)
           P == (pts - count + 1) .. pts
           L == Larger(b.last, pts)
<1>1. L \in Nat /\ L >= b.last /\ L >= pts /\ b.good \in Nat /\ b.last \in Nat /\ b.count \in Nat
  BY DEF Larger, Waiter
<1>2. IsFiniteSet(P) /\ Cardinality(P) = count
  BY PointsCardinality
<1>3. IsFiniteSet(C \cup P) /\ Cardinality(C \cup P) = Cardinality(C) + count
  <2>1. C \cap P = {}
    OBVIOUS
  <2>2. Cardinality(C \cap P) = 0
    BY <2>1, FS_EmptySet
  <2>3. Cardinality(C) \in Nat
    BY FS_CardinalityType
  <2> HIDE DEF P
  <2>4. /\ IsFiniteSet(C \cup P)
        /\ Cardinality(C \cup P)
             = Cardinality(C) + Cardinality(P) - Cardinality(C \cap P)
    BY <1>2, FS_Union
  <2> QED
    BY <1>2, <2>2, <2>3, <2>4
<1>4. Cardinality(C) \in Nat
  BY FS_CardinalityType
<1>5. C \cup P \subseteq (b.good + 1) .. L
  <2>1. P \subseteq (b.good + 1) .. L
    BY <1>1
  <2>2. C \subseteq (b.good + 1) .. L
    BY <1>1
  <2> QED
    BY <2>1, <2>2
<1>6. CASE caughtUp(b, pts, count)
  <2>1. c.good = L /\ c.last = L /\ c.count = L
    BY <1>6 DEF check, advanced, caughtUp, Waiter
  <2>2. Cardinality((b.good + 1) .. L) = L - b.good /\ IsFiniteSet((b.good + 1) .. L)
    <3> HIDE DEF L
    <3>1. b.good + 1 \in Int /\ L \in Int /\ b.good <= L
      BY <1>1
    <3>2. /\ IsFiniteSet((b.good + 1) .. L)
          /\ Cardinality((b.good + 1) .. L)
               = IF b.good + 1 > L THEN 0 ELSE L - (b.good + 1) + 1
      BY <3>1, FS_Interval
    <3> QED
      BY <1>1, <3>1, <3>2
  <2>3. Cardinality(C \cup P) = L - b.good
    BY <1>1, <1>3, <1>4, <1>6 DEF caughtUp
  <2>4. C \cup P = (b.good + 1) .. L
    BY <1>5, <2>2, <2>3, FS_Subset
  <2> QED
    BY <1>1, <1>6, <2>1, <2>4, FS_EmptySet
<1>7. CASE ~caughtUp(b, pts, count)
  <2>1. c.good = b.good /\ c.last = L /\ c.count = b.count + count
    BY <1>7 DEF check, advanced, waitForSkipped, Waiter
  <2> QED
    BY <1>1, <1>3, <1>4, <1>5, <1>7, <2>1
<1> QED
  BY <1>6, <1>7

\* updateAndApply(update): what was queued, and the update, is applied or is
\* queued and waited for.
LEMMA UpdateKeepsOrApplies ==
    ASSUME NEW b \in Waiter, NEW pts \in Nat, NEW count \in Nat,
           ~b.requesting, b.queue # {} => b.skipped, ~inited(b) => b.queue = {},
           ~stale(b, pts, count)
    PROVE  LET u == [pts |-> pts, count |-> count]
               c == check(b, pts, count)
               r == updateAndApply(b, u)
           IN  /\ r.good = c.good /\ r.last = c.last /\ r.count = c.count
               /\ ~r.requesting
               /\ r.queue # {} => r.skipped
               /\ r.queue \subseteq b.queue \cup {u}
               /\ b.queue \cup {u} \subseteq applied(b, u) \cup r.queue
               /\ ~inited(b) \/ caughtUp(b, pts, count) =>
                     b.queue \cup {u} \subseteq applied(b, u) /\ r.queue = {}
<1> DEFINE u == [pts |-> pts, count |-> count]
           c == check(b, pts, count)
           v == afterUpdated(b, u)
           r == updateAndApply(b, u)
<1>1. c \in Waiter /\ b \in Waiter /\ v \in Waiter
  BY CheckType, AfterUpdatedType
<1>2. u.pts = pts /\ u.count = count
  OBVIOUS
<1>3. /\ ~c.requesting
      /\ ~inited(b) => c.queue = {}
      /\ inited(b) => c.queue = b.queue
      /\ caughtUp(b, pts, count) /\ inited(b) => c.skipped = b.skipped
      /\ ~caughtUp(b, pts, count) /\ inited(b) => c.skipped
  BY DEF check, init, advanced, waitForSkipped, Waiter
<1> HIDE DEF u, c
<1>4. CASE checkResult(b, pts, count)
  <2>1. v = c /\ updated(b, u)
    BY <1>2, <1>4 DEF afterUpdated, updated, c
  <2>2. CASE c.skipped /\ c.queue # {}
    <3>1. r = applySkippedUpdates([c EXCEPT !.queue = c.queue \cup {u}])
      BY <2>1, <2>2 DEF updateAndApply
    <3>2. /\ r.good = c.good /\ r.last = c.last /\ r.count = c.count
          /\ r.queue = {} /\ ~r.requesting
      BY <1>1, <1>3, <2>2, <3>1
         DEF applySkippedUpdates, stopWaitingForSkipped, checkForWaiting, Waiter
    <3>3. applied(b, u) = c.queue \cup {u}
      BY <2>1, <2>2 DEF applied
    <3> QED
      BY <1>3, <3>2, <3>3 DEF c, u
  <2>3. CASE ~(c.skipped /\ c.queue # {})
    <3>1. r = c /\ applied(b, u) = {u}
      BY <2>1, <2>3 DEF updateAndApply, applied
    <3>2. b.queue = {} /\ c.queue = {}
      BY <1>3, <2>3
    <3> QED
      BY <1>3, <3>1, <3>2 DEF c, u
  <2> QED
    BY <2>2, <2>3
<1>5. CASE ~checkResult(b, pts, count)
  <2>1. v = [c EXCEPT !.queue = c.queue \cup {u}] /\ ~updated(b, u)
    BY <1>2, <1>5 DEF afterUpdated, updated, c
  <2>2. r = v
    BY <2>1 DEF updateAndApply
  <2>3. inited(b) /\ ~caughtUp(b, pts, count)
    BY <1>5 DEF checkResult
  <2> QED
    BY <1>1, <1>3, <2>1, <2>2, <2>3 DEF c, u, Waiter
<1> QED
  BY <1>4, <1>5

\* updateAndApply(pts, count): what was queued is applied or stays queued.
LEMMA PtsKeepsOrApplies ==
    ASSUME NEW b \in Waiter, NEW pts \in Nat, NEW count \in Nat,
           ~b.requesting, b.queue # {} => b.skipped, ~inited(b) => b.queue = {},
           ~stale(b, pts, count)
    PROVE  LET c == check(b, pts, count)
               r == updateAndApplyPts(b, pts, count)
           IN  /\ r.good = c.good /\ r.last = c.last /\ r.count = c.count
               /\ ~r.requesting
               /\ r.queue # {} => r.skipped
               /\ r.queue \subseteq b.queue
               /\ b.queue \subseteq appliedByPts(b, pts, count) \cup r.queue
               /\ ~inited(b) \/ caughtUp(b, pts, count) =>
                     b.queue \subseteq appliedByPts(b, pts, count) /\ r.queue = {}
<1> DEFINE c == check(b, pts, count)
           r == updateAndApplyPts(b, pts, count)
<1>1. c \in Waiter
  BY CheckType
<1>2. /\ ~c.requesting
      /\ ~inited(b) => c.queue = {}
      /\ inited(b) => c.queue = b.queue
      /\ caughtUp(b, pts, count) /\ inited(b) => c.skipped = b.skipped
      /\ ~caughtUp(b, pts, count) /\ inited(b) => c.skipped
  BY DEF check, init, advanced, waitForSkipped, Waiter
<1>3. ptsUpdated(b, pts, count) = c
  BY DEF ptsUpdated
<1>4. ptsUpdatedResult(b, pts, count) <=> checkResult(b, pts, count)
  BY DEF ptsUpdatedResult, updated
<1> HIDE DEF c
<1>5. CASE checkResult(b, pts, count)
  <2>1. r = applySkippedUpdates(c) /\ appliedByPts(b, pts, count) = skippedToApply(c)
    BY <1>3, <1>4, <1>5 DEF updateAndApplyPts, appliedByPts
  <2>2. /\ r.good = c.good /\ r.last = c.last /\ r.count = c.count /\ ~r.requesting
        /\ c.skipped => r.queue = {} /\ skippedToApply(c) = c.queue
        /\ ~c.skipped => r = c
    BY <1>1, <1>2, <2>1
       DEF applySkippedUpdates, stopWaitingForSkipped, checkForWaiting, skippedToApply, Waiter
  <2> QED
    BY <1>2, <2>1, <2>2 DEF c
<1>6. CASE ~checkResult(b, pts, count)
  <2>1. r = c
    BY <1>3, <1>4, <1>6 DEF updateAndApplyPts
  <2>2. inited(b) /\ ~caughtUp(b, pts, count)
    BY <1>6 DEF checkResult
  <2> QED
    BY <1>2, <2>1, <2>2 DEF c
<1> QED
  BY <1>5, <1>6
-----------------------------------------------------------------------------
(* The inductive invariant.                                                *)

QueuedPoints(b) == UNION {Points(u) : u \in b.queue}

\* One message reaches a waiter whose channel requests no difference.
LEMMA Deliver ==
    ASSUME Inductive, TypeOK',
           NEW m \in net, m.kind # "tooLong", ~box.requesting,
           net' = net \ {m}, counted' = countedAfter(m.pts, m.count),
           UNCHANGED <<serverPts, ends, diff>>,
           known \subseteq known', loadedBefore(m.pts) \subseteq known',
           stale(box, m.pts, m.count) => box' = box,
           ~stale(box, m.pts, m.count) =>
             LET c == check(box, m.pts, m.count)
                 Q == QueuedPoints(box) \cup Points(m)
             IN  /\ box'.good = c.good /\ box'.last = c.last /\ box'.count = c.count
                 /\ ~box'.requesting
                 /\ box'.queue # {} => box'.skipped
                 /\ Q \subseteq known' \cup QueuedPoints(box')
                 /\ ~inited(box) \/ caughtUp(box, m.pts, m.count) =>
                      Q \subseteq known' /\ box'.queue = {}
    PROVE  Inductive' /\ box'.good >= box.good
<1> DEFINE P == (m.pts - m.count + 1) .. m.pts
           c == check(box, m.pts, m.count)
<1>1. /\ box \in Waiter /\ box' \in Waiter
      /\ m.pts \in Nat /\ m.count \in Nat /\ m.pts \in ends /\ m.pts >= 1
      /\ m.pts <= serverPts /\ serverPts \in Nat /\ ends \subseteq Nat
  BY DEF Inductive, TypeOK, AtEnds, Message
<1>2. Points(m) = P /\ P \cap counted = {}
  BY DEF Points, Inductive, CarriedOnce
<1>3. \A n \in net' : n \in net /\ n # m
  OBVIOUS
<1>4. diff.state = "none" /\ DiffAgrees'
  <2>1. diff.state = "none"
    BY DEF Inductive, DiffAgrees, TypeOK, Difference, DiffStates
  <2>2. ~box'.requesting
    OBVIOUS
  <2> QED
    BY <2>1, <2>2 DEF DiffAgrees
<1>5. CASE stale(box, m.pts, m.count)
  <2>1. box' = box /\ counted' = counted
    BY <1>5 DEF countedAfter
  <2>2. NoSilentLoss' /\ PostponedIsKept' /\ Accounting' /\ Fresh'
    BY <2>1 DEF Inductive, NoSilentLoss, PostponedIsKept, Accounting, Fresh
  <2>3. CarriedOnce' /\ AtEnds'
    BY <1>3, <2>1 DEF Inductive, CarriedOnce, AtEnds, Points
  <2>4. box.good \in Nat
    BY <1>1 DEF Waiter
  <2> QED
    BY <1>4, <2>1, <2>2, <2>3, <2>4 DEF Inductive
<1>6. CASE ~stale(box, m.pts, m.count) /\ ~inited(box)
  <2>1. c.good = m.pts /\ c.last = m.pts /\ c.count = m.pts
    BY <1>1, <1>6 DEF check, init, Waiter
  <2>2. counted' = {} /\ 1 .. m.pts \subseteq known'
    BY <1>6 DEF countedAfter, loadedBefore
  <2>3. box'.good = m.pts /\ box'.last = m.pts /\ box'.count = m.pts /\ box'.queue = {}
    BY <1>6, <2>1
  <2> HIDE DEF c
  <2>4. NoSilentLoss' /\ PostponedIsKept'
    BY <2>2, <2>3 DEF NoSilentLoss, PostponedIsKept
  <2>5. Accounting'
    <3>1. IsFiniteSet({}) /\ Cardinality({}) = 0
      BY FS_EmptySet
    <3>2. IsFiniteSet(counted') /\ Cardinality(counted') = 0
      BY <2>2, <3>1
    <3> QED
      BY <1>1, <2>2, <2>3, <3>2 DEF Accounting
  <2>6. CarriedOnce' /\ AtEnds'
    BY <1>1, <1>3, <2>2, <2>3 DEF Inductive, CarriedOnce, AtEnds, Points
  <2>7. Fresh' /\ box'.good >= box.good
    BY <1>1, <1>6, <2>3 DEF Fresh, inited, Waiter
  <2> QED
    BY <1>4, <2>3, <2>4, <2>5, <2>6, <2>7 DEF Inductive
<1>7. CASE ~stale(box, m.pts, m.count) /\ inited(box)
  <2> DEFINE D == IF caughtUp(box, m.pts, m.count) THEN {} ELSE counted \cup P
  <2>1. counted' = D
    BY <1>2, <1>7 DEF countedAfter, Points
  <2>2. m.count > 0 => box.good <= m.pts - m.count
    BY <1>1, <1>7 DEF stale, Inductive, AtEnds, Waiter
  <2>3. /\ IsFiniteSet(D)
        /\ D \subseteq (c.good + 1) .. c.last
        /\ c.count = c.good + Cardinality(D)
        /\ c.good <= c.last
        /\ caughtUp(box, m.pts, m.count) => (box.good + 1) .. c.good = counted \cup P
    BY <1>1, <1>2, <1>7, <2>2, CheckCounts DEF Inductive, TypeOK, Accounting
  <2>4. /\ c.last = Larger(box.last, m.pts)
        /\ caughtUp(box, m.pts, m.count) => c.good = c.last
        /\ ~caughtUp(box, m.pts, m.count) => c.good = box.good
        /\ c.good \in Nat /\ c.last \in Nat
    BY <1>1, <1>7 DEF check, advanced, waitForSkipped, caughtUp, Larger, Waiter
  <2>5. box'.good = c.good /\ box'.last = c.last /\ box'.count = c.count
    BY <1>7
  <2> HIDE DEF c
  <2>6. counted \subseteq known \cup QueuedPoints(box)
    BY DEF Inductive, PostponedIsKept, QueuedPoints
  <2>7. NoSilentLoss'
    <3>1. CASE caughtUp(box, m.pts, m.count)
      <4>1. counted \cup P \subseteq known'
        BY <1>2, <1>7, <2>6, <3>1
      <4>2. 1 .. box.good \subseteq known'
        BY DEF Inductive, NoSilentLoss
      <4>3. \A i \in 1 .. c.good : i \in 1 .. box.good \/ i \in (box.good + 1) .. c.good
        BY <1>1 DEF Waiter
      <4> QED
        BY <2>3, <2>5, <3>1, <4>1, <4>2, <4>3 DEF NoSilentLoss
    <3>2. CASE ~caughtUp(box, m.pts, m.count)
      BY <2>4, <2>5, <3>2 DEF NoSilentLoss, Inductive
    <3> QED
      BY <3>1, <3>2
  <2>8. PostponedIsKept'
    <3>1. QueuedPoints(box) \cup Points(m) \subseteq known' \cup QueuedPoints(box')
      BY <1>7
    <3>2. counted' \subseteq counted \cup Points(m)
      BY <1>2, <2>1
    <3>3. counted' \subseteq known' \cup QueuedPoints(box')
      BY <2>6, <3>1, <3>2
    <3> QED
      BY <3>3 DEF PostponedIsKept, QueuedPoints
  <2>9. (c.last \in ends /\ c.last <= serverPts) \/ c.last = box.last
    BY <1>1, <2>4 DEF Larger
  <2>10. Accounting'
    BY <2>1, <2>3, <2>5, <2>9 DEF Inductive, Accounting
  <2>11. CarriedOnce'
    <3>1. counted' \subseteq counted \cup Points(m)
      BY <1>2, <2>1
    <3>2. \A n \in net' : Points(n)' = Points(n)
      BY DEF Points
    <3>3. \A n \in net' : Points(n) \cap counted = {} /\ Points(n) \cap Points(m) = {}
      BY <1>3 DEF Inductive, CarriedOnce
    <3>4. \A n \in net' : Points(n) \cap counted' = {}
      BY <3>1, <3>3
    <3>5. \A n, k \in net' : n # k => Points(n) \cap Points(k) = {}
      BY <1>3 DEF Inductive, CarriedOnce
    <3> QED
      BY <3>4, <3>5 DEF CarriedOnce, Points
  <2>12. AtEnds'
    BY <1>3, <2>4, <2>5, <2>9 DEF Inductive, AtEnds
  <2>13. box'.good >= box.good /\ Fresh'
    <3>1. c.good >= box.good
      BY <1>1, <2>4 DEF Larger, Inductive, Accounting, Waiter
    <3> QED
      BY <1>1, <1>7, <2>5, <3>1 DEF Fresh, inited, Waiter
  <2>14. box'.queue # {} => box'.skipped
    BY <1>7
  <2> QED
    BY <1>4, <2>7, <2>8, <2>10, <2>11, <2>12, <2>13, <2>14 DEF Inductive
<1> QED
  BY <1>5, <1>6, <1>7
\* getChannelDifference(), called with a box that agrees with the current
\* counts: the flag goes up, the queue empties and _good stays.
LEMMA GetChannelDifferenceFields ==
    ASSUME NEW b \in Waiter, NEW a, NEW d, NEW from,
           getChannelDifference(b, a, d, from)
    PROVE  /\ box'.good = b.good /\ box'.last = b.last /\ box'.count = b.count
           /\ box'.skipped = b.skipped
           /\ mayRequest(b) =>
                /\ box'.requesting /\ box'.queue = {}
                /\ diff' = [NoDiff EXCEPT !.state = "sent", !.pts = b.good]
           /\ ~mayRequest(b) =>
                /\ box'.requesting = b.requesting /\ box'.queue = b.queue
                /\ diff' = d
  BY DEF getChannelDifference, forgetTimer, setRequesting, Waiter

\* A call of getChannelDifference() that finds the counts as they were.
LEMMA RequestKeepsInductive ==
    ASSUME Inductive, TypeOK', NEW b \in Waiter, NEW a, NEW from,
           getChannelDifference(b, a, diff, from),
           b.good = box.good, b.last = box.last, b.count = box.count,
           b.queue = box.queue, b.skipped = box.skipped, b.requesting = box.requesting,
           net' \subseteq net, UNCHANGED <<serverPts, ends, known, counted>>
    PROVE  Inductive' /\ box'.good >= box.good
<1>1. /\ box'.good = box.good /\ box'.last = box.last /\ box'.count = box.count
      /\ box'.skipped = box.skipped
      /\ box \in Waiter /\ box' \in Waiter /\ box.good \in Nat
  BY GetChannelDifferenceFields DEF Inductive, TypeOK, Waiter
<1>2. /\ mayRequest(b) =>
           /\ box'.requesting /\ box'.queue = {} /\ inited(box)
           /\ diff'.state = "sent" /\ diff'.pts = box.good
      /\ ~mayRequest(b) =>
           /\ box'.requesting = box.requesting /\ box'.queue = box.queue
           /\ diff' = diff
  BY GetChannelDifferenceFields DEF NoDiff, mayRequest, inited
<1>3. NoSilentLoss' /\ Accounting' /\ Fresh' /\ (box'.queue # {} => box'.skipped)
  BY <1>1, <1>2 DEF Inductive, NoSilentLoss, Accounting, Fresh, inited
<1>4. PostponedIsKept'
  BY <1>1, <1>2 DEF Inductive, PostponedIsKept, Points
<1>5. CarriedOnce'
  BY DEF Inductive, CarriedOnce, Points
<1>6. AtEnds'
  BY <1>1 DEF Inductive, AtEnds
<1>7. DiffAgrees'
  BY <1>1, <1>2 DEF Inductive, DiffAgrees, inited
<1> QED
  BY <1>1, <1>3, <1>4, <1>5, <1>6, <1>7 DEF Inductive

\* A step that leaves the counts, the queue and the request alone.
LEMMA TimersKeepInductive ==
    ASSUME Inductive, TypeOK',
           box'.good = box.good, box'.last = box.last, box'.count = box.count,
           box'.queue = box.queue, box'.skipped = box.skipped,
           box'.requesting = box.requesting,
           net' \subseteq net, UNCHANGED <<diff, serverPts, ends, known, counted>>
    PROVE  Inductive' /\ box'.good >= box.good
<1>1. NoSilentLoss' /\ Accounting' /\ Fresh' /\ (box'.queue # {} => box'.skipped)
  BY DEF Inductive, NoSilentLoss, Accounting, Fresh, inited
<1>2. PostponedIsKept' /\ CarriedOnce'
  BY DEF Inductive, PostponedIsKept, CarriedOnce, Points
<1>3. AtEnds' /\ DiffAgrees'
  BY DEF Inductive, AtEnds, DiffAgrees, inited
<1>4. box.good \in Nat
  BY DEF Inductive, TypeOK, Waiter
<1> QED
  BY <1>1, <1>2, <1>3, <1>4 DEF Inductive
\* A step that only applies events, or stops waiting, while a difference is
\* requested.
LEMMA QuietStepKeepsInductive ==
    ASSUME Inductive, TypeOK', box.requesting, box'.requesting,
           box'.good = box.good, box'.last = box.last, box'.count = box.count,
           box'.queue = {}, known \subseteq known',
           net' \subseteq net, UNCHANGED <<diff, serverPts, ends, counted>>
    PROVE  Inductive' /\ box'.good >= box.good
<1>1. NoSilentLoss' /\ Accounting' /\ Fresh' /\ PostponedIsKept'
  BY DEF Inductive, NoSilentLoss, Accounting, Fresh, PostponedIsKept, inited
<1>2. CarriedOnce'
  BY DEF Inductive, CarriedOnce, Points
<1>3. AtEnds' /\ DiffAgrees'
  BY DEF Inductive, AtEnds, DiffAgrees, inited
<1>4. box.good \in Nat
  BY DEF Inductive, TypeOK, Waiter
<1> QED
  BY <1>1, <1>2, <1>3, <1>4 DEF Inductive

\* The answer to a difference request.
LEMMA DoneKeepsInductive ==
    ASSUME Inductive, TypeOK', channelDifferenceDone
    PROVE  Inductive' /\ box'.good >= box.good
<1> DEFINE r == resynced(box, diff)
           b == setRequesting(r, FALSE)
<1>1. /\ diff.state = "answered" /\ box.requesting /\ box.queue = {} /\ inited(box)
      /\ diff.pts \in ends /\ diff.pts >= box.good
      /\ diff.kind = "empty" => diff.pts = box.good
      /\ diff.kind = "tooLongNoPts" => diff.pts >= box.last
  BY DEF channelDifferenceDone, Inductive, DiffAgrees
<1>2. /\ box \in Waiter /\ box.good \in Nat /\ box.last \in Nat /\ serverPts \in Nat
      /\ diff \in Difference /\ diff.pts \in Nat /\ 1 <= diff.pts /\ diff.pts <= serverPts
      /\ diff.kind \in AnswerKinds /\ box' \in Waiter
  BY <1>1 DEF Inductive, TypeOK, Waiter, Difference, AtEnds
<1>3. CASE diff.kind # "tooLongNoPts"
  <2>1. /\ b \in Waiter /\ b.good = diff.pts /\ b.last = diff.pts /\ b.count = diff.pts
        /\ b.queue = {} /\ ~b.requesting
    <3> DEFINE i == init(box, diff.pts)
    <3>1. /\ i \in Waiter /\ i.good = diff.pts /\ i.last = diff.pts
          /\ i.count = diff.pts /\ i.queue = {}
      BY <1>2 DEF init, Waiter
    <3> HIDE DEF i
    <3>2. r = i \/ r = applySkippedUpdates(i)
      BY <1>2, <1>3 DEF resynced, i
    <3>3. /\ applySkippedUpdates(i) \in Waiter
          /\ applySkippedUpdates(i).good = diff.pts
          /\ applySkippedUpdates(i).last = diff.pts
          /\ applySkippedUpdates(i).count = diff.pts
          /\ applySkippedUpdates(i).queue = {}
      BY <3>1 DEF applySkippedUpdates, stopWaitingForSkipped, checkForWaiting,
           Waiter
    <3>4. /\ r \in Waiter /\ r.good = diff.pts /\ r.last = diff.pts
          /\ r.count = diff.pts /\ r.queue = {}
      BY <3>1, <3>2, <3>3
    <3> HIDE DEF r
    <3> QED
      BY <3>4 DEF setRequesting, Waiter
  <2> HIDE DEF b
  <2>2. counted' = {} /\ UNCHANGED <<net, serverPts, ends>>
    BY <1>3 DEF channelDifferenceDone
  <2>3. 1 .. diff.pts \subseteq known'
    <3>1. 1 .. box.good \subseteq known
      BY DEF Inductive, NoSilentLoss
    <3>2. \A i \in 1 .. diff.pts : i \in 1 .. box.good \/ i \in (box.good + 1) .. diff.pts
      BY <1>2
    <3>3. known' = known \cup fedBy(diff)
      BY DEF channelDifferenceDone
    <3> QED
      BY <1>1, <1>2, <1>3, <3>1, <3>2, <3>3 DEF fedBy, AnswerKinds
  <2>4. /\ box'.good = diff.pts /\ box'.last = diff.pts /\ box'.count = diff.pts
        /\ box'.queue = {}
        /\ \/ ~box'.requesting /\ diff'.state = "none"
           \/ box'.requesting /\ diff'.state = "sent" /\ diff'.pts = diff.pts
    <3>1. CASE ~diff.final
      <4>1. getChannelDifference(b, afterFail, NoDiff, "Unknown")
        BY <3>1 DEF channelDifferenceDone, b
      <4>2. mayRequest(b)
        BY <1>2, <2>1 DEF mayRequest, inited
      <4> QED
        BY <2>1, <4>1, <4>2, GetChannelDifferenceFields DEF NoDiff
    <3>2. CASE diff.final
      <4>1. box' = afterFinal(b) /\ diff' = NoDiff
        BY <3>2 DEF channelDifferenceDone, b
      <4> QED
        BY <2>1, <4>1 DEF afterFinal, waitForShortPoll, NoDiff, Waiter
    <3> QED
      BY <3>1, <3>2
  <2>5. IsFiniteSet(counted') /\ Cardinality(counted') = 0
    BY <2>2, FS_EmptySet
  <2>6. NoSilentLoss' /\ PostponedIsKept' /\ Accounting' /\ Fresh'
    BY <1>2, <2>2, <2>3, <2>4, <2>5
       DEF NoSilentLoss, PostponedIsKept, Accounting, Fresh, inited
  <2>7. CarriedOnce'
    BY <2>2 DEF Inductive, CarriedOnce, Points
  <2>8. AtEnds'
    BY <1>1, <2>2, <2>4 DEF Inductive, AtEnds
  <2>9. DiffAgrees'
    BY <1>2, <2>4 DEF DiffAgrees, inited
  <2> QED
    BY <1>1, <1>2, <2>4, <2>6, <2>7, <2>8, <2>9 DEF Inductive
<1>4. CASE diff.kind = "tooLongNoPts"
  <2>1. /\ b \in Waiter /\ b.good = box.good /\ b.last = box.last /\ b.count = box.count
        /\ b.queue = {} /\ ~b.requesting
    BY <1>1, <1>2, <1>4 DEF resynced, setRequesting, Waiter
  <2> HIDE DEF b
  <2>2. counted' = counted /\ UNCHANGED <<net, serverPts, ends>>
    BY <1>4 DEF channelDifferenceDone
  <2>3. known \subseteq known' /\ 1 .. diff.pts \subseteq known'
    BY <1>4 DEF channelDifferenceDone, fedBy
  <2>4. /\ box'.good = box.good /\ box'.last = box.last /\ box'.count = box.count
        /\ box'.queue = {}
        /\ \/ ~box'.requesting /\ diff'.state = "none"
           \/ box'.requesting /\ diff'.state = "sent" /\ diff'.pts = box.good
    <3>1. CASE ~diff.final
      <4>1. getChannelDifference(b, afterFail, NoDiff, "Unknown")
        BY <3>1 DEF channelDifferenceDone, b
      <4>2. mayRequest(b)
        BY <1>1, <2>1 DEF mayRequest, inited
      <4> QED
        BY <2>1, <4>1, <4>2, GetChannelDifferenceFields DEF NoDiff
    <3>2. CASE diff.final
      <4>1. box' = afterFinal(b) /\ diff' = NoDiff
        BY <3>2 DEF channelDifferenceDone, b
      <4> QED
        BY <2>1, <4>1 DEF afterFinal, waitForShortPoll, NoDiff, Waiter
    <3> QED
      BY <3>1, <3>2
  <2>5. counted \subseteq 1 .. diff.pts
    <3>1. counted \subseteq (box.good + 1) .. box.last /\ box.last <= diff.pts
      BY <1>1, <1>4 DEF Inductive, Accounting
    <3> QED
      BY <1>2, <3>1
  <2>6. NoSilentLoss' /\ PostponedIsKept'
    BY <2>2, <2>3, <2>4, <2>5 DEF Inductive, NoSilentLoss, PostponedIsKept
  <2>7. Accounting' /\ Fresh'
    BY <1>1, <2>2, <2>4 DEF Inductive, Accounting, Fresh, inited
  <2>8. CarriedOnce' /\ AtEnds'
    BY <2>2, <2>4 DEF Inductive, CarriedOnce, AtEnds, Points
  <2>9. DiffAgrees'
    BY <1>1, <2>4 DEF DiffAgrees, inited
  <2> QED
    BY <1>2, <2>4, <2>6, <2>7, <2>8, <2>9 DEF Inductive
<1> QED
  BY <1>3, <1>4

\* A new event: its number is above everything that is counted or carried.
LEMMA PostKeepsInductive ==
    ASSUME Inductive, TypeOK', ServerPost
    PROVE  Inductive' /\ box'.good >= box.good
<1>1. PICK kind \in {"update", "affected"}, count \in 1 .. MaxCount :
           /\ serverPts' = serverPts + count
           /\ ends' = ends \cup {serverPts'}
           /\ net' = net \cup {[kind |-> kind, pts |-> serverPts', count |-> count]}
           /\ UNCHANGED clientVars
  BY DEF ServerPost, Send
<1> DEFINE p == [kind |-> kind, pts |-> serverPts', count |-> count]
<1>2. /\ serverPts \in Nat /\ count \in Nat /\ count >= 1 /\ serverPts' \in Nat
      /\ box \in Waiter /\ box.good \in Nat /\ box.last \in Nat /\ ends \subseteq Nat
      /\ box.last <= serverPts /\ box.good <= box.last /\ serverPts >= 1
  BY <1>1 DEF Inductive, TypeOK, Waiter, Accounting, AtEnds, BoundsAssumption
<1>3. UNCHANGED <<box, diff, known, counted>>
  BY <1>1 DEF clientVars
<1>4. \A m \in net :
         /\ m.pts \in Nat /\ m.count \in Nat
         /\ m.count > 0 => m.pts <= serverPts
  <2>1. \A m \in net : m.pts \in Nat /\ m.count \in Nat
    BY DEF Inductive, TypeOK, Message
  <2>2. \A m \in net : m.count > 0 => m.pts \in ends
    BY DEF Inductive, AtEnds
  <2> QED
    BY <2>1, <2>2 DEF Inductive, AtEnds
<1>5. Points(p) = (serverPts + 1) .. serverPts'
  BY <1>1, <1>2 DEF Points
<1>6. CarriedOnce'
  <2>1. \A m \in net : Points(m) \cap Points(p) = {}
    <3> SUFFICES ASSUME NEW m \in net PROVE Points(m) \cap Points(p) = {}
      OBVIOUS
    <3>1. m.pts \in Nat /\ m.count \in Nat /\ (m.count > 0 => m.pts <= serverPts)
      BY <1>4
    <3> HIDE DEF p
    <3>2. CASE m.count = 0
      BY <3>1, <3>2 DEF Points
    <3>3. CASE m.count > 0
      <4>1. \A i \in Points(m) : i \in Int /\ i <= serverPts
        BY <1>2, <3>1, <3>3 DEF Points
      <4>2. \A i \in Points(p) : i >= serverPts + 1
        BY <1>2, <1>5
      <4> QED
        BY <1>2, <4>1, <4>2
    <3> QED
      BY <3>1, <3>2, <3>3
  <2>2. Points(p) \cap counted = {}
    BY <1>2, <1>5 DEF Inductive, Accounting
  <2>3. \A m \in net' : m \in net \/ m = p
    BY <1>1
  <2> HIDE DEF p
  <2>4. \A m \in net' : Points(m) \cap counted = {}
    BY <2>2, <2>3 DEF Inductive, CarriedOnce
  <2>5. \A m, n \in net' : m # n => Points(m) \cap Points(n) = {}
    BY <2>1, <2>3 DEF Inductive, CarriedOnce
  <2> QED
    BY <1>3, <2>4, <2>5 DEF CarriedOnce, Points
<1>7. AtEnds'
  <2>1. \A m \in net' : m \in net \/ m = p
    BY <1>1
  <2>2. \A e \in ends' : e \in ends \/ e = serverPts'
    BY <1>1
  <2>3. p.pts = serverPts' /\ p.count = count /\ p.kind # "tooLong"
    OBVIOUS
  <2>4. \A e \in ends : 1 <= e /\ e <= serverPts
    BY DEF Inductive, AtEnds
  <2> HIDE DEF p
  <2>5. \A e \in ends' : 1 <= e /\ e <= serverPts'
    BY <1>1, <1>2, <2>2, <2>4
  <2>6. \A m \in net' : m.count > 0 => \A e \in ends' \cup {0} : e >= m.pts \/ e <= m.pts - m.count
    <3>1. \A m \in net : m.count > 0 => \A e \in ends \cup {0} : e >= m.pts \/ e <= m.pts - m.count
      BY DEF Inductive, AtEnds
    <3>2. \A m \in net : m.count > 0 => serverPts' >= m.pts
      <4>1. serverPts' > serverPts
        BY <1>1, <1>2
      <4> SUFFICES ASSUME NEW m \in net, m.count > 0 PROVE serverPts' >= m.pts
        OBVIOUS
      <4>2. m.pts \in Nat /\ m.pts <= serverPts
        BY <1>4
      <4> QED
        BY <1>2, <4>1, <4>2
    <3>3. \A e \in ends \cup {0} : e <= p.pts - p.count
      BY <1>1, <1>2, <2>3, <2>4
    <3> SUFFICES ASSUME NEW m \in net', m.count > 0, NEW e \in ends' \cup {0}
                 PROVE  e >= m.pts \/ e <= m.pts - m.count
      OBVIOUS
    <3>4. e \in ends \cup {0} \/ e = serverPts'
      BY <2>2
    <3>5. CASE m = p
      BY <1>1, <1>2, <2>3, <3>3, <3>4, <3>5
    <3>6. CASE m \in net
      BY <3>1, <3>2, <3>4, <3>6
    <3> QED
      BY <2>1, <3>5, <3>6
  <2>7. \A m \in net' :
           /\ m.kind # "tooLong" => m.pts \in ends'
           /\ m.kind = "tooLong" => m.count = 0
    BY <1>1, <2>1, <2>3 DEF Inductive, AtEnds
  <2>8. serverPts' \in ends' /\ box.good \in ends' \cup {0} /\ box.last \in ends' \cup {0}
    BY <1>1 DEF Inductive, AtEnds
  <2> QED
    BY <1>3, <2>5, <2>6, <2>7, <2>8 DEF AtEnds
<1>8. NoSilentLoss' /\ PostponedIsKept' /\ Fresh'
  BY <1>3 DEF Inductive, NoSilentLoss, PostponedIsKept, Fresh, inited, Points
<1>9. Accounting'
  BY <1>1, <1>2, <1>3 DEF Inductive, Accounting
<1>10. DiffAgrees'
  BY <1>1, <1>3 DEF Inductive, DiffAgrees, inited
<1> QED
  BY <1>2, <1>3, <1>6, <1>7, <1>8, <1>9, <1>10 DEF Inductive

\* A message that carries no event.
LEMMA MentionKeepsInductive ==
    ASSUME Inductive, TypeOK', ServerMention
    PROVE  Inductive' /\ box'.good >= box.good
<1>1. PICK p : /\ p.count = 0 /\ p.pts \in {0, serverPts}
               /\ p.kind # "tooLong" => p.pts = serverPts
               /\ net' = net \cup {p}
               /\ UNCHANGED <<clientVars, serverPts, ends>>
  BY DEF ServerMention, Send
<1>2. UNCHANGED <<box, diff, known, counted, serverPts, ends>>
  BY <1>1 DEF clientVars
<1>3. serverPts \in Nat /\ box.good \in Nat /\ serverPts \in ends
  BY DEF Inductive, TypeOK, AtEnds, Waiter
<1>4. Points(p) = {}
  BY <1>1, <1>3 DEF Points
<1>5. CarriedOnce'
  <2>1. \A m \in net' : m \in net \/ m = p
    BY <1>1
  <2>2. \A m \in net' : Points(m) \cap counted = {}
    BY <1>4, <2>1 DEF Inductive, CarriedOnce
  <2>3. \A m, n \in net' : m # n => Points(m) \cap Points(n) = {}
    BY <1>4, <2>1 DEF Inductive, CarriedOnce
  <2> QED
    BY <1>2, <2>2, <2>3 DEF CarriedOnce, Points
<1>6. AtEnds'
  <2>1. \A m \in net' : m \in net \/ m = p
    BY <1>1
  <2>2. \A m \in net' : m.count > 0 => m \in net
    BY <1>1, <2>1
  <2> QED
    BY <1>1, <1>2, <1>3, <2>1, <2>2 DEF Inductive, AtEnds
<1>7. NoSilentLoss' /\ PostponedIsKept' /\ Accounting' /\ DiffAgrees' /\ Fresh'
  BY <1>2 DEF Inductive, NoSilentLoss, PostponedIsKept, Accounting, DiffAgrees,
              Fresh, inited, Points
<1> QED
  BY <1>2, <1>3, <1>5, <1>6, <1>7 DEF Inductive

\* The initial states satisfy the inductive invariant.
LEMMA InductiveInit == Init => Inductive
<1> SUFFICES ASSUME Init PROVE Inductive
  OBVIOUS
<1>1. TypeOK
  BY TypeInit
<1>2. /\ box.good \in {0, 1} /\ box.last = box.good /\ box.count = box.good
      /\ box.queue = {} /\ ~box.requesting
  <2>1. box = NewWaiter \/ box = init(NewWaiter, 1)
    BY DEF Init
  <2>2. CASE box = NewWaiter
    BY <2>2 DEF NewWaiter
  <2>3. CASE box = init(NewWaiter, 1)
    BY <2>3 DEF NewWaiter, init
  <2> QED
    BY <2>1, <2>2, <2>3
<1>3. IsFiniteSet(counted) /\ Cardinality(counted) = 0
  BY FS_EmptySet DEF Init
<1>4. NoSilentLoss /\ PostponedIsKept
  BY DEF Init, NoSilentLoss, PostponedIsKept
<1>5. Accounting /\ AtEnds
  BY <1>2, <1>3 DEF Init, Accounting, AtEnds
<1>6. CarriedOnce
  BY DEF Init, CarriedOnce
<1>7. DiffAgrees /\ Fresh
  BY <1>2 DEF Init, NoDiff, DiffAgrees, Fresh, inited
<1> QED
  BY <1>1, <1>2, <1>4, <1>5, <1>6, <1>7 DEF Inductive

\* Every step keeps the inductive invariant, and _good does not move back.
LEMMA InductiveStep ==
    ASSUME Inductive, [Next]_vars
    PROVE  Inductive' /\ box'.good >= box.good
<1>1. TypeOK' /\ TypeOK
  BY TypeStep DEF Inductive
<1>2. /\ box \in Waiter /\ box' \in Waiter /\ box.good \in Nat /\ box.last \in Nat
      /\ serverPts \in Nat /\ ends \subseteq Nat /\ diff \in Difference
  BY <1>1 DEF TypeOK, Waiter
<1>3. ASSUME NEW m \in net
      PROVE  m.pts \in Nat /\ m.count \in Nat
  BY <1>1 DEF TypeOK, Message
<1>4. CASE feedChannelUpdate
  <2>1. PICK m \in net : feedChannelUpdate!(m)
    BY <1>4 DEF feedChannelUpdate
  <2> DEFINE u == [pts |-> m.pts, count |-> m.count]
  <2>2. CASE box.requesting
    BY <1>1, <2>1, <2>2, TimersKeepInductive
  <2>3. CASE ~box.requesting
    <3>1. /\ box' = updateAndApply(box, u)
          /\ known' = known \cup loadedBefore(m.pts) \cup UNION {Points(v) : v \in applied(box, u)}
          /\ counted' = countedAfter(m.pts, m.count)
      BY <2>1, <2>3
    <3>2. CASE stale(box, m.pts, m.count)
      <4>1. ~updated(box, u) /\ afterUpdated(box, u) = box
        BY <2>3, <3>2 DEF updated, afterUpdated
      <4>2. box' = box
        BY <3>1, <4>1 DEF updateAndApply
      <4> QED
        BY <1>1, <2>1, <2>3, <3>1, <3>2, <4>2, Deliver
    <3>3. CASE ~stale(box, m.pts, m.count)
      <4>1. /\ box.queue # {} => box.skipped
            /\ ~inited(box) => box.queue = {}
        BY DEF Inductive, Fresh
      <4> DEFINE c == check(box, m.pts, m.count)
                 Q == QueuedPoints(box) \cup Points(m)
      <4>2. /\ box'.good = c.good /\ box'.last = c.last /\ box'.count = c.count
            /\ ~box'.requesting
            /\ box'.queue # {} => box'.skipped
            /\ box.queue \cup {u} \subseteq applied(box, u) \cup box'.queue
            /\ ~inited(box) \/ caughtUp(box, m.pts, m.count) =>
                  box.queue \cup {u} \subseteq applied(box, u) /\ box'.queue = {}
        <5> DEFINE r == updateAndApply(box, u)
        <5>1. /\ r.good = c.good /\ r.last = c.last /\ r.count = c.count
              /\ ~r.requesting
              /\ r.queue # {} => r.skipped
              /\ r.queue \subseteq box.queue \cup {u}
              /\ box.queue \cup {u} \subseteq applied(box, u) \cup r.queue
              /\ ~inited(box) \/ caughtUp(box, m.pts, m.count) =>
                    box.queue \cup {u} \subseteq applied(box, u) /\ r.queue = {}
          BY <1>2, <1>3, <2>3, <3>3, <4>1, UpdateKeepsOrApplies
        <5>2. box' = r
          BY <3>1
        <5> HIDE DEF r, u, c
        <5> QED
          BY <5>1, <5>2
      <4>3. Points(u) = Points(m)
        BY DEF Points
      <4> HIDE DEF c, u
      <4>4. Q \subseteq known' \cup QueuedPoints(box')
        BY <3>1, <4>2, <4>3 DEF QueuedPoints
      <4>5. ~inited(box) \/ caughtUp(box, m.pts, m.count) => Q \subseteq known' /\ box'.queue = {}
        BY <3>1, <4>2, <4>3 DEF QueuedPoints
      <4> QED
        BY <1>1, <2>1, <2>3, <3>1, <3>3, <4>2, <4>4, <4>5, Deliver DEF c
    <3> QED
      BY <3>2, <3>3
  <2> QED
    BY <2>2, <2>3
<1>5. ASSUME NEW kind \in {"affected", "seen"}, feedPts(kind)
      PROVE  Inductive' /\ box'.good >= box.good
  <2>1. PICK m \in net : feedPts(kind)!(m)
    BY <1>5 DEF feedPts
  <2>2. CASE box.requesting
    <3>1. ptsUpdated(box, m.pts, m.count) = box /\ ptsUpdatedResult(box, m.pts, m.count)
      BY <2>2 DEF ptsUpdated, ptsUpdatedResult, updated
    <3>2. box' = applySkippedUpdates(box) /\ counted' = counted
      BY <2>1, <2>2, <3>1 DEF updateAndApplyPts, countedAfter
    <3>3. box.queue = {}
      BY <2>2 DEF Inductive, DiffAgrees
    <3>4. /\ box'.good = box.good /\ box'.last = box.last /\ box'.count = box.count
          /\ box'.queue = {} /\ box'.requesting
      BY <1>2, <2>2, <3>2, <3>3
         DEF applySkippedUpdates, stopWaitingForSkipped, checkForWaiting, Waiter
    <3> QED
      BY <1>1, <2>1, <2>2, <3>2, <3>3, <3>4, QuietStepKeepsInductive
  <2>3. CASE ~box.requesting
    <3>1. /\ box' = updateAndApplyPts(box, m.pts, m.count)
          /\ known' = known \cup loadedBefore(m.pts) \cup Points(m)
                \cup UNION {Points(v) : v \in appliedByPts(box, m.pts, m.count)}
          /\ counted' = countedAfter(m.pts, m.count)
      BY <2>1
    <3>2. CASE stale(box, m.pts, m.count)
      <4>1. ~ptsUpdatedResult(box, m.pts, m.count) /\ ptsUpdated(box, m.pts, m.count) = box
        BY <2>3, <3>2 DEF ptsUpdated, ptsUpdatedResult, updated
      <4>2. box' = box
        BY <3>1, <4>1 DEF updateAndApplyPts
      <4> QED
        BY <1>1, <1>5, <2>1, <2>3, <3>1, <3>2, <4>2, Deliver
    <3>3. CASE ~stale(box, m.pts, m.count)
      <4>1. /\ box.queue # {} => box.skipped
            /\ ~inited(box) => box.queue = {}
        BY DEF Inductive, Fresh
      <4> DEFINE c == check(box, m.pts, m.count)
                 Q == QueuedPoints(box) \cup Points(m)
                 A == appliedByPts(box, m.pts, m.count)
      <4>2. /\ box'.good = c.good /\ box'.last = c.last /\ box'.count = c.count
            /\ ~box'.requesting
            /\ box'.queue # {} => box'.skipped
            /\ box.queue \subseteq A \cup box'.queue
            /\ ~inited(box) \/ caughtUp(box, m.pts, m.count) =>
                  box.queue \subseteq A /\ box'.queue = {}
        BY <1>2, <1>3, <2>3, <3>1, <3>3, <4>1, PtsKeepsOrApplies
      <4> HIDE DEF c
      <4>4. Q \subseteq known' \cup QueuedPoints(box')
        BY <3>1, <4>2 DEF QueuedPoints
      <4>5. ~inited(box) \/ caughtUp(box, m.pts, m.count) => Q \subseteq known' /\ box'.queue = {}
        BY <3>1, <4>2 DEF QueuedPoints
      <4> QED
        BY <1>1, <1>5, <2>1, <2>3, <3>1, <3>3, <4>2, <4>4, <4>5, Deliver DEF c
    <3> QED
      BY <3>2, <3>3
  <2> QED
    BY <2>2, <2>3
<1>6. CASE updateChannelTooLong
  <2>1. PICK m \in net : updateChannelTooLong!(m)
    BY <1>6 DEF updateChannelTooLong
  <2>2. CASE m.pts = 0 \/ box.good < m.pts
    BY <1>1, <1>2, <2>1, <2>2, RequestKeepsInductive
  <2>3. CASE ~(m.pts = 0 \/ box.good < m.pts)
    BY <1>1, <2>1, <2>3, TimersKeepInductive
  <2> QED
    BY <2>2, <2>3
<1>7. CASE channelDifferenceDone
  BY <1>1, <1>7, DoneKeepsInductive
<1>8. CASE channelDifferenceFail
  <2>1. diff'.state = "failed" /\ box.requesting
    BY <1>2, <1>8 DEF channelDifferenceFail, Inductive, DiffAgrees, Difference
  <2>2. DiffAgrees'
    BY <1>8, <2>1 DEF channelDifferenceFail, Inductive, DiffAgrees, inited
  <2>3. NoSilentLoss' /\ PostponedIsKept' /\ Accounting' /\ CarriedOnce' /\ AtEnds' /\ Fresh'
    BY <1>8 DEF channelDifferenceFail, Inductive, NoSilentLoss, PostponedIsKept,
                Accounting, CarriedOnce, AtEnds, Fresh, inited, Points
  <2> QED
    BY <1>1, <1>2, <1>8, <2>2, <2>3 DEF channelDifferenceFail, Inductive
<1>9. CASE getDifferenceByPts
  <2> DEFINE b == [box EXCEPT !.timer = FALSE]
  <2>1. /\ b \in Waiter /\ b.good = box.good /\ b.last = box.last /\ b.count = box.count
        /\ b.queue = box.queue /\ b.skipped = box.skipped /\ b.requesting = box.requesting
    BY <1>2 DEF Waiter
  <2> HIDE DEF b
  <2>2. /\ getChannelDifference(b, afterFail, diff, "PtsGapOrShortPoll")
        /\ UNCHANGED <<net, serverPts, ends, known, counted>>
    BY <1>9 DEF getDifferenceByPts, b
  <2> QED
    BY <1>1, <2>1, <2>2, RequestKeepsInductive
<1>10. CASE getDifferenceAfterFail
  BY <1>1, <1>2, <1>10, RequestKeepsInductive DEF getDifferenceAfterFail
<1>11. CASE User
  <2>1. /\ box'.good = box.good /\ box'.last = box.last /\ box'.count = box.count
        /\ box'.queue = box.queue /\ box'.skipped = box.skipped
        /\ box'.requesting = box.requesting
    BY <1>2, <1>11 DEF User, openChat, closeChat, deleteHistory, waitForShortPoll,
         stopWaitingForShortPoll, checkForWaiting, Waiter
  <2>2. UNCHANGED <<diff, net, serverPts, ends, known, counted>>
    BY <1>11 DEF User, openChat, closeChat, deleteHistory
  <2> QED
    BY <1>1, <2>1, <2>2, TimersKeepInductive
<1>12. CASE ServerPost
  BY <1>1, <1>12, PostKeepsInductive
<1>13. CASE ServerMention
  BY <1>1, <1>13, MentionKeepsInductive
<1>14. CASE ServerAnswer
  <2>1. /\ diff.state = "sent" /\ box.requesting /\ diff.pts = box.good
        /\ diff'.state = "answered" /\ diff'.pts \in ends /\ inited(box)
    BY <1>14 DEF ServerAnswer, Inductive, DiffAgrees
  <2>2. /\ diff'.kind = "empty" => diff'.pts = diff.pts
        /\ diff'.kind = "difference" => diff'.pts > diff.pts
        /\ diff'.kind \in {"tooLong", "tooLongNoPts"} => diff'.pts = serverPts
        /\ diff'.kind \in AnswerKinds
    BY <1>14, AnswersAssumption DEF ServerAnswer
  <2>3. box.good <= serverPts /\ box.last <= serverPts
    BY <1>2 DEF Inductive, Accounting
  <2>4. diff'.pts >= box.good /\ diff'.pts \in Nat
    <3>1. diff'.pts \in Nat
      BY <1>2, <2>1, <1>14 DEF ServerAnswer
    <3>2. diff'.pts = box.good \/ diff'.pts > box.good \/ diff'.pts = serverPts
      BY <2>1, <2>2 DEF AnswerKinds
    <3> QED
      BY <1>2, <2>3, <3>1, <3>2
  <2>5. UNCHANGED <<box, net, serverPts, ends, known, counted>>
    BY <1>14 DEF ServerAnswer
  <2>6. DiffAgrees'
    BY <1>2, <2>1, <2>2, <2>3, <2>4, <2>5 DEF Inductive, DiffAgrees, inited
  <2>7. NoSilentLoss' /\ PostponedIsKept' /\ Accounting' /\ CarriedOnce' /\ AtEnds' /\ Fresh'
    BY <2>5 DEF Inductive, NoSilentLoss, PostponedIsKept,
                Accounting, CarriedOnce, AtEnds, Fresh, inited, Points
  <2> QED
    BY <1>1, <1>2, <2>5, <2>6, <2>7 DEF Inductive
<1>15. CASE Lose
  BY <1>1, <1>15, TimersKeepInductive DEF Lose, clientVars
<1>16. CASE UNCHANGED vars
  BY <1>1, <1>16, TimersKeepInductive DEF vars
<1> QED
  BY <1>4, <1>5, <1>6, <1>7, <1>8, <1>9, <1>10, <1>11, <1>12, <1>13, <1>14,
     <1>15, <1>16 DEF Next, Handlers, Server, applyAffected, ptsReceived

\* PtsWaiter and Api::Updates never report a pts over an event the client has
\* not applied, whatever the network loses, delays or reorders.
THEOREM NothingLostSilently == Spec => []NoSilentLoss
<1>1. Inductive /\ [Next]_vars => Inductive'
  BY InductiveStep
<1>2. Inductive => NoSilentLoss
  BY DEF Inductive
<1> QED
  BY InductiveInit, <1>1, <1>2, PTL DEF Spec

\* What check() counted and the client has not applied stays in the queue
\* until it is applied or a difference is requested over it.
THEOREM PostponedNeverDropped == Spec => []PostponedIsKept
<1>1. Inductive /\ [Next]_vars => Inductive'
  BY InductiveStep
<1>2. Inductive => PostponedIsKept
  BY DEF Inductive
<1> QED
  BY InductiveInit, <1>1, <1>2, PTL DEF Spec

-----------------------------------------------------------------------------
(* The channel implements EventLog.                                        *)

\* The channel starts as a reader of the log that knows what it reports.
LEMMA LogInit == Init => Log!Init
<1> SUFFICES ASSUME Init PROVE Log!Init
  OBVIOUS
<1>1. Inductive
  BY InductiveInit
<1>2. box.good \in Nat /\ serverPts \in Nat /\ box.good <= serverPts
  BY <1>1 DEF Inductive, TypeOK, Waiter, Accounting
<1> QED
  BY <1>1, <1>2 DEF Log!Init, Inductive, NoSilentLoss

\* No handler takes an applied event back.
LEMMA KnownGrows == [Next]_vars => known \subseteq known'
  BY DEF Next, Handlers, User, Server, feedChannelUpdate, applyAffected,
         ptsReceived, feedPts, updateChannelTooLong, channelDifferenceDone,
         channelDifferenceFail, getDifferenceByPts, getDifferenceAfterFail,
         openChat, closeChat, deleteHistory, ServerPost, ServerMention,
         ServerAnswer, Lose, clientVars, vars

\* A post of the server appends to the log, every other step is a step of its
\* reader.
LEMMA LogStep == Inductive /\ [Next]_vars => [Log!Next]_Log!vars
<1> SUFFICES ASSUME Inductive, [Next]_vars
             PROVE  Log!Next
  OBVIOUS
<1>1. Inductive' /\ box'.good >= box.good
  BY InductiveStep
<1>2. known \subseteq known'
  BY KnownGrows
<1>3. /\ box.good \in Nat /\ serverPts \in Nat
      /\ box'.good \in Nat /\ serverPts' \in Nat
  BY <1>1 DEF Inductive, TypeOK, Waiter
<1>4. box'.good <= serverPts'
  BY <1>1, <1>3 DEF Inductive, TypeOK, Waiter, Accounting
<1>5. CASE ServerPost
  BY <1>3, <1>5 DEF ServerPost, clientVars, Log!Next, Log!Append
<1>6. CASE ~ServerPost
  <2>1. serverPts' = serverPts
    BY <1>6 DEF Next, Handlers, User, Server, feedChannelUpdate, applyAffected,
         ptsReceived, feedPts, updateChannelTooLong, channelDifferenceDone,
         channelDifferenceFail, getDifferenceByPts, getDifferenceAfterFail,
         openChat, closeChat, deleteHistory, ServerMention,
         ServerAnswer, Lose, vars
  <2>2. 1 .. box'.good \subseteq known'
    BY <1>1 DEF Inductive, NoSilentLoss
  <2> QED
    BY <1>1, <1>2, <1>3, <1>4, <2>1, <2>2 DEF Log!Next, Log!Learn
<1> QED
  BY <1>5, <1>6

\* Api::Updates and PtsWaiter keep a channel as EventLog demands: the pts of
\* the next request never moves back, never passes the server's nor an event
\* that is not applied, and no applied event is forgotten.
THEOREM ImplementsLog == Spec => ImplementsEventLog
<1>1. Inductive /\ [Next]_vars => Inductive'
  BY InductiveStep
<1> QED
  BY InductiveInit, LogInit, LogStep, <1>1, PTL
     DEF Spec, ImplementsEventLog, Log!Spec


-----------------------------------------------------------------------------
(* What is postponed is waited for.                                        *)

Timed(b) == b.queue # {} => b.skipped /\ b.timer

\* check() forgets neither of the two, and arms both when it finds a gap.
LEMMA CheckTimed ==
    ASSUME NEW b \in Waiter, NEW pts \in Nat, NEW count \in Nat, Timed(b)
    PROVE  /\ Timed(check(b, pts, count))
           /\ ~checkResult(b, pts, count) =>
                 check(b, pts, count).skipped /\ check(b, pts, count).timer
  BY DEF Timed, check, checkResult, init, advanced, waitForSkipped, Waiter

\* applySkippedUpdates() clears the queue it stops waiting for.
LEMMA SkippedTimed ==
    ASSUME NEW b \in Waiter
    PROVE  /\ Timed(b) => Timed(applySkippedUpdates(b))
           /\ b.skipped => applySkippedUpdates(b).queue = {}
  BY DEF Timed, applySkippedUpdates, stopWaitingForSkipped, checkForWaiting, Waiter

\* Both forms of updateAndApply() leave a queue somebody will come back for.
LEMMA UpdateTimed ==
    ASSUME NEW b \in Waiter, NEW pts \in Nat, NEW count \in Nat, Timed(b)
    PROVE  /\ Timed(updateAndApply(b, [pts |-> pts, count |-> count]))
           /\ Timed(updateAndApplyPts(b, pts, count))
<1> DEFINE u == [pts |-> pts, count |-> count]
           c == check(b, pts, count)
           v == afterUpdated(b, u)
<1>1. c \in Waiter /\ v \in Waiter /\ u \in Update
  BY CheckType, AfterUpdatedType DEF Update
<1>2. Timed(v)
  <2>1. CASE b.requesting \/ stale(b, pts, count)
    BY <2>1 DEF afterUpdated
  <2>2. CASE ~(b.requesting \/ stale(b, pts, count)) /\ checkResult(b, pts, count)
    <3>1. v = c
      BY <2>2 DEF afterUpdated
    <3> QED
      BY <3>1, CheckTimed
  <2>3. CASE ~(b.requesting \/ stale(b, pts, count)) /\ ~checkResult(b, pts, count)
    <3>1. v = [c EXCEPT !.queue = c.queue \cup {u}]
      BY <2>3 DEF afterUpdated
    <3>2. c.skipped /\ c.timer
      BY <2>3, CheckTimed
    <3>3. v.skipped /\ v.timer
      <4> HIDE DEF c, u, v
      <4> QED
        BY <1>1, <3>1, <3>2 DEF Waiter
    <3> QED
      BY <3>3 DEF Timed
  <2> QED
    BY <2>1, <2>2, <2>3
<1>3. Timed(updateAndApply(b, u))
  <2> DEFINE w == [v EXCEPT !.queue = v.queue \cup {u}]
  <2>1. CASE updated(b, u) /\ v.skipped /\ v.queue # {}
    <3>1. updateAndApply(b, u) = applySkippedUpdates(w)
      BY <2>1 DEF updateAndApply
    <3>2. w \in Waiter /\ w.skipped
      <4> HIDE DEF v, u
      <4> QED
        BY <1>1, <2>1 DEF Waiter
    <3>3. applySkippedUpdates(w).queue = {}
      BY <3>2, SkippedTimed
    <3> QED
      BY <3>1, <3>3 DEF Timed
  <2>2. CASE ~(updated(b, u) /\ v.skipped /\ v.queue # {})
    <3>1. updateAndApply(b, u) = v
      BY <2>2 DEF updateAndApply
    <3> QED
      BY <1>2, <3>1
  <2> QED
    BY <2>1, <2>2
<1>4. Timed(updateAndApplyPts(b, pts, count))
  <2>1. ptsUpdated(b, pts, count) \in Waiter /\ Timed(ptsUpdated(b, pts, count))
    BY <1>1, CheckTimed DEF ptsUpdated
  <2> QED
    BY <2>1, SkippedTimed DEF updateAndApplyPts
<1> QED
  BY <1>3, <1>4

\* getChannelDifference() clears the queue, or returns early while there is
\* none.
LEMMA RequestClearsQueue ==
    ASSUME NEW b \in Waiter, NEW a, NEW d, NEW from,
           ~mayRequest(b) => b.queue = {},
           getChannelDifference(b, a, d, from)
    PROVE  box'.queue = {}
<1>1. CASE mayRequest(b)
  <2> DEFINE f == forgetTimer(b, from)
  <2>1. f \in Waiter
    BY DEF forgetTimer, Waiter
  <2>2. box' = setRequesting(f, TRUE)
    BY <1>1 DEF getChannelDifference
  <2> HIDE DEF f
  <2> QED
    BY <2>1, <2>2 DEF setRequesting, Waiter
<1>2. CASE ~mayRequest(b)
  BY <1>2 DEF getChannelDifference, forgetTimer, Waiter
<1> QED
  BY <1>1, <1>2

\* The initial queue is empty.
LEMMA TimedInit == Init => QueuedIsTimed
<1>1. NewWaiter.queue = {} /\ init(NewWaiter, 1).queue = {}
  BY DEF NewWaiter, init
<1> QED
  BY <1>1 DEF Init, QueuedIsTimed

\* Every step leaves a queue that is timed.
LEMMA TimedStep == Inductive /\ QueuedIsTimed /\ [Next]_vars => QueuedIsTimed'
<1> SUFFICES ASSUME Inductive, Timed(box), [Next]_vars
             PROVE  Timed(box')
  BY DEF QueuedIsTimed, Timed
<1>1. box \in Waiter /\ diff \in Difference
  BY DEF Inductive, TypeOK
<1>2. ASSUME NEW m \in net
      PROVE  m.pts \in Nat /\ m.count \in Nat
  BY DEF Inductive, TypeOK, Message
<1>3. ~mayRequest(box) => box.queue = {}
  BY DEF mayRequest, Inductive, DiffAgrees, Fresh
<1>4. CASE feedChannelUpdate
  <2>1. PICK m \in net : feedChannelUpdate!(m)
    BY <1>4 DEF feedChannelUpdate
  <2>2. \/ box' = box
        \/ box' = updateAndApply(box, [pts |-> m.pts, count |-> m.count])
    BY <2>1
  <2> QED
    BY <1>1, <1>2, <2>2, UpdateTimed
<1>5. ASSUME NEW kind, feedPts(kind)
      PROVE  Timed(box')
  <2>1. PICK m \in net : feedPts(kind)!(m)
    BY <1>5 DEF feedPts
  <2> QED
    BY <1>1, <1>2, <2>1, UpdateTimed
<1>6. CASE updateChannelTooLong
  BY <1>1, <1>3, <1>6, RequestClearsQueue DEF updateChannelTooLong, Timed
<1>7. CASE channelDifferenceDone
  <2> DEFINE r == resynced(box, diff)
             b == setRequesting(r, FALSE)
  <2>1. diff.pts \in Nat
    BY <1>1 DEF Difference
  <2>2. r \in Waiter
    BY <1>1, <2>1, SettersType DEF resynced
  <2>3. box.queue = {}
    BY <1>7 DEF channelDifferenceDone, Inductive, DiffAgrees
  <2>4. init(box, diff.pts) \in Waiter /\ init(box, diff.pts).queue = {}
    BY <1>1, <2>1, SettersType DEF init, Waiter
  <2>5. r.queue = {}
    <3>1. applySkippedUpdates(init(box, diff.pts)).queue = {}
      BY <2>4 DEF applySkippedUpdates, stopWaitingForSkipped, checkForWaiting, Waiter
    <3> QED
      BY <2>3, <2>4, <3>1 DEF resynced
  <2> HIDE DEF r
  <2>6. b \in Waiter /\ b.queue = {}
    BY <2>2, <2>5, SettersType DEF setRequesting, Waiter
  <2>7. \/ getChannelDifference(b, afterFail, NoDiff, "Unknown")
        \/ box' = afterFinal(b)
    BY <1>7 DEF channelDifferenceDone, r
  <2> HIDE DEF b
  <2>8. afterFinal(b).queue = {}
    BY <2>6 DEF afterFinal, waitForShortPoll, Waiter
  <2>9. box'.queue = {}
    BY <2>6, <2>7, <2>8, RequestClearsQueue
  <2> QED
    BY <2>9 DEF Timed
<1>8. CASE getDifferenceByPts
  <2> DEFINE b == [box EXCEPT !.timer = FALSE]
  <2>1. b \in Waiter /\ (~mayRequest(b) => b.queue = {})
    BY <1>1, <1>3 DEF mayRequest, inited, Waiter
  <2>2. getChannelDifference(b, afterFail, diff, "PtsGapOrShortPoll")
    BY <1>8 DEF getDifferenceByPts
  <2> HIDE DEF b
  <2> QED
    BY <2>1, <2>2, RequestClearsQueue DEF Timed
<1>9. CASE getDifferenceAfterFail
  BY <1>1, <1>3, <1>9, RequestClearsQueue DEF getDifferenceAfterFail, Timed
<1>10. CASE User
  BY <1>1, <1>10 DEF User, openChat, closeChat, deleteHistory, waitForShortPoll,
         stopWaitingForShortPoll, checkForWaiting, Timed, Waiter
<1>11. CASE UNCHANGED box
  BY <1>11
<1>12. channelDifferenceFail \/ Server \/ Lose \/ UNCHANGED vars => UNCHANGED box
  BY DEF channelDifferenceFail, Server, ServerPost, ServerMention, ServerAnswer,
         Lose, clientVars, vars
<1> QED
  BY <1>4, <1>5, <1>6, <1>7, <1>8, <1>9, <1>10, <1>11, <1>12
     DEF Next, Handlers, applyAffected, ptsReceived

\* An update PtsWaiter has postponed always has its timer running in
\* Api::Updates: no handler cancels the timer over a queue.
THEOREM QueuedAlwaysTimed == Spec => []QueuedIsTimed
<1>1. Inductive /\ [Next]_vars => Inductive'
  BY InductiveStep
<1> QED
  BY InductiveInit, TimedInit, TimedStep, <1>1, PTL DEF Spec
=============================================================================
