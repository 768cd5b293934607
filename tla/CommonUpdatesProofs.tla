-------------------------- MODULE CommonUpdatesProofs --------------------------
(***************************************************************************)
(* Proofs about CommonUpdates, for any number of events, containers and    *)
(* messages in flight: neither the account's _good nor its _updatesSeq     *)
(* passes anything that was not applied, and the account's box implements  *)
(* EventLog.                                                               *)
(*                                                                         *)
(* A handler there is a composition of operators from the Updates object   *)
(* before a call to the object after it, so the invariant Good speaks of   *)
(* an object s and the events E that are on their way to it outside of     *)
(* _bySeqUpdates, and there is one lemma for each operator.                *)
(***************************************************************************)
EXTENDS CommonUpdates, FiniteSetTheorems, WellFoundedInduction, TLAPS

-----------------------------------------------------------------------------
(* The inductive invariant.                                                *)

\* The events that messages, or updates in a queue, stand for.
EventsOf(M) == UNION {Points(m) : m \in M}

\* C is what check() has counted since _good last moved.  _count is exact,
\* none of C is on its way once more, and what is not applied is queued.
Exact(s, C, E, top) ==
    /\ IsFiniteSet(C)
    /\ s.box.count = s.box.good + Cardinality(C)
    /\ s.box.good <= s.box.last /\ s.box.last <= top
    /\ C \cap E = {} /\ C \cap EventsOf(s.bySeq) = {}
    /\ ~s.box.requesting => C \subseteq s.known \cup EventsOf(s.box.queue)

\* No two messages stand for the same event.
Apart(M) == \A m, n \in M : m # n => Points(m) \cap Points(n) = {}

\* What a server whose pts is top has sent: one event in a message at most.
Shaped(M, top) ==
    \A m \in M :
        /\ m.count \in {0, 1} /\ m.pts <= top
        /\ m.kind = "updates" => (m.what = "message" <=> m.count = 1)
        /\ m.kind \in {"short", "affected"} => m.count = 1
        /\ m.kind = "affected" => m.via = "result"

\* Containers wait for the ones before them, each with events of its own.
Waiting(s, E, top) ==
    /\ IsFiniteSet(s.bySeq) /\ Apart(s.bySeq) /\ Shaped(s.bySeq, top)
    /\ E \cap EventsOf(s.bySeq) = {}
    /\ \A m \in s.bySeq : m.kind = "updates" /\ m.seq # 0

\* The flag of the waiter stands for a request; without one the pts is known.
Requesting(s) ==
    /\ s.box.requesting <=> s.diff.state # "none"
    /\ s.box.requesting => s.box.queue = {}
    /\ inited(s.box) \/ s.box.requesting
    /\ s.afterFail => inited(s.box)

Good(s, E, top) ==
    /\ s \in Updates
    /\ 1 .. s.seq \subseteq s.knownSeq
    /\ 1 .. s.box.good \subseteq s.known
    /\ s.box.queue # {} => s.box.skipped
    /\ \E C \in SUBSET ((s.box.good + 1) .. s.box.last) : Exact(s, C, E, top)
    /\ Waiting(s, E, top)
    /\ Requesting(s)

\* A request is made from _good and its answer does not lag behind it.
Answering ==
    /\ inited(st.box) \/ (st.diff.state # "none" /\ st.diff.kind = "state")
    /\ st.diff.state = "sent" => st.diff.pts = st.box.good
    /\ st.diff.state = "answered" =>
          /\ 1 <= st.diff.pts /\ st.box.good <= st.diff.pts /\ st.diff.pts <= serverPts
          /\ st.diff.kind = "empty" => inited(st.box) /\ st.diff.pts = st.box.good

Inductive ==
    /\ TypeOK
    /\ serverPts >= 1
    /\ Good(st, EventsOf(net), serverPts)
    /\ Apart(net) /\ Shaped(net, serverPts)
    /\ Answering

-----------------------------------------------------------------------------
(* The loop over _bySeqUpdates.  What holds before it and is kept by every *)
(* turn holds after it, however many turns it takes.                       *)

\* A set of naturals has a least element.
LEMMA Least ==
    ASSUME NEW T \in SUBSET Nat, T # {}
    PROVE  \E n \in T : \A k \in T : n <= k
<1> DEFINE R == OpToRel(<, Nat)
<1>1. IsWellFoundedOn(R, Nat)
  BY NatLessThanWellFounded
<1> HIDE DEF R
<1>2. PICK n \in T : \A k \in T : ~(<<k, n>> \in R)
  BY <1>1, WFMin
<1>3. \A k \in Nat : k < n => <<k, n>> \in R
  BY DEF R, OpToRel
<1>4. \A k \in T : ~(k < n)
  BY <1>2, <1>3
<1> HIDE <1>2, <1>3
<1> QED
  BY ONLY <1>4, T \in SUBSET Nat, n \in T

\* f[n] is the object after n turns, up to k.
Turns(f, s, k) == f = [n \in 0 .. k |-> IF n = 0 THEN s ELSE turn[f[n - 1]]]

\* There is such a function, for any number of turns.
LEMMA TurnsExist ==
    ASSUME NEW k \in Nat, NEW s
    PROVE  \E f : Turns(f, s, k)
<1> DEFINE T == {n \in Nat : ~ \E f : Turns(f, s, n)}
<1> SUFFICES ASSUME T # {} PROVE FALSE
  OBVIOUS
<1>1. PICK n \in T : \A j \in T : n <= j
  <2>1. T \in SUBSET Nat
    OBVIOUS
  <2> HIDE DEF T
  <2> QED
    BY <2>1, Least
<1>2. /\ n \in Nat /\ ~ \E f : Turns(f, s, n)
      /\ \A j \in Nat : j < n => \E f : Turns(f, s, j)
  BY <1>1
<1> HIDE DEF T
<1>3. n # 0
  <2>1. Turns([i \in 0 .. 0 |-> s], s, 0)
    BY DEF Turns
  <2> QED
    BY <1>2, <2>1
<1>4. PICK g : Turns(g, s, n - 1)
  BY <1>2, <1>3
<1> DEFINE h == [i \in 0 .. n |-> IF i = 0 THEN s ELSE turn[g[i - 1]]]
<1>5. g = [i \in 0 .. n - 1 |-> IF i = 0 THEN s ELSE turn[g[i - 1]]]
  BY <1>4 DEF Turns
<1> HIDE <1>4
<1>6. \A i \in 0 .. n : i # 0 => h[i - 1] = g[i - 1]
  BY <1>2, <1>3, <1>5
<1>7. h = [i \in 0 .. n |-> IF i = 0 THEN s ELSE turn[h[i - 1]]]
  <2> SUFFICES ASSUME NEW i \in 0 .. n
               PROVE  h[i] = IF i = 0 THEN s ELSE turn[h[i - 1]]
    BY Zenon
  <2> QED
    BY <1>6
<1> QED
  BY <1>2, <1>7 DEF Turns

\* A set of objects that a turn does not leave is not left by the loop.
LEMMA TurnsStay ==
    ASSUME NEW k \in Nat, NEW s, NEW f, Turns(f, s, k),
           NEW S, s \in S, \A r \in S : turn[r] \in S
    PROVE  f[k] \in S
<1>1. f[0] = s /\ \A n \in 1 .. k : f[n] = turn[f[n - 1]]
  BY DEF Turns
<1> DEFINE T == {n \in 0 .. k : f[n] \notin S}
<1> SUFFICES ASSUME T # {} PROVE FALSE
  OBVIOUS
<1>2. PICK n \in T : \A j \in T : n <= j
  <2>1. T \in SUBSET Nat
    OBVIOUS
  <2> HIDE DEF T
  <2> QED
    BY <2>1, Least
<1>3. n \in 0 .. k /\ f[n] \notin S /\ \A j \in 0 .. k : j < n => f[j] \in S
  BY <1>2
<1> HIDE DEF T
<1>4. n # 0 /\ f[n - 1] \in S
  BY <1>1, <1>3
<1> QED
  BY <1>1, <1>3, <1>4

\* drain() ends in an object of any set that contains its argument and is
\* kept by the turns, after arming the timer if it ends at a gap.
LEMMA DrainStays ==
    ASSUME NEW s, IsFiniteSet(s.bySeq),
           NEW S, s \in S, \A r \in S : turn[r] \in S
    PROVE  \E t \in S : drain(s) = IF t.bySeq = {} THEN t ELSE gapFound(t)
<1> DEFINE k == Cardinality(s.bySeq)
           f == CHOOSE g : Turns(g, s, k)
<1>1. k \in Nat
  BY FS_CardinalityType
<1>2. Turns(f, s, k)
  <2> HIDE DEF k
  <2> QED
    BY <1>1, TurnsExist
<1>3. f[k] \in S
  <2> HIDE DEF k, f
  <2> QED
    BY <1>1, <1>2, TurnsStay
<1>4. drain(s) = IF f[k].bySeq = {} THEN f[k] ELSE gapFound(f[k])
  BY DEF drain, Turns
<1> QED
  BY <1>3, <1>4

-----------------------------------------------------------------------------
(* The methods of PtsWaiter keep the members in their types.               *)

\* init(), setRequesting(), the wait for skipped updates and its end.
LEMMA SettersType ==
    ASSUME NEW b \in Waiter, NEW pts \in Nat, NEW flag \in BOOLEAN
    PROVE  /\ init(b, pts) \in Waiter
           /\ setRequesting(b, flag) \in Waiter
           /\ [b EXCEPT !.timer = flag] \in Waiter
           /\ waitForSkipped(b) \in Waiter
           /\ applySkippedUpdates(b) \in Waiter
  BY DEF Waiter, init, setRequesting, waitForSkipped, stopWaitingForSkipped,
         checkForWaiting, applySkippedUpdates

\* check() keeps the members in their types.
LEMMA CheckType ==
    ASSUME NEW b \in Waiter, NEW pts \in Nat, NEW count \in Nat
    PROVE  check(b, pts, count) \in Waiter
<1>1. Larger(b.last, pts) \in Nat /\ b.count + count \in Nat
  BY DEF Larger, Waiter
<1>2. advanced(b, pts, count) \in Waiter
  BY <1>1 DEF advanced, Waiter
<1>3. [advanced(b, pts, count) EXCEPT !.good = Larger(b.last, pts)] \in Waiter
  BY <1>1, <1>2 DEF Waiter
<1> QED
  BY <1>2, <1>3, SettersType DEF check

\* So does updated(), and an update fits in the queue.
LEMMA AfterUpdatedType ==
    ASSUME NEW b \in Waiter, NEW u \in Update
    PROVE  /\ afterUpdated(b, u) \in Waiter
           /\ [b EXCEPT !.queue = b.queue \cup {u}] \in Waiter
<1> DEFINE c == check(b, u.pts, u.count)
<1>1. c \in Waiter
  BY CheckType DEF Update
<1>2. ASSUME NEW w \in Waiter
      PROVE  [w EXCEPT !.queue = w.queue \cup {u}] \in Waiter
  BY <1>2 DEF Waiter
<1> QED
  BY <1>1, <1>2 DEF afterUpdated

\* So does updateAndApply() in its two forms; what they apply are updates.
LEMMA UpdateType ==
    ASSUME NEW b \in Waiter, NEW u \in Update
    PROVE  /\ updateAndApply(b, u) \in Waiter
           /\ applied(b, u) \subseteq Update
           /\ updateAndApplyPts(b, u.pts, u.count) \in Waiter
           /\ appliedByPts(b, u.pts, u.count) \subseteq Update
<1> DEFINE v == afterUpdated(b, u)
           c == ptsUpdated(b, u.pts, u.count)
<1>1. v \in Waiter /\ v.queue \subseteq Update
  BY AfterUpdatedType DEF Waiter
<1>2. c \in Waiter /\ c.queue \subseteq Update
  <2>1. c \in Waiter
    BY CheckType DEF ptsUpdated, Update
  <2> QED
    BY <2>1 DEF Waiter
<1>3. updateAndApply(b, u) \in Waiter
  BY <1>1, AfterUpdatedType, SettersType DEF updateAndApply
<1>4. applied(b, u) \subseteq Update
  BY <1>1 DEF applied
<1>5. updateAndApplyPts(b, u.pts, u.count) \in Waiter
  BY <1>2, SettersType DEF updateAndApplyPts
<1>6. appliedByPts(b, u.pts, u.count) \subseteq Update
  BY <1>2 DEF appliedByPts, skippedToApply
<1> QED
  BY <1>3, <1>4, <1>5, <1>6

-----------------------------------------------------------------------------
(* One event reaches a waiter while no difference is requested.            *)

\* The waiter b has counted C since _good last moved, and K is applied.
Counted(b, C, K) ==
    /\ b \in Waiter /\ inited(b) /\ ~b.requesting
    /\ IsFiniteSet(C) /\ C \subseteq (b.good + 1) .. b.last
    /\ b.count = b.good + Cardinality(C)
    /\ b.good <= b.last
    /\ 1 .. b.good \subseteq K
    /\ C \subseteq K \cup EventsOf(b.queue)
    /\ b.queue # {} => b.skipped

\* check(): the count stays exact, and when _last = _count nothing between
\* the old _good and the new one is missing from what was counted.
LEMMA CheckCounts ==
    ASSUME NEW b, NEW C, NEW K, Counted(b, C, K),
           NEW p \in Nat, p > b.good, p \notin C
    PROVE  LET c == check(b, p, 1)
               D == IF caughtUp(b, p, 1) THEN {} ELSE C \cup {p}
           IN  /\ IsFiniteSet(D)
               /\ D \subseteq (c.good + 1) .. c.last
               /\ c.count = c.good + Cardinality(D)
               /\ b.good <= c.good /\ c.good <= c.last /\ c.last \in {b.last, p}
               /\ ~caughtUp(b, p, 1) => c.good = b.good
               /\ caughtUp(b, p, 1) => (b.good + 1) .. c.good = C \cup {p}
<1> DEFINE c == check(b, p, 1)
           L == Larger(b.last, p)
<1>1. /\ b \in Waiter /\ inited(b)
      /\ b.good \in Nat /\ b.last \in Nat /\ b.count \in Nat
      /\ IsFiniteSet(C) /\ C \subseteq (b.good + 1) .. b.last
      /\ b.count = b.good + Cardinality(C) /\ b.good <= b.last
  BY DEF Counted, Waiter
<1>2. L \in Nat /\ L >= b.last /\ L >= p /\ L \in {b.last, p}
  BY <1>1 DEF Larger
<1>3. IsFiniteSet(C \cup {p}) /\ Cardinality(C \cup {p}) = Cardinality(C) + 1
  BY <1>1, FS_AddElement
<1>4. Cardinality(C) \in Nat
  BY <1>1, FS_CardinalityType
<1>5. C \cup {p} \subseteq (b.good + 1) .. L
  BY <1>1, <1>2
<1>6. CASE caughtUp(b, p, 1)
  <2>1. c.good = L /\ c.last = L /\ c.count = L
    BY <1>1, <1>6 DEF check, advanced, caughtUp, Waiter
  <2>2. Cardinality((b.good + 1) .. L) = L - b.good /\ IsFiniteSet((b.good + 1) .. L)
    <3> HIDE DEF L
    <3>1. b.good + 1 \in Int /\ L \in Int /\ b.good <= L
      BY <1>1, <1>2
    <3>2. /\ IsFiniteSet((b.good + 1) .. L)
          /\ Cardinality((b.good + 1) .. L)
               = IF b.good + 1 > L THEN 0 ELSE L - (b.good + 1) + 1
      BY <3>1, FS_Interval
    <3> QED
      BY <1>1, <3>1, <3>2
  <2>3. Cardinality(C \cup {p}) = L - b.good
    <3>1. L = b.count + 1
      BY <1>6 DEF caughtUp
    <3> HIDE DEF L
    <3> QED
      BY <1>1, <1>3, <1>4, <3>1
  <2>4. C \cup {p} = (b.good + 1) .. L
    <3> HIDE DEF L
    <3> QED
      BY <1>5, <2>2, <2>3, FS_Subset
  <2>5. IsFiniteSet({}) /\ Cardinality({}) = 0
    BY FS_EmptySet
  <2> HIDE DEF c, L
  <2> QED
    BY <1>1, <1>2, <1>6, <2>1, <2>4, <2>5 DEF c
<1>7. CASE ~caughtUp(b, p, 1)
  <2>1. c.good = b.good /\ c.last = L /\ c.count = b.count + 1
    BY <1>1, <1>7 DEF check, advanced, waitForSkipped, Waiter
  <2> HIDE DEF c, L
  <2> QED
    BY <1>1, <1>2, <1>3, <1>4, <1>5, <1>7, <2>1 DEF c
<1> QED
  BY <1>6, <1>7

\* What both forms of updateAndApply() do: the counts are those of check();
\* what was queued and the event itself are applied, or queued and waited for.
TakesOne(b, p, r, K, K2) ==
    LET c == check(b, p, 1)
        Q == EventsOf(b.queue) \cup {p}
    IN  /\ r \in Waiter
        /\ r.good = c.good /\ r.last = c.last /\ r.count = c.count
        /\ ~r.requesting
        /\ r.queue # {} => r.skipped
        /\ K \subseteq K2
        /\ Q \subseteq K2 \cup EventsOf(r.queue)
        /\ caughtUp(b, p, 1) => Q \subseteq K2

\* Such a call keeps the accounts.
LEMMA TakesOneCounted ==
    ASSUME NEW b, NEW C, NEW K, Counted(b, C, K),
           NEW p \in Nat, p > b.good, p \notin C,
           NEW r, NEW K2, TakesOne(b, p, r, K, K2)
    PROVE  \E D : /\ Counted(r, D, K2)
                  /\ D \subseteq C \cup {p}
                  /\ b.good <= r.good /\ r.last \in {b.last, p}
<1> DEFINE c == check(b, p, 1)
           D == IF caughtUp(b, p, 1) THEN {} ELSE C \cup {p}
<1>1. /\ IsFiniteSet(D)
      /\ D \subseteq (c.good + 1) .. c.last
      /\ c.count = c.good + Cardinality(D)
      /\ b.good <= c.good /\ c.good <= c.last /\ c.last \in {b.last, p}
      /\ ~caughtUp(b, p, 1) => c.good = b.good
      /\ caughtUp(b, p, 1) => (b.good + 1) .. c.good = C \cup {p}
  BY CheckCounts
<1>2. /\ r \in Waiter
      /\ r.good = c.good /\ r.last = c.last /\ r.count = c.count
      /\ ~r.requesting
      /\ r.queue # {} => r.skipped
      /\ K \subseteq K2
      /\ EventsOf(b.queue) \cup {p} \subseteq K2 \cup EventsOf(r.queue)
      /\ caughtUp(b, p, 1) => EventsOf(b.queue) \cup {p} \subseteq K2
  BY DEF TakesOne
<1> HIDE DEF c
<1>3. /\ b.good \in Nat /\ b.good > 0 /\ r.good \in Nat
      /\ 1 .. b.good \subseteq K /\ C \subseteq K \cup EventsOf(b.queue)
  BY <1>2 DEF Counted, inited, Waiter
<1>4. D \subseteq K2 \cup EventsOf(r.queue)
  BY <1>2, <1>3
<1>5. 1 .. r.good \subseteq K2
  <2>1. CASE caughtUp(b, p, 1)
    <3>1. C \cup {p} \subseteq K2
      BY <1>2, <1>3, <2>1
    <3>2. \A i \in 1 .. r.good : i \in 1 .. b.good \/ i \in (b.good + 1) .. r.good
      BY <1>3
    <3> QED
      BY <1>1, <1>2, <1>3, <2>1, <3>1, <3>2
  <2>2. CASE ~caughtUp(b, p, 1)
    BY <1>1, <1>2, <1>3, <2>2
  <2> QED
    BY <2>1, <2>2
<1>6. inited(r)
  BY <1>1, <1>2, <1>3 DEF inited
<1>7. D \subseteq C \cup {p}
  OBVIOUS
<1> HIDE DEF D
<1>8. Counted(r, D, K2)
  BY <1>1, <1>2, <1>4, <1>5, <1>6 DEF Counted
<1> QED
  BY <1>1, <1>2, <1>7, <1>8

\* One event is one number.
LEMMA PointsOfOne ==
    ASSUME NEW u, u.pts \in Nat
    PROVE  /\ u.count = 1 => Points(u) = {u.pts}
           /\ u.count = 0 => Points(u) = {}
  BY DEF Points

\* updateAndApply(update) takes a new event.
LEMMA UpdateTakesOne ==
    ASSUME NEW b \in Waiter, inited(b), ~b.requesting, b.queue # {} => b.skipped,
           NEW p \in Nat, p > b.good, NEW K
    PROVE  LET u == [pts |-> p, count |-> 1]
           IN  TakesOne(b, p, updateAndApply(b, u), K, K \cup EventsOf(applied(b, u)))
<1> DEFINE u == [pts |-> p, count |-> 1]
           c == check(b, p, 1)
           v == afterUpdated(b, u)
           r == updateAndApply(b, u)
           K2 == K \cup EventsOf(applied(b, u))
           W == [v EXCEPT !.queue = v.queue \cup {u}]
<1>1. /\ u \in Update /\ u.pts = p /\ u.count = 1 /\ ~stale(b, p, 1)
      /\ Points(u) = {p}
  BY PointsOfOne DEF Update, stale, Waiter
<1>2. c \in Waiter /\ v \in Waiter /\ r \in Waiter
  BY <1>1, CheckType, AfterUpdatedType, UpdateType
<1>3. /\ ~c.requesting /\ c.queue = b.queue
      /\ caughtUp(b, p, 1) => c.skipped = b.skipped
      /\ ~caughtUp(b, p, 1) => c.skipped
  BY DEF check, advanced, waitForSkipped, Waiter
<1>4. checkResult(b, p, 1) <=> caughtUp(b, p, 1)
  BY DEF checkResult
<1> HIDE DEF c, u
<1>5. EventsOf(c.queue \cup {u}) = EventsOf(b.queue) \cup {p}
  BY <1>1, <1>3 DEF EventsOf
<1>6. CASE caughtUp(b, p, 1)
  <2>1. v = c /\ updated(b, u)
    BY <1>1, <1>4, <1>6 DEF afterUpdated, updated, c
  <2>2. CASE c.skipped /\ c.queue # {}
    <3>1. r = applySkippedUpdates(W)
      BY <2>1, <2>2 DEF updateAndApply
    <3>2. /\ r.good = c.good /\ r.last = c.last /\ r.count = c.count
          /\ r.queue = {} /\ ~r.requesting
      BY <1>2, <1>3, <2>1, <2>2, <3>1
         DEF applySkippedUpdates, stopWaitingForSkipped, checkForWaiting, Waiter
    <3>3. applied(b, u) = c.queue \cup {u}
      BY <2>1, <2>2 DEF applied
    <3>4. EventsOf(b.queue) \cup {p} \subseteq K2
      BY <1>5, <3>3
    <3> HIDE DEF r, K2
    <3>5. K \subseteq K2
      BY DEF K2
    <3> QED
      BY <1>2, <1>6, <3>2, <3>4, <3>5 DEF TakesOne, c, u, r, K2
  <2>3. CASE ~(c.skipped /\ c.queue # {})
    <3>1. r = c /\ applied(b, u) = {u}
      BY <2>1, <2>3 DEF updateAndApply, applied
    <3>2. b.queue = {}
      BY <1>3, <1>6, <2>3
    <3>3. EventsOf(b.queue) \cup {p} \subseteq K2
      BY <1>1, <3>1, <3>2 DEF EventsOf
    <3>4. K \subseteq K2 /\ r.queue = {}
      BY <1>3, <3>1, <3>2
    <3> HIDE DEF r, K2
    <3> QED
      BY <1>2, <1>3, <1>6, <3>1, <3>3, <3>4 DEF TakesOne, c, u, r, K2
  <2> QED
    BY <2>2, <2>3
<1>7. CASE ~caughtUp(b, p, 1)
  <2>1. v = [c EXCEPT !.queue = c.queue \cup {u}] /\ ~updated(b, u)
    BY <1>1, <1>4, <1>7 DEF afterUpdated, updated, c
  <2>2. r = v
    BY <2>1 DEF updateAndApply
  <2>3. /\ r.good = c.good /\ r.last = c.last /\ r.count = c.count
        /\ r.queue = c.queue \cup {u} /\ r.skipped /\ ~r.requesting
    BY <1>2, <1>3, <1>7, <2>1, <2>2 DEF Waiter
  <2>4. EventsOf(b.queue) \cup {p} \subseteq EventsOf(r.queue) /\ K \subseteq K2
    BY <1>5, <2>3
  <2> HIDE DEF r, K2
  <2> QED
    BY <1>2, <1>7, <2>3, <2>4 DEF TakesOne, c, u, r, K2
<1> QED
  BY <1>6, <1>7

\* updateAndApply(pts, count) takes a new event, which the caller applies.
LEMMA PtsTakesOne ==
    ASSUME NEW b \in Waiter, inited(b), ~b.requesting, b.queue # {} => b.skipped,
           NEW p \in Nat, p > b.good, NEW K
    PROVE  TakesOne(b, p, updateAndApplyPts(b, p, 1), K,
                    K \cup {p} \cup EventsOf(appliedByPts(b, p, 1)))
<1> DEFINE u == [pts |-> p, count |-> 1]
           c == check(b, p, 1)
           r == updateAndApplyPts(b, p, 1)
           K2 == K \cup {p} \cup EventsOf(appliedByPts(b, p, 1))
<1>1. ~stale(b, p, 1) /\ u \in Update /\ u.pts = p /\ u.count = 1
  BY DEF stale, Update, Waiter
<1>2. c \in Waiter /\ r \in Waiter
  <2> HIDE DEF u
  <2> QED
    BY <1>1, CheckType, UpdateType
<1>3. /\ ~c.requesting /\ c.queue = b.queue
      /\ caughtUp(b, p, 1) => c.skipped = b.skipped
      /\ ~caughtUp(b, p, 1) => c.skipped
  BY DEF check, advanced, waitForSkipped, Waiter
<1>4. ptsUpdated(b, p, 1) = c
  BY <1>1 DEF ptsUpdated
<1>5. ptsUpdatedResult(b, p, 1) <=> caughtUp(b, p, 1)
  BY <1>1 DEF ptsUpdatedResult, updated, checkResult
<1> HIDE DEF c, u
<1>6. CASE caughtUp(b, p, 1)
  <2>1. r = applySkippedUpdates(c) /\ appliedByPts(b, p, 1) = skippedToApply(c)
    BY <1>4, <1>5, <1>6 DEF updateAndApplyPts, appliedByPts
  <2>2. /\ r.good = c.good /\ r.last = c.last /\ r.count = c.count
        /\ ~r.requesting /\ r.queue = {} /\ skippedToApply(c) = b.queue
    BY <1>2, <1>3, <1>6, <2>1
       DEF applySkippedUpdates, stopWaitingForSkipped, checkForWaiting,
           skippedToApply, Waiter
  <2>3. EventsOf(b.queue) \cup {p} \subseteq K2 /\ K \subseteq K2
    BY <2>1, <2>2
  <2> HIDE DEF r, K2
  <2> QED
    BY <1>2, <1>6, <2>2, <2>3 DEF TakesOne, c, r, K2
<1>7. CASE ~caughtUp(b, p, 1)
  <2>1. r = c
    BY <1>4, <1>5, <1>7 DEF updateAndApplyPts
  <2>2. p \in K2 /\ K \subseteq K2
    OBVIOUS
  <2> HIDE DEF r, K2
  <2> QED
    BY <1>2, <1>3, <1>7, <2>1, <2>2 DEF TakesOne, c, r, K2
<1> QED
  BY <1>6, <1>7

\* Nothing happens to an event that was taken before, and to the counts of a
\* waiter that waits for a difference.
LEMMA TakesNone ==
    ASSUME NEW b \in Waiter, NEW u \in Update, u.count = 1
    PROVE  LET r == updateAndApply(b, u)
               q == updateAndApplyPts(b, u.pts, u.count)
           IN  /\ ~b.requesting /\ u.pts <= b.good =>
                     /\ r = b /\ applied(b, u) = {}
                     /\ q = b /\ appliedByPts(b, u.pts, u.count) = {}
               /\ b.requesting /\ b.queue = {} =>
                     /\ r = b
                     /\ q.good = b.good /\ q.last = b.last /\ q.count = b.count
                     /\ q.requesting /\ q.queue = {}
<1>1. ASSUME ~b.requesting, u.pts <= b.good
      PROVE  /\ updateAndApply(b, u) = b /\ applied(b, u) = {}
             /\ updateAndApplyPts(b, u.pts, u.count) = b
             /\ appliedByPts(b, u.pts, u.count) = {}
  <2>1. stale(b, u.pts, u.count)
    BY <1>1 DEF stale
  <2>2. afterUpdated(b, u) = b /\ ~updated(b, u)
    BY <1>1, <2>1 DEF afterUpdated, updated
  <2>3. ~ptsUpdatedResult(b, u.pts, u.count) /\ ptsUpdated(b, u.pts, u.count) = b
    BY <1>1, <2>1 DEF ptsUpdatedResult, ptsUpdated, updated
  <2> QED
    BY <2>2, <2>3 DEF updateAndApply, applied, updateAndApplyPts, appliedByPts
<1>2. ASSUME b.requesting, b.queue = {}
      PROVE  LET q == updateAndApplyPts(b, u.pts, u.count)
             IN  /\ updateAndApply(b, u) = b
                 /\ q.good = b.good /\ q.last = b.last /\ q.count = b.count
                 /\ q.requesting /\ q.queue = {}
  <2>1. afterUpdated(b, u) = b
    BY <1>2 DEF afterUpdated
  <2>2. ptsUpdated(b, u.pts, u.count) = b
    BY <1>2 DEF ptsUpdated
  <2>3. updateAndApplyPts(b, u.pts, u.count) \in {b, applySkippedUpdates(b)}
    BY <2>2 DEF updateAndApplyPts
  <2>4. LET a == applySkippedUpdates(b)
        IN  /\ a.good = b.good /\ a.last = b.last /\ a.count = b.count
            /\ a.requesting /\ a.queue = {}
    BY <1>2 DEF applySkippedUpdates, stopWaitingForSkipped, checkForWaiting, Waiter
  <2> QED
    BY <1>2, <2>1, <2>3, <2>4 DEF updateAndApply
<1> QED
  BY <1>1, <1>2

-----------------------------------------------------------------------------
(* An Updates object whose waiter is called.                               *)

\* What no call undoes.
Forward(s, t) == s.known \subseteq t.known /\ s.box.good <= t.box.good

\* While a difference is requested, no call moves _good and _last; otherwise
\* a call may request one, from the _good it leaves.
Steady(s, t) ==
    /\ s.box.requesting =>
          /\ t.box.requesting /\ t.diff = s.diff
          /\ t.box.good = s.box.good /\ t.box.last = s.box.last
    /\ ~s.box.requesting =>
          \/ t.diff = s.diff
          \/ t.diff.state = "sent" /\ t.diff.pts = t.box.good

Reaches(s, t, E, top) == Good(t, E, top) /\ Forward(s, t) /\ Steady(s, t)

\* What a call of the waiter leaves alone.
Same(s, t) ==
    /\ t.seq = s.seq /\ t.knownSeq = s.knownSeq /\ t.bySeq = s.bySeq
    /\ t.diff = s.diff /\ t.afterFail = s.afterFail

\* The events P, one at most, have reached the waiter of s: they wait for the
\* difference, are old, or are counted.
Takes(s, t, P) ==
    /\ s \in Updates /\ t \in Updates /\ Same(s, t)
    /\ s.known \subseteq t.known
    /\ \/ /\ s.box.requesting /\ t.box.requesting /\ t.box.queue = {}
          /\ t.box.good = s.box.good /\ t.box.last = s.box.last
          /\ t.box.count = s.box.count
       \/ t.box = s.box
       \/ ~s.box.requesting /\ \E p \in P : /\ P = {p} /\ p > s.box.good
                                            /\ TakesOne(s.box, p, t.box, s.known, t.known)

\* The members of an object have their types.
LEMMA Members ==
    ASSUME NEW s \in Updates
    PROVE  /\ s.box \in Waiter /\ s.seq \in Nat /\ s.bySeq \subseteq Message
           /\ s.diff \in Difference /\ s.afterFail \in BOOLEAN
           /\ s.seqTimer \in BOOLEAN /\ s.minTimer \in BOOLEAN
           /\ s.known \subseteq Int /\ s.knownSeq \subseteq Int
           /\ s.box.good \in Nat /\ s.box.last \in Nat /\ s.box.count \in Nat
           /\ s.box.requesting \in BOOLEAN
<1>1. s.box \in Waiter
  BY DEF Updates
<1> QED
  BY <1>1 DEF Updates, Waiter

\* A new event is counted once: the accounts stay exact.
LEMMA TakesCounts ==
    ASSUME NEW s, NEW t, NEW E, NEW top \in Nat, NEW p \in Nat, p <= top, p \notin E,
           Good(s, E \cup {p}, top), Takes(s, t, {p}), ~s.box.requesting,
           p > s.box.good, TakesOne(s.box, p, t.box, s.known, t.known)
    PROVE  /\ \E C \in SUBSET ((t.box.good + 1) .. t.box.last) : Exact(t, C, E, top)
           /\ t.box \in Waiter /\ inited(t.box) /\ ~t.box.requesting
           /\ 1 .. t.box.good \subseteq t.known
           /\ t.box.queue # {} => t.box.skipped
           /\ s.box.good <= t.box.good
<1>1. /\ s \in Updates /\ s.box \in Waiter /\ inited(s.box)
      /\ 1 .. s.box.good \subseteq s.known
      /\ s.box.queue # {} => s.box.skipped
      /\ {p} \cap EventsOf(s.bySeq) = {}
  BY Members DEF Good, Requesting, Waiting
<1>2. PICK C \in SUBSET ((s.box.good + 1) .. s.box.last) : Exact(s, C, E \cup {p}, top)
  BY DEF Good
<1>3. Counted(s.box, C, s.known)
  <2>1. /\ IsFiniteSet(C) /\ s.box.count = s.box.good + Cardinality(C)
        /\ s.box.good <= s.box.last
        /\ C \subseteq s.known \cup EventsOf(s.box.queue)
    BY <1>2 DEF Exact
  <2>2. C \subseteq (s.box.good + 1) .. s.box.last
    OBVIOUS
  <2> QED
    BY <1>1, <2>1, <2>2 DEF Counted
<1>4. p \notin C /\ C \cap E = {} /\ C \cap EventsOf(s.bySeq) = {} /\ s.box.last <= top
  BY <1>2 DEF Exact
<1>5. PICK D : /\ Counted(t.box, D, t.known)
               /\ D \subseteq C \cup {p}
               /\ s.box.good <= t.box.good /\ t.box.last \in {s.box.last, p}
  BY <1>3, <1>4, TakesOneCounted
<1>6. t.bySeq = s.bySeq
  BY DEF Takes, Same
<1>7. Exact(t, D, E, top)
  <2>1. D \cap E = {} /\ D \cap EventsOf(t.bySeq) = {}
    BY <1>1, <1>4, <1>5, <1>6
  <2>2. t.box.last <= top
    BY <1>4, <1>5
  <2> QED
    BY <1>5, <2>1, <2>2 DEF Counted, Exact
<1> QED
  BY <1>5, <1>7 DEF Counted

\* Events that reach the waiter leave the object sound.
LEMMA TakesGood ==
    ASSUME NEW s, NEW t, NEW E, NEW top \in Nat, NEW P \in SUBSET Nat,
           \A p \in P : p <= top, E \cap P = {},
           Good(s, E \cup P, top), Takes(s, t, P)
    PROVE  Reaches(s, t, E, top)
<1>1. /\ s \in Updates /\ t \in Updates /\ Same(s, t) /\ s.known \subseteq t.known
      /\ s.box \in Waiter /\ t.box \in Waiter /\ s.box.good \in Nat
      /\ s.box.requesting \in BOOLEAN /\ t.box.requesting \in BOOLEAN
  BY Members DEF Takes
<1>2. 1 .. t.seq \subseteq t.knownSeq
  BY <1>1 DEF Same, Good
<1>3. Waiting(t, E, top)
  BY <1>1 DEF Same, Good, Waiting
<1>4. CASE /\ s.box.requesting /\ t.box.requesting /\ t.box.queue = {}
           /\ t.box.good = s.box.good /\ t.box.last = s.box.last
           /\ t.box.count = s.box.count
  <2>1. PICK C \in SUBSET ((s.box.good + 1) .. s.box.last) : Exact(s, C, E \cup P, top)
    BY DEF Good
  <2>2. Exact(t, C, E, top)
    BY <1>1, <1>4, <2>1 DEF Exact, Same
  <2>3. Requesting(t)
    BY <1>1, <1>4 DEF Good, Requesting, Same, inited
  <2>4. Good(t, E, top)
    BY <1>1, <1>2, <1>3, <1>4, <2>1, <2>2, <2>3 DEF Good
  <2> QED
    BY <1>1, <1>4, <2>4 DEF Forward, Steady, Same, Reaches
<1>5. CASE t.box = s.box
  <2>1. PICK C \in SUBSET ((s.box.good + 1) .. s.box.last) : Exact(s, C, E \cup P, top)
    BY DEF Good
  <2>2. Exact(t, C, E, top)
    BY <1>1, <1>5, <2>1 DEF Exact, Same
  <2>3. Requesting(t)
    BY <1>1, <1>5 DEF Good, Requesting, Same
  <2>4. Good(t, E, top)
    BY <1>1, <1>2, <1>3, <1>5, <2>1, <2>2, <2>3 DEF Good
  <2> QED
    BY <1>1, <1>5, <2>4 DEF Forward, Steady, Same, Reaches
<1>6. CASE ~s.box.requesting /\ \E p \in P : /\ P = {p} /\ p > s.box.good
                                             /\ TakesOne(s.box, p, t.box, s.known, t.known)
  <2>1. PICK p \in P : /\ P = {p} /\ p > s.box.good
                       /\ TakesOne(s.box, p, t.box, s.known, t.known)
    BY <1>6
  <2>2. /\ \E C \in SUBSET ((t.box.good + 1) .. t.box.last) : Exact(t, C, E, top)
        /\ inited(t.box) /\ ~t.box.requesting
        /\ 1 .. t.box.good \subseteq t.known
        /\ t.box.queue # {} => t.box.skipped
        /\ s.box.good <= t.box.good
    BY <1>6, <2>1, TakesCounts
  <2>3. Requesting(t)
    BY <1>1, <1>6, <2>2 DEF Good, Requesting, Same
  <2>4. Good(t, E, top)
    BY <1>1, <1>2, <1>3, <2>2, <2>3 DEF Good
  <2> QED
    BY <1>1, <1>6, <2>2, <2>4 DEF Forward, Steady, Same, Reaches
<1> QED
  BY <1>4, <1>5, <1>6 DEF Takes

\* The two calls that take one event.
LEMMA ApplyGood ==
    ASSUME NEW s, NEW E, NEW top \in Nat, NEW m \in Message,
           m.count = 1, m.pts <= top, E \cap Points(m) = {},
           Good(s, E \cup Points(m), top)
    PROVE  /\ Reaches(s, applyUpdate(s, m), E, top)
           /\ Reaches(s, applyPts(s, m), E, top)
<1> DEFINE u == [pts |-> m.pts, count |-> m.count]
           b == s.box
           p == m.pts
           t == applyUpdate(s, m)
           q == applyPts(s, m)
           AU == EventsOf(applied(b, u))
           AP == EventsOf(appliedByPts(b, m.pts, m.count))
<1>1. /\ s \in Updates /\ b \in Waiter /\ p \in Nat /\ u \in Update
      /\ u.pts = p /\ u.count = 1 /\ Points(m) = {p} /\ b.good \in Nat
      /\ inited(b) \/ b.requesting
      /\ b.requesting => b.queue = {}
      /\ b.queue # {} => b.skipped
      /\ s.known \subseteq Int /\ b.requesting \in BOOLEAN
  BY Members, PointsOfOne DEF Good, Requesting, Message, Update
<1>2. loadedBefore(s, m.pts) = {}
  BY <1>1 DEF loadedBefore, requestingDifference
<1>3. AU \subseteq Int /\ AP \subseteq Int
  <2>1. applied(b, u) \subseteq Update /\ appliedByPts(b, u.pts, u.count) \subseteq Update
    BY <1>1, UpdateType
  <2>2. \A v \in Update : Points(v) \subseteq Int
    BY DEF Points, Update
  <2> QED
    BY <2>1, <2>2 DEF EventsOf
<1>4. /\ t = [s EXCEPT !.box = updateAndApply(b, u), !.known = s.known \cup AU]
      /\ q = [s EXCEPT !.box = updateAndApplyPts(b, p, 1), !.known = s.known \cup {p} \cup AP]
  BY <1>1, <1>2 DEF applyUpdate, applyPts, EventsOf
<1>5. updateAndApply(b, u) \in Waiter /\ updateAndApplyPts(b, p, 1) \in Waiter
  <2>1. updateAndApplyPts(b, u.pts, u.count) \in Waiter
    BY <1>1, UpdateType
  <2> QED
    BY <1>1, <2>1, UpdateType
<1>6. /\ t \in Updates /\ Same(s, t) /\ t.box = updateAndApply(b, u)
      /\ t.known = s.known \cup AU
      /\ q \in Updates /\ Same(s, q) /\ q.box = updateAndApplyPts(b, p, 1)
      /\ q.known = s.known \cup {p} \cup AP
  <2> HIDE DEF AU, AP, t, q, u, b
  <2>1. s.known \cup AU \subseteq Int /\ s.known \cup {p} \cup AP \subseteq Int
    <3>1. p \in Int /\ s.known \subseteq Int
      BY <1>1
    <3> HIDE DEF p
    <3> QED
      BY <1>3, <3>1, Zenon
  <2> QED
    BY <1>1, <1>4, <1>5, <2>1 DEF Updates, Same
<1>7. Takes(s, t, {p}) /\ Takes(s, q, {p})
  <2>1. CASE b.requesting
    <3>1. /\ updateAndApply(b, u) = b
          /\ LET a == updateAndApplyPts(b, u.pts, u.count)
             IN  /\ a.good = b.good /\ a.last = b.last /\ a.count = b.count
                 /\ a.requesting /\ a.queue = {}
      BY <1>1, <2>1, TakesNone
    <3> HIDE DEF t, q, AU, AP
    <3> QED
      BY <1>1, <1>6, <2>1, <3>1 DEF Takes
  <2>2. CASE ~b.requesting /\ p <= b.good
    <3>1. /\ updateAndApply(b, u) = b
          /\ updateAndApplyPts(b, u.pts, u.count) = b
      BY <1>1, <2>2, TakesNone
    <3> HIDE DEF t, q, AU, AP
    <3> QED
      BY <1>1, <1>6, <3>1 DEF Takes
  <2>3. CASE ~b.requesting /\ p > b.good
    <3>1. u = [pts |-> p, count |-> 1]
      BY <1>1
    <3>2. TakesOne(b, p, updateAndApply(b, u), s.known, s.known \cup AU)
      BY <1>1, <2>3, <3>1, UpdateTakesOne
    <3>3. appliedByPts(b, m.pts, m.count) = appliedByPts(b, p, 1)
      OBVIOUS
    <3>4. TakesOne(b, p, updateAndApplyPts(b, p, 1), s.known, s.known \cup {p} \cup AP)
      BY <1>1, <2>3, <3>3, PtsTakesOne
    <3> HIDE DEF t, q, AU, AP
    <3> QED
      BY <1>1, <1>6, <2>3, <3>2, <3>4 DEF Takes
  <2> QED
    BY <1>1, <2>1, <2>2, <2>3
<1> HIDE DEF t, q
<1>8. /\ {p} \in SUBSET Nat /\ \A e \in {p} : e <= top
      /\ E \cap {p} = {} /\ Good(s, E \cup {p}, top)
  BY <1>1
<1>9. Reaches(s, t, E, top) /\ Reaches(s, q, E, top)
  <2> HIDE DEF p
  <2> QED
    BY <1>7, <1>8, TakesGood
<1> QED
  BY <1>9 DEF t, q

-----------------------------------------------------------------------------
(* The other methods.                                                      *)

\* s with another timer or other flags is as sound as s.
Retimed(s, t) ==
    /\ t \in Updates /\ Same(s, t) /\ t.known = s.known
    /\ t.box.good = s.box.good /\ t.box.last = s.box.last /\ t.box.count = s.box.count
    /\ t.box.queue = s.box.queue /\ t.box.skipped = s.box.skipped
    /\ t.box.requesting = s.box.requesting

\* A timer or a flag that changes leaves the account sound.
LEMMA RetimedGood ==
    ASSUME NEW s, NEW t, NEW E, NEW top \in Nat, Good(s, E, top), Retimed(s, t)
    PROVE  Reaches(s, t, E, top)
<1>1. s \in Updates /\ s.box.good \in Nat
  BY Members DEF Good
<1>2. PICK C \in SUBSET ((s.box.good + 1) .. s.box.last) : Exact(s, C, E, top)
  BY DEF Good
<1>3. Exact(t, C, E, top)
  BY <1>2 DEF Exact, Retimed, Same
<1>4. Waiting(t, E, top) /\ Requesting(t)
  BY DEF Good, Waiting, Requesting, Retimed, Same, inited
<1>5. C \in SUBSET ((t.box.good + 1) .. t.box.last)
  BY DEF Retimed
<1>6. /\ t \in Updates
      /\ 1 .. t.seq \subseteq t.knownSeq
      /\ 1 .. t.box.good \subseteq t.known
      /\ t.box.queue # {} => t.box.skipped
  BY DEF Good, Retimed, Same
<1>7. Forward(s, t) /\ Steady(s, t)
  BY <1>1 DEF Forward, Steady, Same, Retimed
<1> QED
  BY <1>3, <1>4, <1>5, <1>6, <1>7 DEF Good, Reaches

\* Fewer events on their way, and a server that went on.
LEMMA GoodLater ==
    ASSUME NEW s, NEW E, NEW F \in SUBSET E, NEW top \in Nat, NEW late \in Nat,
           top <= late, Good(s, E, top)
    PROVE  Good(s, F, late)
<1>1. s \in Updates /\ s.box.last \in Nat /\ s.bySeq \subseteq Message
  BY Members DEF Good
<1>2. PICK C \in SUBSET ((s.box.good + 1) .. s.box.last) : Exact(s, C, E, top)
  BY DEF Good
<1>3. Exact(s, C, F, late)
  BY <1>1, <1>2 DEF Exact
<1>4. Waiting(s, F, late)
  <2>1. \A m \in s.bySeq : m.pts \in Nat
    BY <1>1 DEF Message
  <2> QED
    BY <2>1 DEF Good, Waiting, Shaped
<1> QED
  BY <1>3, <1>4 DEF Good

\* t is s after a difference was requested.
Requested(s, t) ==
    /\ t \in Updates
    /\ t.seq = s.seq /\ t.knownSeq = s.knownSeq /\ t.known = s.known
    /\ t.bySeq = {} /\ ~t.afterFail
    /\ t.box.good = s.box.good /\ t.box.last = s.box.last /\ t.box.count = s.box.count
    /\ t.box.requesting /\ t.box.queue = {}
    /\ t.diff = [NoDiff EXCEPT !.state = "sent", !.pts = s.box.good]

\* Asking for a difference leaves the account sound: what was queued is cleared.
LEMMA RequestedGood ==
    ASSUME NEW s, NEW t, NEW E, NEW top \in Nat, Good(s, E, top), Requested(s, t)
    PROVE  /\ Good(t, E, top) /\ Forward(s, t)
           /\ ~s.box.requesting => Reaches(s, t, E, top)
<1>1. s \in Updates /\ s.box.good \in Nat
  BY Members DEF Good
<1>2. PICK C \in SUBSET ((s.box.good + 1) .. s.box.last) : Exact(s, C, E, top)
  BY DEF Good
<1>3. EventsOf(t.bySeq) = {}
  BY DEF Requested, EventsOf
<1>4. Exact(t, C, E, top)
  BY <1>2, <1>3 DEF Exact, Requested
<1>5. Waiting(t, E, top)
  BY <1>3, FS_EmptySet DEF Waiting, Requested, Apart, Shaped
<1>6. Requesting(t)
  BY DEF Requesting, Requested, NoDiff
<1>7. /\ C \in SUBSET ((t.box.good + 1) .. t.box.last)
      /\ t \in Updates
      /\ 1 .. t.seq \subseteq t.knownSeq
      /\ 1 .. t.box.good \subseteq t.known
      /\ t.box.queue # {} => t.box.skipped
  BY DEF Good, Requested
<1>8. /\ Forward(s, t)
      /\ ~s.box.requesting => Steady(s, t)
  BY <1>1 DEF Forward, Steady, Requested, NoDiff
<1> QED
  BY <1>4, <1>5, <1>6, <1>7, <1>8 DEF Good, Reaches

\* One call after another.
LEMMA ReachesOn ==
    ASSUME NEW s, NEW t, NEW r, NEW D, NEW E, NEW F, NEW top, NEW now, NEW late,
           Good(s, D, top), Reaches(s, t, E, now), Reaches(t, r, F, late)
    PROVE  Reaches(s, r, F, late)
<1>1. s.box.good \in Nat /\ t.box.good \in Nat /\ r.box.good \in Nat
  BY Members DEF Good, Reaches
<1>2. Requesting(s) /\ Requesting(t)
  BY DEF Good, Reaches
<1>3. Steady(s, r)
  BY <1>2 DEF Reaches, Steady, Requesting
<1> QED
  BY <1>1, <1>3 DEF Reaches, Forward

\* No call at all.
LEMMA ReachesSelf ==
    ASSUME NEW s, NEW E, NEW top, Good(s, E, top)
    PROVE  Reaches(s, s, E, top)
<1>1. s.box.good \in Nat
  BY Members DEF Good
<1> QED
  BY <1>1 DEF Reaches, Forward, Steady

\* Another seq, with the containers up to it, and more events applied.
Renumbered(s, t) ==
    /\ t \in Updates /\ t.box = s.box /\ t.bySeq = s.bySeq
    /\ t.diff = s.diff /\ t.afterFail = s.afterFail
    /\ s.known \subseteq t.known
    /\ 1 .. t.seq \subseteq t.knownSeq

\* Accepting a container, with what it applied, leaves the account sound.
LEMMA RenumberedGood ==
    ASSUME NEW s, NEW t, NEW E, NEW top, Good(s, E, top), Renumbered(s, t)
    PROVE  Reaches(s, t, E, top)
<1>1. s.box.good \in Nat
  BY Members DEF Good
<1>2. PICK C \in SUBSET ((s.box.good + 1) .. s.box.last) : Exact(s, C, E, top)
  BY DEF Good
<1>3. Exact(t, C, E, top)
  <2>1. t.box = s.box /\ t.bySeq = s.bySeq /\ s.known \subseteq t.known
    BY DEF Renumbered
  <2> QED
    BY <1>2, <2>1 DEF Exact
<1>4. Waiting(t, E, top) /\ Requesting(t)
  BY DEF Good, Waiting, Requesting, Renumbered
<1>5. /\ C \in SUBSET ((t.box.good + 1) .. t.box.last)
      /\ t \in Updates /\ 1 .. t.seq \subseteq t.knownSeq
      /\ 1 .. t.box.good \subseteq t.known
      /\ t.box.queue # {} => t.box.skipped
  BY DEF Good, Renumbered
<1>6. Forward(s, t) /\ Steady(s, t)
  BY <1>1 DEF Forward, Steady, Renumbered
<1> QED
  BY <1>3, <1>4, <1>5, <1>6 DEF Good, Reaches

\* getDifference() with the flag down makes a request.
LEMMA RequestSent ==
    ASSUME NEW s \in Updates, ~s.box.requesting
    PROVE  Requested(s, getDifference(s))
<1> DEFINE b == [s.box EXCEPT !.timer = FALSE]
           w == setRequesting(b, TRUE)
           d == [NoDiff EXCEPT !.state = "sent", !.pts = s.box.good]
           t == getDifference(s)
<1>1. b \in Waiter /\ b.good = s.box.good /\ b.requesting = s.box.requesting
  <2>1. s.box \in Waiter
    BY Members
  <2> QED
    BY <2>1 DEF Waiter
<1>2. /\ w \in Waiter /\ w.requesting /\ w.queue = {}
      /\ w.good = s.box.good /\ w.last = s.box.last /\ w.count = s.box.count
  <2>1. w \in Waiter
    <3> HIDE DEF b
    <3> QED
      BY <1>1, SettersType
  <2> QED
    BY <2>1, Members DEF setRequesting, Waiter
<1>3. d \in Difference
  BY Members DEF NoDiff, Difference
<1>4. t = [s EXCEPT !.box = w, !.bySeq = {}, !.seqTimer = FALSE, !.afterFail = FALSE,
                    !.diff = d]
  BY <1>1 DEF getDifference, requestingDifference, Updates
<1> HIDE DEF t, w, d, b
<1>5. t \in Updates
  BY <1>2, <1>3, <1>4 DEF Updates
<1>6. /\ t.seq = s.seq /\ t.knownSeq = s.knownSeq /\ t.known = s.known
      /\ t.bySeq = {} /\ t.afterFail = FALSE /\ t.box = w /\ t.diff = d
  BY <1>4 DEF Updates
<1> QED
  BY <1>2, <1>5, <1>6 DEF Requested, t, d

\* getDifference() keeps the object sound; it may clear _bySeqUpdates.
LEMMA GetDifferenceGood ==
    ASSUME NEW s, NEW E, NEW top \in Nat, Good(s, E, top)
    PROVE  /\ Reaches(s, getDifference(s), E, top)
           /\ getDifference(s).seq = s.seq /\ getDifference(s).knownSeq = s.knownSeq
<1> DEFINE b == [s.box EXCEPT !.timer = FALSE]
           t == [s EXCEPT !.box.timer = FALSE]
<1>1. s \in Updates
  BY DEF Good
<1>2. CASE ~s.box.requesting
  BY <1>1, <1>2, RequestSent, RequestedGood DEF Requested
<1>3. CASE s.box.requesting
  <2>1. /\ b \in Waiter /\ b.good = s.box.good /\ b.last = s.box.last
        /\ b.count = s.box.count /\ b.queue = s.box.queue /\ b.skipped = s.box.skipped
        /\ b.requesting = s.box.requesting
    BY <1>1, Members DEF Waiter
  <2>2. t = [s EXCEPT !.box = b] /\ getDifference(s) = t
    BY <1>1, <1>3, <2>1 DEF getDifference, requestingDifference, Updates
  <2> HIDE DEF t, b
  <2>3. t \in Updates /\ Same(s, t) /\ t.known = s.known /\ t.box = b
    BY <1>1, <2>1, <2>2 DEF Updates, Same
  <2>4. Retimed(s, t)
    BY <2>1, <2>3 DEF Retimed
  <2> QED
    BY <2>2, <2>3, <2>4, RetimedGood DEF Same
<1> QED
  BY <1>2, <1>3

\* The containers in _bySeqUpdates, if there are any, have the timer.
Watched(s) == s.bySeq # {} => s.seqTimer

\* The methods that only touch the waiter leave the containers and their timer
\* alone; getDifference() may clear both.
LEMMA StayWatched ==
    ASSUME NEW s \in Updates, Watched(s), NEW m
    PROVE  /\ Watched(getDifference(s)) /\ Watched(applyUpdate(s, m))
           /\ Watched(applyPts(s, m)) /\ Watched(feedUpdate(s, m))
<1>1. Watched(getDifference(s))
  BY DEF Watched, getDifference, Updates
<1>2. Watched(applyUpdate(s, m)) /\ Watched(applyPts(s, m))
  BY DEF Watched, applyUpdate, applyPts, Updates
<1>3. Watched([s EXCEPT !.minTimer = s.minTimer \/ ~requestingDifference(s)])
  BY DEF Watched, Updates
<1>4. feedUpdate(s, m) \in {getDifference(s), applyUpdate(s, m), s,
                          [s EXCEPT !.minTimer = s.minTimer \/ ~requestingDifference(s)]}
  <2>1. CASE m.what = "message" /\ (m.loaded \/ requestingDifference(s))
    BY <2>1 DEF feedUpdate
  <2>2. CASE m.what = "message" /\ ~(m.loaded \/ requestingDifference(s))
    BY <2>2 DEF feedUpdate
  <2>3. CASE m.what = "channel"
    BY <2>3 DEF feedUpdate
  <2>4. CASE m.what \notin {"message", "channel"}
    BY <2>4 DEF feedUpdate
  <2> QED
    BY <2>1, <2>2, <2>3, <2>4
<1> QED
  BY <1>1, <1>2, <1>3, <1>4

\* A message m may be handled: its event is not on its way once more.
Handled(m, E, top) ==
    /\ m \in Message /\ Shaped({m}, top)
    /\ E \cap Points(m) = {}

\* What Handled() says of the pts and the count.
LEMMA HandledFields ==
    ASSUME NEW m, NEW E, NEW top \in Nat, Handled(m, E, top)
    PROVE  /\ m \in Message /\ m.pts \in Nat /\ m.seq \in Nat /\ m.start \in Nat
           /\ m.count \in {0, 1} /\ m.pts <= top /\ E \cap Points(m) = {}
           /\ m.kind = "updates" => (m.what = "message" <=> m.count = 1)
           /\ m.kind = "short" => m.count = 1
           /\ m.kind \in {"updates", "short", "affected", "tooLong", "newSession"}
           /\ Points(m) \subseteq Int
  BY DEF Handled, Shaped, Message, Points

\* feedUpdate().
LEMMA FeedGood ==
    ASSUME NEW s, NEW E, NEW top \in Nat, NEW m, Handled(m, E, top),
           m.kind = "updates", Good(s, E \cup Points(m), top)
    PROVE  /\ Reaches(s, feedUpdate(s, m), E, top)
           /\ feedUpdate(s, m).seq = s.seq /\ feedUpdate(s, m).knownSeq = s.knownSeq
<1>1. /\ m \in Message /\ m.pts <= top /\ E \cap Points(m) = {}
      /\ m.what = "message" <=> m.count = 1
  BY HandledFields
<1>2. Good(s, E, top) /\ s \in Updates
  <2>1. E \in SUBSET (E \cup Points(m)) /\ top <= top
    OBVIOUS
  <2> QED
    BY <2>1, GoodLater DEF Good
<1>3. CASE m.what = "message" /\ (m.loaded \/ requestingDifference(s))
  <2>1. feedUpdate(s, m) = applyUpdate(s, m)
    BY <1>3 DEF feedUpdate
  <2>2. applyUpdate(s, m).seq = s.seq /\ applyUpdate(s, m).knownSeq = s.knownSeq
    BY <1>2 DEF applyUpdate, Updates
  <2> QED
    BY <1>1, <1>3, <2>1, <2>2, ApplyGood
<1>4. CASE m.what = "message" /\ ~(m.loaded \/ requestingDifference(s))
  <2>1. feedUpdate(s, m) = getDifference(s)
    BY <1>4 DEF feedUpdate
  <2> QED
    BY <1>2, <2>1, GetDifferenceGood
<1>5. CASE m.what = "channel"
  <2>1. PICK h \in BOOLEAN : h = (s.minTimer \/ ~requestingDifference(s))
    OBVIOUS
  <2>2. feedUpdate(s, m) = [s EXCEPT !.minTimer = h]
    BY <1>5, <2>1 DEF feedUpdate
  <2>3. Renumbered(s, [s EXCEPT !.minTimer = h])
    BY <1>2 DEF Renumbered, Good, Updates
  <2>4. [s EXCEPT !.minTimer = h].seq = s.seq /\ [s EXCEPT !.minTimer = h].knownSeq = s.knownSeq
    BY <1>2 DEF Updates
  <2> QED
    BY <1>2, <2>2, <2>3, <2>4, RenumberedGood
<1>6. CASE m.what \notin {"message", "channel"}
  <2>1. feedUpdate(s, m) = s
    BY <1>6 DEF feedUpdate
  <2> QED
    BY <1>2, <2>1, ReachesSelf
<1> QED
  BY <1>3, <1>4, <1>5, <1>6

\* The updates of a container that follows are fed and its seq is adopted.
LEMMA ConsumeGood ==
    ASSUME NEW s, NEW E, NEW top \in Nat, NEW m, Handled(m, E, top),
           m.kind = "updates", m.start = s.seq + 1, Good(s, E \cup Points(m), top)
    PROVE  Reaches(s, consume(s, m), E, top)
<1> DEFINE t == feedUpdate(s, m)
           r == [t EXCEPT !.seq = m.seq, !.seqTimer = FALSE,
                          !.knownSeq = t.knownSeq \cup (m.start .. m.seq)]
<1>1. Reaches(s, t, E, top) /\ t.seq = s.seq /\ t.knownSeq = s.knownSeq
  BY FeedGood
<1>2. Good(t, E, top) /\ t \in Updates
  BY <1>1 DEF Reaches, Good
<1>3. /\ m.seq \in Nat /\ m.start \in Nat /\ s.seq \in Nat
      /\ 1 .. s.seq \subseteq s.knownSeq
  BY HandledFields, Members DEF Good
<1> HIDE DEF t
<1>4. Renumbered(t, r)
  <2>1. r \in Updates
    <3>1. t.knownSeq \cup (m.start .. m.seq) \subseteq Int
      BY <1>2, <1>3, Members
    <3> QED
      BY <1>2, <1>3, <3>1 DEF Updates
  <2>2. /\ r.box = t.box /\ r.bySeq = t.bySeq /\ r.diff = t.diff
        /\ r.afterFail = t.afterFail /\ r.known = t.known /\ r.seq = m.seq
        /\ r.knownSeq = s.knownSeq \cup (m.start .. m.seq)
    BY <1>1, <1>2 DEF Updates
  <2>3. 1 .. r.seq \subseteq r.knownSeq
    <3>1. \A i \in 1 .. m.seq : i \in 1 .. s.seq \/ i \in m.start .. m.seq
      BY <1>3
    <3> QED
      BY <1>3, <2>2, <3>1
  <2> HIDE DEF r
  <2> QED
    BY <2>1, <2>2, <2>3 DEF Renumbered
<1>5. consume(s, m) \in {t, r}
  BY DEF consume, t
<1> HIDE DEF r
<1>6. Reaches(t, r, E, top)
  BY <1>2, <1>4, RenumberedGood
<1>7. Reaches(s, r, E, top)
  BY <1>1, <1>6, ReachesOn
<1> QED
  BY <1>1, <1>5, <1>7

\* A container that waits is the first one, unless none does.
LEMMA FrontWaits ==
    ASSUME NEW s \in Updates, s.bySeq # {}
    PROVE  front(s) \in s.bySeq
<1> DEFINE T == {m.start : m \in s.bySeq}
<1>1. \A m \in s.bySeq : m.start \in Nat
  BY Members DEF Message
<1>2. T \in SUBSET Nat /\ T # {}
  BY <1>1
<1>3. PICK n \in T : \A k \in T : n <= k
  <2> HIDE DEF T
  <2> QED
    BY <1>2, Least
<1>4. \E m \in s.bySeq : \A k \in s.bySeq : m.start <= k.start
  BY <1>3
<1> QED
  BY <1>4 DEF front

\* The events of a container that leaves _bySeqUpdates are nowhere else.
LEMMA ErasedGood ==
    ASSUME NEW s, NEW E, NEW top \in Nat, NEW m \in s.bySeq, Good(s, E, top)
    PROVE  LET t == [s EXCEPT !.bySeq = s.bySeq \ {m}]
           IN  /\ Handled(m, E, top) /\ m.kind = "updates"
               /\ Reaches(s, t, E \cup Points(m), top)
               /\ t.seq = s.seq
<1> DEFINE t == [s EXCEPT !.bySeq = s.bySeq \ {m}]
           P == Points(m)
<1>1. s \in Updates /\ s.bySeq \subseteq Message /\ s.box.good \in Nat
  BY Members DEF Good
<1>2. /\ t \in Updates /\ Same(s, [t EXCEPT !.bySeq = s.bySeq])
      /\ t.bySeq = s.bySeq \ {m} /\ t.box = s.box /\ t.seq = s.seq /\ t.known = s.known
      /\ t.knownSeq = s.knownSeq /\ t.diff = s.diff /\ t.afterFail = s.afterFail
  BY <1>1 DEF Updates, Same
<1>3. PICK C \in SUBSET ((s.box.good + 1) .. s.box.last) : Exact(s, C, E, top)
  BY DEF Good
<1>4. /\ IsFiniteSet(s.bySeq) /\ Apart(s.bySeq) /\ Shaped(s.bySeq, top)
      /\ E \cap EventsOf(s.bySeq) = {}
      /\ \A n \in s.bySeq : n.kind = "updates" /\ n.seq # 0
  BY DEF Good, Waiting
<1>5. Handled(m, E, top)
  BY <1>1, <1>4 DEF Handled, Shaped, EventsOf
<1>6. /\ P \subseteq EventsOf(s.bySeq)
      /\ EventsOf(s.bySeq \ {m}) \subseteq EventsOf(s.bySeq)
      /\ P \cap EventsOf(s.bySeq \ {m}) = {}
  BY <1>4 DEF EventsOf, Apart
<1> HIDE DEF t, P
<1>7. Exact(t, C, E \cup P, top)
  BY <1>2, <1>3, <1>6 DEF Exact
<1>8. Waiting(t, E \cup P, top)
  <2>1. IsFiniteSet(s.bySeq \ {m})
    BY <1>4, FS_RemoveElement
  <2>2. Apart(t.bySeq) /\ Shaped(t.bySeq, top)
    BY <1>2, <1>4 DEF Apart, Shaped
  <2>3. (E \cup P) \cap EventsOf(t.bySeq) = {}
    BY <1>2, <1>4, <1>6
  <2> QED
    BY <1>2, <1>4, <2>1, <2>2, <2>3 DEF Waiting
<1>9. Requesting(t) /\ Forward(s, t) /\ Steady(s, t)
  BY <1>1, <1>2 DEF Good, Requesting, Forward, Steady
<1>10. Good(t, E \cup P, top)
  BY <1>2, <1>3, <1>7, <1>8, <1>9 DEF Good
<1> QED
  BY <1>2, <1>4, <1>5, <1>9, <1>10 DEF Reaches, t, P

\* One turn of the loop keeps the object sound.
LEMMA TurnGood ==
    ASSUME NEW s, NEW E, NEW top \in Nat, Good(s, E, top)
    PROVE  Reaches(s, turn[s], E, top)
<1> DEFINE m == front(s)
           t == [s EXCEPT !.bySeq = s.bySeq \ {m}]
<1>1. CASE s.bySeq = {} \/ m.start > s.seq + 1
  BY <1>1, ReachesSelf DEF turn, Good
<1>2. CASE ~(s.bySeq = {} \/ m.start > s.seq + 1)
  <2>1. m \in s.bySeq
    BY <1>2, FrontWaits DEF Good
  <2>2. turn[s] = IF m.start = s.seq + 1 THEN consume(t, m) ELSE t
    BY <1>2 DEF turn, Good
  <2> HIDE DEF m
  <2>3. /\ Handled(m, E, top) /\ m.kind = "updates"
        /\ Reaches(s, t, E \cup Points(m), top)
        /\ t.seq = s.seq
    BY <2>1, ErasedGood
  <2> HIDE DEF t
  <2>4. Good(t, E \cup Points(m), top)
    BY <2>3 DEF Reaches
  <2>5. CASE m.start = s.seq + 1
    <3>1. Reaches(t, consume(t, m), E, top)
      BY <2>3, <2>4, <2>5, ConsumeGood
    <3> QED
      BY <2>2, <2>3, <2>5, <3>1, ReachesOn
  <2>6. CASE m.start # s.seq + 1
    <3>1. E \in SUBSET (E \cup Points(m)) /\ top <= top
      OBVIOUS
    <3>2. Good(t, E, top)
      BY <2>4, <3>1, GoodLater
    <3> QED
      BY <2>2, <2>3, <2>6, <3>2 DEF Reaches
  <2> QED
    BY <2>5, <2>6
<1> QED
  BY <1>1, <1>2

\* The loop keeps the object sound and the timer runs if containers are left.
LEMMA DrainGood ==
    ASSUME NEW s, NEW E, NEW top \in Nat, Good(s, E, top)
    PROVE  Reaches(s, drain(s), E, top) /\ Watched(drain(s))
<1> DEFINE S == {r \in Updates : Reaches(s, r, E, top)}
<1>1. s \in S /\ IsFiniteSet(s.bySeq)
  BY ReachesSelf DEF Good, Waiting
<1>2. ASSUME NEW r \in S
      PROVE  turn[r] \in S
  <2>1. Reaches(s, r, E, top) /\ Good(r, E, top)
    BY <1>2 DEF Reaches
  <2>2. Reaches(r, turn[r], E, top)
    BY <2>1, TurnGood
  <2>3. Reaches(s, turn[r], E, top)
    BY <2>1, <2>2, ReachesOn
  <2> QED
    BY <2>3 DEF Reaches, Good
<1>3. PICK t \in S : drain(s) = IF t.bySeq = {} THEN t ELSE gapFound(t)
  <2> HIDE DEF S
  <2> QED
    BY <1>1, <1>2, DrainStays
<1>4. Reaches(s, t, E, top) /\ Good(t, E, top) /\ t \in Updates
  BY <1>3 DEF Reaches
<1>5. Renumbered(t, gapFound(t))
  BY <1>4 DEF gapFound, Renumbered, Good, Updates
<1>6. Reaches(s, gapFound(t), E, top)
  BY <1>4, <1>5, RenumberedGood, ReachesOn
<1>7. gapFound(t).seqTimer
  BY <1>4 DEF gapFound, Updates
<1> QED
  BY <1>3, <1>4, <1>6, <1>7 DEF Watched

\* A container after a gap goes into _bySeqUpdates with its event.
LEMMA PutOffGood ==
    ASSUME NEW s, NEW E, NEW top \in Nat, NEW m, Handled(m, E, top),
           m.kind = "updates", m.seq # 0, Good(s, E \cup Points(m), top)
    PROVE  Reaches(s, [s EXCEPT !.bySeq = s.bySeq \cup {m}, !.seqTimer = TRUE], E, top)
<1> DEFINE t == [s EXCEPT !.bySeq = s.bySeq \cup {m}, !.seqTimer = TRUE]
           P == Points(m)
<1>1. s \in Updates /\ s.box.good \in Nat /\ m \in Message
  BY Members DEF Good, Handled
<1>2. /\ t \in Updates
      /\ t.bySeq = s.bySeq \cup {m} /\ t.box = s.box /\ t.seq = s.seq /\ t.known = s.known
      /\ t.knownSeq = s.knownSeq /\ t.diff = s.diff /\ t.afterFail = s.afterFail
  BY <1>1 DEF Updates
<1>3. PICK C \in SUBSET ((s.box.good + 1) .. s.box.last) : Exact(s, C, E \cup P, top)
  BY DEF Good
<1>4. /\ IsFiniteSet(s.bySeq) /\ Apart(s.bySeq) /\ Shaped(s.bySeq, top)
      /\ (E \cup P) \cap EventsOf(s.bySeq) = {}
      /\ \A n \in s.bySeq : n.kind = "updates" /\ n.seq # 0
  BY DEF Good, Waiting
<1>5. EventsOf(t.bySeq) = EventsOf(s.bySeq) \cup P
  BY <1>2 DEF EventsOf
<1>6. \A n \in s.bySeq : P \cap Points(n) = {}
  BY <1>4 DEF EventsOf
<1>7. E \cap P = {} /\ Shaped({m}, top)
  BY DEF Handled
<1> HIDE DEF t
<1>8. Apart(t.bySeq) /\ Shaped(t.bySeq, top)
  BY <1>2, <1>4, <1>6, <1>7 DEF Apart, Shaped, P
<1> HIDE DEF P
<1>9. Exact(t, C, E, top)
  <2>1. C \cap E = {} /\ C \cap EventsOf(t.bySeq) = {}
    BY <1>3, <1>5 DEF Exact
  <2> QED
    BY <1>2, <1>3, <2>1 DEF Exact
<1>10. Waiting(t, E, top)
  <2>1. IsFiniteSet(t.bySeq)
    BY <1>2, <1>4, FS_AddElement
  <2>2. E \cap EventsOf(t.bySeq) = {}
    BY <1>4, <1>5, <1>7
  <2> QED
    BY <1>2, <1>4, <1>8, <2>1, <2>2 DEF Waiting
<1>11. Requesting(t) /\ Forward(s, t) /\ Steady(s, t)
  BY <1>1, <1>2 DEF Good, Requesting, Forward, Steady
<1>12. Good(t, E, top)
  BY <1>2, <1>3, <1>9, <1>10, <1>11 DEF Good
<1> QED
  BY <1>11, <1>12 DEF Reaches, t

\* applyUpdates() keeps the object sound, whatever the message.
LEMMA ApplyUpdatesGood ==
    ASSUME NEW s, NEW E, NEW top \in Nat, NEW m, Handled(m, E, top),
           m.kind \in {"updates", "short", "tooLong"}, Good(s, E \cup Points(m), top)
    PROVE  /\ Reaches(s, applyUpdates(s, m), E, top)
           /\ Watched(s) => Watched(applyUpdates(s, m))
<1>1. /\ m \in Message /\ m.pts <= top /\ E \cap Points(m) = {}
      /\ m.seq \in Nat /\ m.start \in Nat
      /\ m.kind = "short" => m.count = 1
  BY HandledFields
<1>2. Good(s, E, top) /\ s \in Updates /\ s.seq \in Nat
  <2>1. E \in SUBSET (E \cup Points(m)) /\ top <= top
    OBVIOUS
  <2>2. Good(s, E, top)
    BY <2>1, GoodLater
  <2> QED
    BY <2>2, Members DEF Good
<1>3. CASE m.kind = "tooLong" \/ (m.kind = "short" /\ ~m.loaded)
  <2>1. applyUpdates(s, m) = getDifference(s)
    BY <1>3 DEF applyUpdates
  <2> QED
    BY <1>2, <2>1, GetDifferenceGood, StayWatched
<1>4. CASE m.kind = "short" /\ m.loaded
  <2>1. applyUpdates(s, m) = applyUpdate(s, m) /\ m.count = 1
    BY <1>1, <1>4 DEF applyUpdates
  <2> QED
    BY <1>1, <1>2, <2>1, ApplyGood, StayWatched
<1>5. CASE m.kind = "updates" /\ m.seq # 0 /\ m.start <= s.seq
  <2>1. follows(s, m) /\ ~(m.start > s.seq)
    BY <1>1, <1>2, <1>5 DEF follows
  <2>2. applyUpdates(s, m) = s
    BY <1>5, <2>1 DEF applyUpdates
  <2> QED
    BY <1>2, <2>2, ReachesSelf
<1>6. CASE m.kind = "updates" /\ m.seq # 0 /\ ~follows(s, m)
  <2>1. ~(m.start <= s.seq)
    BY <1>1, <1>2, <1>6 DEF follows
  <2>2. applyUpdates(s, m) = [s EXCEPT !.bySeq = s.bySeq \cup {m}, !.seqTimer = TRUE]
    BY <1>6, <2>1 DEF applyUpdates
  <2>3. m.kind = "updates" /\ m.seq # 0
    BY <1>6
  <2>4. Reaches(s, [s EXCEPT !.bySeq = s.bySeq \cup {m}, !.seqTimer = TRUE], E, top)
    BY <2>3, PutOffGood
  <2>5. Watched(applyUpdates(s, m))
    BY <1>2, <2>2 DEF Watched, Updates
  <2> QED
    BY <2>2, <2>4, <2>5
<1>7. CASE m.kind = "updates" /\ m.seq = 0
  <2>1. applyUpdates(s, m) = feedUpdate(s, m)
    BY <1>7 DEF applyUpdates
  <2> QED
    BY <1>2, <1>7, <2>1, FeedGood, StayWatched
<1>8. CASE m.kind = "updates" /\ m.seq # 0 /\ m.start > s.seq /\ follows(s, m)
  <2> DEFINE t == consume(s, m)
  <2>1. m.start = s.seq + 1 /\ ~(m.start <= s.seq)
    BY <1>1, <1>2, <1>8 DEF follows
  <2>2. applyUpdates(s, m) = drain(t)
    BY <1>8, <2>1 DEF applyUpdates
  <2>3. Reaches(s, t, E, top)
    BY <1>8, <2>1, ConsumeGood
  <2> HIDE DEF t
  <2>4. Reaches(t, drain(t), E, top) /\ Watched(drain(t))
    BY <2>3, DrainGood DEF Reaches
  <2> QED
    BY <2>2, <2>3, <2>4, ReachesOn
<1>9. m.kind = "updates" => m.start <= s.seq \/ m.start > s.seq
  BY <1>1, <1>2
<1> QED
  BY <1>3, <1>4, <1>5, <1>6, <1>7, <1>8, <1>9

-----------------------------------------------------------------------------
(* The end of a request.                                                   *)

\* What an answer brings is enough to adopt its pts: the waiter starts anew.
LEMMA InitGood ==
    ASSUME NEW s, NEW E, NEW top \in Nat, Good(s, E, top), s.box.requesting,
           NEW pts \in Nat, 1 <= pts, s.box.good <= pts, pts <= top,
           1 .. pts \subseteq s.known
    PROVE  LET t == [s EXCEPT !.box = init(s.box, pts)]
           IN  /\ Good(t, E, top) /\ Forward(s, t)
               /\ t.box.requesting /\ t.box.good = pts /\ t.box.last = pts
               /\ t.seq = s.seq /\ t.knownSeq = s.knownSeq
<1> DEFINE b == init(s.box, pts)
           t == [s EXCEPT !.box = b]
<1>1. s \in Updates /\ s.box \in Waiter /\ s.box.good \in Nat
  BY Members DEF Good
<1>2. /\ b \in Waiter /\ b.good = pts /\ b.last = pts /\ b.count = pts
      /\ b.queue = {} /\ b.requesting
  BY <1>1 DEF init, Waiter
<1> HIDE DEF b
<1>3. /\ t \in Updates /\ t.box = b /\ t.bySeq = s.bySeq /\ t.known = s.known
      /\ t.seq = s.seq /\ t.knownSeq = s.knownSeq
      /\ t.diff = s.diff /\ t.afterFail = s.afterFail
  BY <1>1, <1>2 DEF Updates
<1> HIDE DEF t
<1>4. Exact(t, {}, E, top)
  <2>1. IsFiniteSet({}) /\ Cardinality({}) = 0
    BY FS_EmptySet
  <2> QED
    BY <1>2, <1>3, <2>1 DEF Exact
<1>5. Waiting(t, E, top)
  BY <1>3 DEF Good, Waiting
<1>6. Requesting(t)
  BY <1>2, <1>3 DEF Good, Requesting, inited
<1>7. Good(t, E, top)
  <2>1. {} \in SUBSET ((t.box.good + 1) .. t.box.last)
    OBVIOUS
  <2>2. 1 .. t.seq \subseteq t.knownSeq
    BY <1>3 DEF Good
  <2> QED
    BY <1>2, <1>3, <1>4, <1>5, <1>6, <2>1, <2>2 DEF Good
<1> QED
  BY <1>1, <1>2, <1>3, <1>7 DEF Forward, t, b

\* setState() with the state that an answer ends with.
LEMMA SetStateGood ==
    ASSUME NEW s, NEW E, NEW top \in Nat, Good(s, E, top), s.box.requesting,
           NEW pts \in Nat, 1 <= pts, s.box.good <= pts, pts <= top,
           1 .. pts \subseteq s.known,
           NEW seq \in Nat, 1 .. seq \subseteq s.knownSeq
    PROVE  LET r == setState(s, pts, seq)
           IN  /\ Good(r, E, top) /\ Forward(s, r)
               /\ r.box.requesting /\ r.box.good = pts /\ r.box.last = pts
               /\ (Watched(s) => Watched(r))
<1> DEFINE t == [s EXCEPT !.box = init(s.box, pts)]
           q == [t EXCEPT !.seq = seq, !.seqTimer = FALSE]
           r == setState(s, pts, seq)
<1>1. /\ Good(t, E, top) /\ Forward(s, t)
      /\ t.box.requesting /\ t.box.good = pts /\ t.box.last = pts
      /\ t.knownSeq = s.knownSeq
  BY InitGood
<1>2. r \in {t, drain(q)}
  <2>1. pts # 0
    OBVIOUS
  <2> QED
    BY <2>1, Zenon DEF setState
<1>3. Reaches(t, q, E, top)
  <2>1. t \in Updates
    BY <1>1 DEF Good
  <2> HIDE DEF t
  <2>2. Renumbered(t, q)
    BY <1>1, <2>1 DEF Renumbered, Updates
  <2> QED
    BY <1>1, <2>2, RenumberedGood
<1>9. Watched(s) => Watched(t)
  BY DEF Watched, Good, Updates
<1> HIDE DEF r, t, q
<1>4. Reaches(q, drain(q), E, top) /\ Watched(drain(q))
  BY <1>3, DrainGood DEF Reaches
<1>5. Reaches(t, drain(q), E, top)
  BY <1>1, <1>3, <1>4, ReachesOn
<1>6. Reaches(t, t, E, top)
  BY <1>1, ReachesSelf
<1>7. Reaches(t, r, E, top)
  BY <1>2, <1>5, <1>6
<1>8. s.box.good \in Nat /\ t.box.good \in Nat /\ r.box.good \in Nat
  BY <1>1, <1>7, Members DEF Good, Reaches
<1> QED
  BY <1>1, <1>2, <1>4, <1>7, <1>8, <1>9 DEF Reaches, Forward, Steady, r

\* The flag comes down over a waiter without a gap.
LEMMA FinishedGood ==
    ASSUME NEW s, NEW E, NEW top \in Nat, Good(s, E, top),
           s.box.requesting, s.box.good = s.box.last, 1 <= s.box.good
    PROVE  /\ Good(finished(s), E, top) /\ Forward(s, finished(s))
           /\ finished(s).box.good = s.box.good /\ finished(s).diff = NoDiff
           /\ Watched(s) => Watched(finished(s))
<1> DEFINE b == setRequesting(s.box, FALSE)
           t == finished(s)
<1>1. s \in Updates /\ s.box \in Waiter /\ s.box.good \in Nat /\ NoDiff \in Difference
  BY Members DEF Good, NoDiff, Difference
<1>2. /\ b \in Waiter /\ b.good = s.box.good /\ b.last = s.box.last
      /\ b.count = s.box.count /\ b.queue = {} /\ ~b.requesting
  BY <1>1 DEF setRequesting, Waiter, Good, Requesting
<1>3. t = [s EXCEPT !.box = b, !.diff = NoDiff]
  BY DEF finished
<1> HIDE DEF b, t
<1>4. /\ t \in Updates /\ t.box = b /\ t.bySeq = s.bySeq /\ t.known = s.known
      /\ t.seq = s.seq /\ t.knownSeq = s.knownSeq
      /\ t.diff = NoDiff /\ t.afterFail = s.afterFail /\ t.seqTimer = s.seqTimer
  BY <1>1, <1>2, <1>3 DEF Updates
<1>5. PICK C \in SUBSET ((s.box.good + 1) .. s.box.last) : Exact(s, C, E, top)
  BY DEF Good
<1>6. C = {}
  BY <1>1
<1>7. Exact(t, C, E, top)
  BY <1>2, <1>4, <1>5, <1>6 DEF Exact
<1>8. Waiting(t, E, top)
  BY <1>4 DEF Good, Waiting
<1>9. Requesting(t)
  BY <1>1, <1>2, <1>4 DEF Requesting, inited, NoDiff
<1>10. Good(t, E, top)
  <2>1. /\ C \in SUBSET ((t.box.good + 1) .. t.box.last)
        /\ 1 .. t.seq \subseteq t.knownSeq
        /\ 1 .. t.box.good \subseteq t.known
    BY <1>2, <1>4 DEF Good
  <2> QED
    BY <1>2, <1>4, <1>7, <1>8, <1>9, <2>1 DEF Good
<1> QED
  BY <1>1, <1>2, <1>4, <1>10 DEF Forward, Watched, t

-----------------------------------------------------------------------------
(* The steps.                                                              *)

\* The initial states are sound.
LEMMA InductiveInit == Init => Inductive
<1> SUFFICES ASSUME Init PROVE Inductive
  OBVIOUS
<1> DEFINE b == setRequesting(NewWaiter, TRUE)
           d == [NoDiff EXCEPT !.state = "sent", !.kind = "state"]
<1>1. /\ b \in Waiter /\ b.good = 0 /\ b.last = 0 /\ b.count = 0 /\ b.queue = {}
      /\ b.requesting
  BY DEF setRequesting, NewWaiter, Waiter
<1>2. d \in Difference /\ d.state = "sent" /\ d.kind = "state" /\ d.pts = 0
  BY DEF NoDiff, Difference
<1> HIDE DEF b, d
<1>3. /\ NewUpdates \in Updates /\ NewUpdates.box = b /\ NewUpdates.diff = d
      /\ NewUpdates.seq = 0 /\ NewUpdates.bySeq = {} /\ NewUpdates.known = {}
      /\ NewUpdates.knownSeq = {} /\ ~NewUpdates.afterFail
  BY <1>1, <1>2 DEF NewUpdates, Updates, b, d
<1>4. st = NewUpdates /\ net = {} /\ serverPts = 1 /\ serverSeq = 1 /\ lostUpTo = 0
  BY DEF Init
<1>5. EventsOf({}) = {} /\ IsFiniteSet({}) /\ Cardinality({}) = 0
  BY FS_EmptySet DEF EventsOf
<1> HIDE DEF NewUpdates
<1>6. Exact(st, {}, EventsOf(net), serverPts)
  BY <1>1, <1>3, <1>4, <1>5 DEF Exact
<1>7. Waiting(st, EventsOf(net), serverPts) /\ Requesting(st)
  BY <1>1, <1>2, <1>3, <1>4, <1>5 DEF Waiting, Requesting, Apart, Shaped
<1>8. Good(st, EventsOf(net), serverPts)
  <2>1. {} \in SUBSET ((st.box.good + 1) .. st.box.last)
    OBVIOUS
  <2>2. 1 .. st.seq \subseteq st.knownSeq /\ 1 .. st.box.good \subseteq st.known
    BY <1>1, <1>3, <1>4
  <2> QED
    BY <1>1, <1>3, <1>4, <1>6, <1>7, <2>1, <2>2 DEF Good
<1>9. Apart(net) /\ Shaped(net, serverPts)
  BY <1>4 DEF Apart, Shaped
<1>10. Answering
  BY <1>1, <1>2, <1>3, <1>4 DEF Answering
<1>11. TypeOK
  BY <1>3, <1>4 DEF TypeOK
<1> QED
  BY <1>4, <1>8, <1>9, <1>10, <1>11 DEF Inductive

\* A message that leaves the network takes its event along.
LEMMA DeliveredGood ==
    ASSUME Inductive, NEW m \in net, Delivered(m)
    PROVE  /\ Handled(m, EventsOf(net'), serverPts)
           /\ Good(st, EventsOf(net') \cup Points(m), serverPts)
           /\ Apart(net') /\ Shaped(net', serverPts) /\ net' \subseteq Message
           /\ serverPts \in Nat /\ serverPts' = serverPts
           /\ serverSeq' = serverSeq /\ lostUpTo' = lostUpTo
<1>1. /\ net' = net \ {m} /\ serverPts' = serverPts /\ serverSeq' = serverSeq
      /\ lostUpTo' = lostUpTo
  BY DEF Delivered
<1>2. /\ net \subseteq Message /\ serverPts \in Nat /\ Apart(net) /\ Shaped(net, serverPts)
      /\ Good(st, EventsOf(net), serverPts)
  BY DEF Inductive, TypeOK
<1>3. /\ EventsOf(net') \cap Points(m) = {}
      /\ EventsOf(net') \cup Points(m) \subseteq EventsOf(net)
  BY <1>1, <1>2 DEF EventsOf, Apart
<1>4. Apart(net') /\ Shaped(net', serverPts) /\ Shaped({m}, serverPts)
  BY <1>1, <1>2 DEF Apart, Shaped
<1>5. Good(st, EventsOf(net') \cup Points(m), serverPts)
  <2>1. serverPts <= serverPts
    BY <1>2
  <2> QED
    BY <1>2, <1>3, <2>1, GoodLater
<1> QED
  BY <1>1, <1>2, <1>3, <1>4, <1>5 DEF Handled

\* No call answers a request.
LEMMA AnsweringStays ==
    ASSUME Inductive, NEW E, Reaches(st, st', E, serverPts), serverPts' = serverPts
    PROVE  Answering'
<1>1. /\ Requesting(st) /\ Requesting(st') /\ Steady(st, st') /\ Forward(st, st')
      /\ st.box.good \in Nat /\ st'.box.good \in Nat /\ Answering
  BY Members DEF Inductive, Good, Reaches
<1>2. inited(st.box) => inited(st'.box)
  BY <1>1 DEF inited, Forward
<1>3. CASE st.box.requesting
  BY <1>1, <1>2, <1>3 DEF Answering, Steady, Requesting
<1>4. CASE ~st.box.requesting
  <2>1. inited(st'.box) /\ st.diff.state = "none"
    BY <1>1, <1>2, <1>4 DEF Requesting
  <2>2. st'.diff.state \in {"none", "sent"} /\ (st'.diff.state = "sent" => st'.diff.pts = st'.box.good)
    BY <1>1, <1>4, <2>1 DEF Steady
  <2> QED
    BY <2>1, <2>2 DEF Answering
<1> QED
  BY <1>3, <1>4

\* A handler that is a call, and leaves the server alone.
LEMMA CallKeepsInductive ==
    ASSUME Inductive, Reaches(st, st', EventsOf(net'), serverPts),
           net' \subseteq Message, Apart(net'), Shaped(net', serverPts),
           UNCHANGED <<serverPts, serverSeq, lostUpTo>>
    PROVE  Inductive' /\ Forward(st, st')
<1>1. Answering'
  BY AnsweringStays
<1>2. Good(st, EventsOf(net), serverPts)' /\ st' \in Updates /\ Forward(st, st')
  BY DEF Reaches, Good
<1>3. TypeOK' /\ (serverPts >= 1)'
  BY <1>2 DEF Inductive, TypeOK
<1>4. Apart(net)' /\ Shaped(net, serverPts)'
  OBVIOUS
<1> QED
  BY <1>1, <1>2, <1>3, <1>4 DEF Inductive

\* The handlers of what the network delivers.
LEMMA DeliveriesKeepInductive ==
    ASSUME Inductive,
           mtpUpdateReceived \/ applyResult \/ applyAffected \/ mtpNewSessionCreated
    PROVE  Inductive' /\ Forward(st, st') /\ (Watched(st) => Watched(st'))
<1>1. CASE mtpUpdateReceived \/ applyResult
  <2>1. PICK m \in net :
           /\ m.kind # "newSession" /\ Delivered(m)
           /\ m.via = "push" \/ m.kind \in {"updates", "short"}
           /\ st' \in {st, applyUpdates(st, m)}
    BY <1>1 DEF mtpUpdateReceived, applyResult
  <2> DEFINE E == EventsOf(net')
  <2>2. /\ Handled(m, E, serverPts) /\ Good(st, E \cup Points(m), serverPts)
        /\ Apart(net') /\ Shaped(net', serverPts) /\ net' \subseteq Message
        /\ serverPts \in Nat /\ UNCHANGED <<serverPts, serverSeq, lostUpTo>>
    BY <2>1, DeliveredGood
  <2>3. m.kind \in {"updates", "short", "tooLong"}
    <3>1. m.kind = "affected" => m.via = "result"
      BY <2>2 DEF Handled, Shaped
    <3> QED
      BY <2>1, <2>2, <3>1, HandledFields
  <2> HIDE DEF E
  <2>4. Good(st, E, serverPts)
    <3>1. E \in SUBSET (E \cup Points(m)) /\ serverPts <= serverPts
      BY <2>2
    <3> QED
      BY <2>2, <3>1, GoodLater
  <2>5. /\ Reaches(st, st, E, serverPts) /\ Reaches(st, applyUpdates(st, m), E, serverPts)
        /\ Watched(st) => Watched(applyUpdates(st, m))
    BY <2>2, <2>3, <2>4, ReachesSelf, ApplyUpdatesGood
  <2>6. Reaches(st, st', E, serverPts)
    BY <2>1, <2>5
  <2> QED
    BY <2>1, <2>2, <2>5, <2>6, CallKeepsInductive DEF E
<1>2. CASE applyAffected
  <2>1. PICK m \in net : m.kind = "affected" /\ Delivered(m) /\ st' = applyPts(st, m)
    BY <1>2 DEF applyAffected
  <2> DEFINE E == EventsOf(net')
  <2>2. /\ Handled(m, E, serverPts) /\ Good(st, E \cup Points(m), serverPts)
        /\ Apart(net') /\ Shaped(net', serverPts) /\ net' \subseteq Message
        /\ serverPts \in Nat /\ UNCHANGED <<serverPts, serverSeq, lostUpTo>>
    BY <2>1, DeliveredGood
  <2>3. m.count = 1 /\ m \in Message /\ m.pts <= serverPts /\ E \cap Points(m) = {}
    BY <2>1, <2>2 DEF Handled, Shaped
  <2> HIDE DEF E
  <2>4. Reaches(st, st', E, serverPts)
    BY <2>1, <2>2, <2>3, ApplyGood
  <2>5. Watched(st) => Watched(st')
    BY <2>1, <2>2, StayWatched DEF Good
  <2> QED
    BY <2>2, <2>4, <2>5, CallKeepsInductive DEF E
<1>3. CASE mtpNewSessionCreated
  <2>1. PICK m \in net : Delivered(m) /\ st' = newSessionState(st)
    BY <1>3 DEF mtpNewSessionCreated
  <2> DEFINE E == EventsOf(net')
             t == [st EXCEPT !.seq = 0]
  <2>2. /\ Good(st, E \cup Points(m), serverPts)
        /\ Apart(net') /\ Shaped(net', serverPts) /\ net' \subseteq Message
        /\ serverPts \in Nat /\ UNCHANGED <<serverPts, serverSeq, lostUpTo>>
    BY <2>1, DeliveredGood
  <2> HIDE DEF E
  <2>3. Good(st, E, serverPts) /\ st \in Updates
    <3>1. E \in SUBSET (E \cup Points(m)) /\ serverPts <= serverPts
      BY <2>2
    <3> QED
      BY <2>2, <3>1, GoodLater DEF Good
  <2>4. Renumbered(st, t)
    BY <2>3 DEF Renumbered, Updates
  <2>5. st' = getDifference(t)
    BY <2>1 DEF newSessionState
  <2>9. t \in Updates /\ (Watched(st) => Watched(t))
    BY <2>3 DEF Watched, Updates
  <2> HIDE DEF t
  <2>10. Watched(st) => Watched(st')
    BY <2>5, <2>9, StayWatched
  <2>6. Reaches(st, t, E, serverPts)
    BY <2>3, <2>4, RenumberedGood
  <2>7. Reaches(t, st', E, serverPts)
    BY <2>2, <2>5, <2>6, GetDifferenceGood DEF Reaches
  <2>8. Reaches(st, st', E, serverPts)
    BY <2>3, <2>6, <2>7, ReachesOn
  <2> QED
    BY <2>2, <2>8, <2>10, CallKeepsInductive DEF E
<1> QED
  BY <1>1, <1>2, <1>3

\* The timers that ask for a difference unless one is requested.
LEMMA TimersKeepInductive ==
    ASSUME Inductive, getDifferenceByPts \/ bySeqTimer \/ byMinChannelTimer
    PROVE  Inductive' /\ Forward(st, st')
<1> DEFINE E == EventsOf(net)
           s1 == [st EXCEPT !.seqTimer = FALSE]
           s2 == [st EXCEPT !.minTimer = FALSE]
<1>1. /\ Good(st, E, serverPts) /\ st \in Updates /\ serverPts \in Nat
      /\ Apart(net) /\ Shaped(net, serverPts) /\ net \subseteq Message
  BY DEF Inductive, TypeOK, Good
<1>2. UNCHANGED <<net, serverPts, serverSeq, lostUpTo>>
  BY DEF getDifferenceByPts, bySeqTimer, byMinChannelTimer, Fired
<1>3. st' \in {getDifference(st), getDifference(s1), getDifference(s2)}
  BY DEF getDifferenceByPts, bySeqTimer, byMinChannelTimer
<1>4. Renumbered(st, s1) /\ Renumbered(st, s2)
  BY <1>1 DEF Renumbered, Updates, Good
<1> HIDE DEF s1, s2, E
<1>5. PICK t \in {st, s1, s2} : st' = getDifference(t)
  BY <1>3
<1>6. Reaches(st, t, E, serverPts)
  BY <1>1, <1>4, ReachesSelf, RenumberedGood
<1>7. Reaches(t, getDifference(t), E, serverPts)
  BY <1>1, <1>6, GetDifferenceGood DEF Reaches
<1>8. Reaches(st, st', E, serverPts)
  BY <1>1, <1>5, <1>6, <1>7, ReachesOn
<1>9. E = EventsOf(net') /\ Apart(net') /\ Shaped(net', serverPts) /\ net' \subseteq Message
  BY <1>1, <1>2 DEF E
<1> QED
  BY <1>2, <1>8, <1>9, CallKeepsInductive

\* A request goes from one state to another.
Redirected(s, t) ==
    /\ t \in Updates /\ t.box = s.box /\ t.seq = s.seq /\ t.bySeq = s.bySeq
    /\ t.known = s.known /\ t.knownSeq = s.knownSeq
    /\ s.diff.state # "none" /\ t.diff.state # "none"
    /\ t.afterFail => s.afterFail \/ inited(s.box)

\* The fate of a request leaves the account sound.
LEMMA RedirectedGood ==
    ASSUME NEW s, NEW t, NEW E, NEW top \in Nat, Good(s, E, top), Redirected(s, t)
    PROVE  Good(t, E, top) /\ Forward(s, t)
<1>1. s \in Updates /\ s.box.good \in Nat
  BY Members DEF Good
<1>2. PICK C \in SUBSET ((s.box.good + 1) .. s.box.last) : Exact(s, C, E, top)
  BY DEF Good
<1>3. Exact(t, C, E, top)
  <2>1. t.box = s.box /\ t.bySeq = s.bySeq /\ t.known = s.known
    BY DEF Redirected
  <2> QED
    BY <1>2, <2>1 DEF Exact
<1>4. Waiting(t, E, top) /\ Requesting(t)
  BY DEF Good, Waiting, Requesting, Redirected
<1>5. /\ C \in SUBSET ((t.box.good + 1) .. t.box.last)
      /\ t \in Updates /\ 1 .. t.seq \subseteq t.knownSeq
      /\ 1 .. t.box.good \subseteq t.known
      /\ t.box.queue # {} => t.box.skipped
  BY DEF Good, Redirected
<1>6. Forward(s, t)
  BY <1>1 DEF Forward, Redirected
<1> QED
  BY <1>3, <1>4, <1>5, <1>6 DEF Good

\* A request that fails, ends in a way nobody handles, or is answered.
LEMMA RequestsKeepInductive ==
    ASSUME Inductive, differenceFail \/ differenceUnhandled \/ ServerAnswer
    PROVE  Inductive' /\ Forward(st, st')
<1>1. /\ Good(st, EventsOf(net), serverPts) /\ st \in Updates /\ serverPts \in Nat
      /\ Answering /\ serverPts >= 1 /\ serverSeq \in Nat
      /\ st.box.good \in Nat /\ st.box.last \in Nat /\ st.diff \in Difference
      /\ st.afterFail \in BOOLEAN
  BY Members DEF Inductive, TypeOK, Good
<1>2. UNCHANGED <<net, serverPts, serverSeq, lostUpTo>> /\ st.diff.state = "sent"
  BY DEF differenceFail, differenceUnhandled, ServerAnswer
<1>3. st.box.good <= serverPts
  <2>1. PICK C \in SUBSET ((st.box.good + 1) .. st.box.last) :
           Exact(st, C, EventsOf(net), serverPts)
    BY <1>1 DEF Good
  <2> QED
    BY <1>1, <2>1 DEF Exact
<1>4. st.diff.pts = st.box.good /\ (inited(st.box) \/ st.diff.kind = "state")
  BY <1>1, <1>2 DEF Answering
<1>5. PICK d \in Difference, a \in BOOLEAN :
         /\ st' = [st EXCEPT !.diff = d, !.afterFail = a]
         /\ a => st.afterFail \/ st.diff.kind # "state"
         /\ \/ d.state \in {"failed", "stuck"} /\ d.kind = st.diff.kind
            \/ /\ d.state = "answered" /\ 1 <= d.pts /\ d.pts <= serverPts
               /\ st.box.good <= d.pts
               /\ d.kind = "empty" => d.pts = st.box.good
               /\ (d.kind = "state") = (st.diff.kind = "state")
  <2>1. CASE differenceFail
    <3> DEFINE d == [st.diff EXCEPT !.state = "failed"]
    <3>1. d \in Difference /\ d.state = "failed" /\ d.kind = st.diff.kind
      BY <1>1 DEF Difference
    <3>2. st' = [st EXCEPT !.diff = d, !.afterFail = TRUE] /\ st.diff.kind # "state"
      BY <1>1, <2>1 DEF differenceFail, Updates
    <3> HIDE DEF d
    <3>3. PICK a \in BOOLEAN : a = TRUE
      OBVIOUS
    <3>4. st' = [st EXCEPT !.diff = d, !.afterFail = a]
      BY <3>2, <3>3
    <3> QED
      BY <3>1, <3>2, <3>4
  <2>2. CASE differenceUnhandled
    <3> DEFINE d == [st.diff EXCEPT !.state = "stuck"]
    <3>1. d \in Difference /\ d.state = "stuck" /\ d.kind = st.diff.kind
      BY <1>1 DEF Difference
    <3>2. st' = [st EXCEPT !.diff = d, !.afterFail = st.afterFail]
      BY <1>1, <2>2 DEF differenceUnhandled, Updates
    <3> HIDE DEF d
    <3> QED
      BY <1>1, <3>1, <3>2
  <2>3. CASE ServerAnswer
    <3>1. PICK kind \in {"state", "empty", "slice", "difference"}, pts \in 1 .. serverPts :
            /\ (kind = "state") = (st.diff.kind = "state")
            /\ kind = "empty" => pts = st.diff.pts
            /\ kind \in {"state", "empty", "difference"} => pts = serverPts
            /\ kind = "slice" => st.diff.pts < pts /\ pts < serverPts
            /\ kind = "difference" => st.diff.pts < pts
            /\ st' = [st EXCEPT !.diff = [state |-> "answered", kind |-> kind,
                                          pts |-> pts, seq |-> serverSeq]]
      BY <2>3 DEF ServerAnswer
    <3> DEFINE d == [state |-> "answered", kind |-> kind, pts |-> pts, seq |-> serverSeq]
    <3>2. d \in Difference /\ d.state = "answered" /\ d.kind = kind /\ d.pts = pts
      BY <1>1 DEF Difference
    <3>3. st' = [st EXCEPT !.diff = d, !.afterFail = st.afterFail]
      BY <1>1, <3>1 DEF Updates
    <3> HIDE DEF d
    <3>4. /\ 1 <= d.pts /\ d.pts <= serverPts /\ st.box.good <= d.pts
          /\ d.kind = "empty" => d.pts = st.box.good
      BY <1>1, <1>3, <1>4, <3>1, <3>2
    <3> QED
      BY <1>1, <3>1, <3>2, <3>3, <3>4
  <2> QED
    BY <2>1, <2>2, <2>3
<1>6. /\ st'.box = st.box /\ st'.diff = d /\ st'.afterFail = a
      /\ st'.seq = st.seq /\ st'.bySeq = st.bySeq
      /\ st'.known = st.known /\ st'.knownSeq = st.knownSeq
      /\ st' \in Updates
  BY <1>1, <1>5 DEF Updates
<1>7. Redirected(st, st')
  BY <1>2, <1>4, <1>5, <1>6 DEF Redirected
<1>8. Good(st', EventsOf(net), serverPts) /\ Forward(st, st')
  BY <1>1, <1>7, RedirectedGood
<1>9. Good(st, EventsOf(net), serverPts)' /\ (Apart(net) /\ Shaped(net, serverPts))'
  BY <1>2, <1>8 DEF Inductive
<1>10. Answering'
  <2>1. serverPts' = serverPts
    BY <1>2
  <2> QED
    BY <1>1, <1>4, <1>5, <1>6, <2>1 DEF Answering
<1>11. TypeOK' /\ (serverPts >= 1)'
  BY <1>2, <1>6 DEF Inductive, TypeOK
<1> QED
  BY <1>8, <1>9, <1>10, <1>11 DEF Inductive

\* A failed request is made again from the same _good.
LEMMA AfterFailKeepsInductive ==
    ASSUME Inductive, getDifferenceAfterFail
    PROVE  Inductive' /\ Forward(st, st')
<1> DEFINE b == setRequesting(st.box, FALSE)
           t == [st EXCEPT !.box = b]
           r == getDifference(t)
<1>1. /\ Good(st, EventsOf(net), serverPts) /\ st \in Updates /\ serverPts \in Nat
      /\ st.box \in Waiter /\ inited(st.box)
  BY Members DEF Inductive, TypeOK, Good, Requesting, getDifferenceAfterFail
<1>2. UNCHANGED <<net, serverPts, serverSeq, lostUpTo>> /\ st' = r
  BY DEF getDifferenceAfterFail, Fired, afterFailState
<1>3. /\ b \in Waiter /\ ~b.requesting
      /\ b.good = st.box.good /\ b.last = st.box.last /\ b.count = st.box.count
  BY <1>1 DEF setRequesting, Waiter
<1> HIDE DEF b
<1>4. /\ t \in Updates /\ t.box = b /\ t.seq = st.seq /\ t.knownSeq = st.knownSeq
      /\ t.known = st.known
  BY <1>1, <1>3 DEF Updates
<1> HIDE DEF t
<1>5. Requested(t, r)
  BY <1>3, <1>4, RequestSent
<1> HIDE DEF r
<1>6. Requested(st, r)
  BY <1>3, <1>4, <1>5 DEF Requested
<1>7. Good(r, EventsOf(net), serverPts) /\ Forward(st, r)
  BY <1>1, <1>6, RequestedGood
<1>8. Good(st, EventsOf(net), serverPts)' /\ (Apart(net) /\ Shaped(net, serverPts))'
  BY <1>2, <1>7 DEF Inductive
<1>9. Answering'
  <2>1. inited(r.box) /\ r.diff.state = "sent" /\ r.diff.pts = r.box.good
    BY <1>1, <1>6 DEF Requested, NoDiff, inited
  <2> QED
    BY <1>2, <2>1 DEF Answering
<1>10. TypeOK' /\ (serverPts >= 1)'
  BY <1>2, <1>7 DEF Inductive, TypeOK, Good
<1> QED
  BY <1>2, <1>7, <1>8, <1>9, <1>10 DEF Inductive

\* The handler of an answer.
LEMMA DoneKeepsInductive ==
    ASSUME Inductive, differenceDone
    PROVE  Inductive' /\ Forward(st, st') /\ (Watched(st) => Watched(st'))
<1> DEFINE E == EventsOf(net)
           d == st.diff
           t == fed(st, d)
           pts == IF d.kind = "empty" THEN t.box.good ELSE d.pts
           r == setState(t, pts, d.seq)
           q == finished(r)
<1>1. /\ Good(st, E, serverPts) /\ st \in Updates /\ serverPts \in Nat
      /\ d.state = "answered" /\ Answering /\ st.box.requesting
      /\ st.box.good \in Nat /\ d \in Difference
      /\ d.pts \in Nat /\ d.seq \in Nat
      /\ d.kind \in {"state", "empty", "slice", "difference"}
      /\ st.known \subseteq Int /\ st.knownSeq \subseteq Int
      /\ st.seq \in Nat
  <2>1. Good(st, E, serverPts) /\ st \in Updates /\ serverPts \in Nat /\ Answering
    BY DEF Inductive, TypeOK, Good
  <2>2. d.state = "answered"
    BY DEF differenceDone
  <2>3. st.box.requesting
    BY <2>1, <2>2 DEF Good, Requesting
  <2>4. d \in Difference
    BY <2>1, Members
  <2> QED
    BY <2>1, <2>2, <2>3, <2>4, Members DEF Difference
<1>2. UNCHANGED <<net, serverPts, serverSeq, lostUpTo>>
  BY DEF differenceDone
<1>3. /\ 1 <= d.pts /\ st.box.good <= d.pts /\ d.pts <= serverPts
      /\ d.kind = "empty" => d.pts = st.box.good
  BY <1>1 DEF Answering
<1> DEFINE K == CASE d.kind = "state" -> 1 .. d.pts
                  [] d.kind \in {"slice", "difference"} -> (st.box.good + 1) .. d.pts
                  [] OTHER -> {}
<1>4. K \subseteq Int
  BY <1>1
<1>5. t = [st EXCEPT !.known = st.known \cup K, !.knownSeq = st.knownSeq \cup (1 .. d.seq)]
  BY DEF fed
<1>6. 1 .. d.pts \subseteq st.known \cup K
  <2>1. 1 .. st.box.good \subseteq st.known
    BY <1>1 DEF Good
  <2>2. \A i \in 1 .. d.pts : i \in 1 .. st.box.good \/ i \in (st.box.good + 1) .. d.pts
    BY <1>1
  <2> QED
    BY <1>1, <1>3, <2>1, <2>2
<1> HIDE DEF K, t
<1>7. /\ t \in Updates /\ t.box = st.box /\ t.bySeq = st.bySeq /\ t.diff = st.diff
      /\ t.afterFail = st.afterFail /\ t.seq = st.seq /\ t.seqTimer = st.seqTimer
      /\ t.known = st.known \cup K /\ t.knownSeq = st.knownSeq \cup (1 .. d.seq)
  <2> DEFINE A == st.known \cup K
             B == st.knownSeq \cup (1 .. d.seq)
  <2>1. A \subseteq Int /\ B \subseteq Int
    <3>1. 1 .. d.seq \subseteq Int
      BY <1>1
    <3> HIDE DEF d
    <3> QED
      BY <1>1, <1>4, <3>1
  <2>2. t = [st EXCEPT !.known = A, !.knownSeq = B]
    BY <1>5
  <2> HIDE DEF A, B
  <2>3. /\ t \in Updates /\ t.box = st.box /\ t.bySeq = st.bySeq /\ t.diff = st.diff
        /\ t.afterFail = st.afterFail /\ t.seq = st.seq /\ t.seqTimer = st.seqTimer
        /\ t.known = A /\ t.knownSeq = B
    BY <1>1, <2>1, <2>2 DEF Updates
  <2> QED
    BY <2>3 DEF A, B
<1>8. Renumbered(st, t)
  <2>1. 1 .. st.seq \subseteq st.knownSeq
    BY <1>1 DEF Good
  <2> QED
    BY <1>7, <2>1 DEF Renumbered
<1>9. Reaches(st, t, E, serverPts)
  BY <1>1, <1>8, RenumberedGood
<1>10. pts = d.pts
  BY <1>3, <1>7
<1>11. /\ Good(t, E, serverPts) /\ Forward(st, t) /\ t.box.requesting
       /\ t.box.good <= d.pts
       /\ 1 .. d.pts \subseteq t.known /\ 1 .. d.seq \subseteq t.knownSeq
  BY <1>1, <1>3, <1>6, <1>7, <1>9 DEF Reaches
<1> HIDE DEF d, E, pts
<1>12. /\ Good(r, E, serverPts) /\ Forward(t, r) /\ r.box.requesting
       /\ r.box.good = d.pts /\ r.box.last = d.pts
       /\ (Watched(t) => Watched(r))
  <2> HIDE DEF r
  <2>1. r = setState(t, d.pts, d.seq)
    BY <1>10 DEF r
  <2> QED
    BY <1>1, <1>3, <1>11, <2>1, SetStateGood
<1> HIDE DEF r
<1>13. /\ Good(q, E, serverPts) /\ Forward(r, q) /\ q.box.good = d.pts /\ q.diff = NoDiff
       /\ Watched(r) => Watched(q)
  BY <1>1, <1>3, <1>12, FinishedGood
<1> HIDE DEF q
<1>14. st' \in {q, getDifference(q)}
  BY DEF differenceDone, stateOf, q, r, pts, t, d
<1>15. Reaches(q, st', E, serverPts)
  BY <1>1, <1>13, <1>14, ReachesSelf, GetDifferenceGood
<1>16. Forward(st, st')
  <2>1. /\ t.box.good \in Nat /\ r.box.good \in Nat /\ q.box.good \in Nat
        /\ st'.box.good \in Nat
    BY <1>11, <1>12, <1>13, <1>15, Members DEF Good, Reaches
  <2> QED
    BY <1>1, <1>11, <1>12, <1>13, <1>15, <2>1 DEF Forward, Reaches
<1>17. Good(st, EventsOf(net), serverPts)' /\ (Apart(net) /\ Shaped(net, serverPts))'
  BY <1>2, <1>15 DEF Inductive, Reaches, E
<1>18. Answering'
  <2>1. Requesting(q) /\ ~q.box.requesting
    BY <1>13 DEF Good, Requesting, NoDiff
  <2>2. st'.diff.state = "none" \/ (st'.diff.state = "sent" /\ st'.diff.pts = st'.box.good)
    BY <1>13, <1>15, <2>1 DEF Reaches, Steady, NoDiff
  <2>3. inited(st'.box)
    <3>1. st'.box.good \in Nat /\ q.box.good <= st'.box.good
      BY <1>15, Members DEF Reaches, Good, Forward
    <3> QED
      BY <1>1, <1>3, <1>13, <3>1 DEF inited
  <2> QED
    BY <2>2, <2>3 DEF Answering
<1>19. TypeOK' /\ (serverPts >= 1)'
  BY <1>2, <1>15 DEF Inductive, TypeOK, Good, Reaches
<1>20. Watched(st) => Watched(st')
  <2>1. Watched(st) => Watched(q)
    BY <1>7, <1>12, <1>13 DEF Watched
  <2> QED
    BY <1>13, <1>14, <2>1, StayWatched DEF Good
<1> QED
  BY <1>16, <1>17, <1>18, <1>19, <1>20 DEF Inductive

\* A message stands for events up to its pts, and for one at most.
LEMMA PointsBounded ==
    ASSUME NEW M \in SUBSET Message, NEW top \in Nat, Shaped(M, top), NEW m \in M
    PROVE  Points(m) \in SUBSET Nat /\ \A p \in Points(m) : p <= top
<1>1. m.pts \in Nat /\ m.count \in {0, 1} /\ m.pts <= top
  BY DEF Message, Shaped
<1>2. Points(m) = {} \/ Points(m) = {m.pts}
  BY <1>1, PointsOfOne
<1> QED
  BY <1>1, <1>2

\* What the server posts later was not counted.
LEMMA ArriveGood ==
    ASSUME NEW s, NEW E, NEW top \in Nat, Good(s, E, top),
           NEW late \in Nat, top <= late, NEW P \in SUBSET ((top + 1) .. late)
    PROVE  Good(s, E \cup P, late)
<1>1. Good(s, E, late)
  BY GoodLater
<1>2. PICK C \in SUBSET ((s.box.good + 1) .. s.box.last) : Exact(s, C, E, top)
  BY DEF Good
<1>3. /\ s.box.good \in Nat /\ s.box.last \in Nat /\ s.box.last <= top
      /\ s.bySeq \in SUBSET Message /\ Shaped(s.bySeq, top)
  BY <1>2, Members DEF Exact, Good, Waiting
<1>4. C \cap P = {}
  BY <1>3
<1>5. P \cap EventsOf(s.bySeq) = {}
  <2>1. ASSUME NEW m \in s.bySeq
        PROVE  P \cap Points(m) = {}
    <3>1. Points(m) \in SUBSET Nat /\ \A p \in Points(m) : p <= top
      BY <1>3, PointsBounded
    <3> QED
      BY <3>1
  <2> QED
    BY <2>1 DEF EventsOf
<1>6. Exact(s, C, E \cup P, late)
  <2>1. C \cap (E \cup P) = {}
    BY <1>2, <1>4 DEF Exact
  <2>2. s.box.last <= late
    BY <1>3
  <2> QED
    BY <1>2, <2>1, <2>2 DEF Exact
<1>7. Waiting(s, E \cup P, late)
  BY <1>1, <1>5 DEF Good, Waiting
<1> QED
  BY <1>1, <1>6, <1>7 DEF Good

\* The server sends a message n with what it has just posted, or gives up
\* others; the object stays, but for the state of its request.
LEMMA SendKeepsInductive ==
    ASSUME Inductive, NEW n \in Message, net' \subseteq net \cup {n},
           serverPts' \in Nat, serverPts <= serverPts', Shaped({n}, serverPts'),
           Points(n) \subseteq (serverPts + 1) .. serverPts',
           serverSeq' \in Nat, lostUpTo' \in Nat,
           st' = st \/ (Redirected(st, st') /\ Answering')
    PROVE  Inductive' /\ Forward(st, st')
<1> DEFINE P == Points(n)
<1>1. /\ Good(st, EventsOf(net), serverPts) /\ st \in Updates /\ serverPts \in Nat
      /\ Answering /\ Apart(net) /\ Shaped(net, serverPts) /\ net \in SUBSET Message
      /\ st.box.good \in Nat /\ st.diff \in Difference /\ serverPts >= 1
  BY Members DEF Inductive, TypeOK, Good
<1>2. Good(st, EventsOf(net) \cup P, serverPts')
  <2>1. P \in SUBSET ((serverPts + 1) .. serverPts')
    OBVIOUS
  <2> HIDE DEF P
  <2> QED
    BY <1>1, <2>1, ArriveGood
<1>3. EventsOf(net') \subseteq EventsOf(net) \cup P
  BY DEF EventsOf
<1> HIDE DEF P
<1>4. Good(st, EventsOf(net'), serverPts')
  <2>1. serverPts' <= serverPts'
    OBVIOUS
  <2> QED
    BY <1>2, <1>3, <2>1, GoodLater
<1>5. Good(st', EventsOf(net'), serverPts') /\ Forward(st, st')
  <2>1. Forward(st, st)
    BY <1>1 DEF Forward
  <2> QED
    BY <1>4, <2>1, RedirectedGood
<1>6. Good(st, EventsOf(net), serverPts)'
  BY <1>5
<1>7. \A m \in net : Points(m) \cap Points(n) = {}
  <2> SUFFICES ASSUME NEW m \in net
               PROVE  Points(m) \cap Points(n) = {}
    OBVIOUS
  <2>1. Points(m) \in SUBSET Nat /\ \A p \in Points(m) : p <= serverPts
    BY <1>1, PointsBounded
  <2> QED
    BY <1>1, <2>1
<1>8. Apart(net')
  BY <1>1, <1>7 DEF Apart
<1>9. Shaped(net', serverPts')
  <2>1. \A m \in net : m.pts \in Nat
    BY <1>1 DEF Message
  <2> QED
    BY <1>1, <2>1 DEF Shaped
<1>10. (Apart(net) /\ Shaped(net, serverPts))'
  BY <1>8, <1>9
<1>11. Answering'
  <2>1. CASE st' = st
    <3>1. st.diff.pts \in Nat
      BY <1>1 DEF Difference
    <3> QED
      BY <1>1, <2>1, <3>1 DEF Answering
  <2>2. CASE Answering'
    BY <2>2
  <2> QED
    BY <2>1, <2>2
<1>12. TypeOK' /\ (serverPts >= 1)'
  BY <1>1, <1>5 DEF TypeOK, Good
<1> QED
  BY <1>5, <1>6, <1>10, <1>11, <1>12 DEF Inductive

\* The pushes of the server and the results of other requests.
LEMMA ServerKeepsInductive ==
    ASSUME Inductive, ServerUpdates \/ ServerShort \/ ServerTooLong \/ ServerNewSession
    PROVE  Inductive' /\ Forward(st, st')
<1>1. serverPts \in Nat /\ serverSeq \in Nat /\ lostUpTo \in Nat
  BY DEF Inductive, TypeOK
<1>2. CASE ServerUpdates
  <2>1. PICK c \in Contents, n \in 0 .. 2, via \in {"push", "result"} :
          /\ serverPts' = serverPts + c.count
          /\ serverSeq' = serverSeq + n
          /\ net' = net \cup {[c EXCEPT !.via = via, !.pts = serverPts',
                                        !.start = IF n = 0 THEN 0 ELSE serverSeq + 1,
                                        !.seq = IF n = 0 THEN 0 ELSE serverSeq']}
          /\ UNCHANGED <<st, lostUpTo>>
    BY <1>2 DEF ServerUpdates
  <2> DEFINE start == IF n = 0 THEN 0 ELSE serverSeq + 1
             seq == IF n = 0 THEN 0 ELSE serverSeq'
             m == [c EXCEPT !.via = via, !.pts = serverPts', !.start = start, !.seq = seq]
  <2>2. /\ c \in Message /\ c.kind = "updates" /\ c.count \in {0, 1}
        /\ c.what = "message" <=> c.count = 1
    <3>1. CASE c = [Plain EXCEPT !.what = "other"]
      <4>1. c = [kind |-> "updates", via |-> "push", start |-> 0, seq |-> 0,
                 what |-> "other", pts |-> 0, count |-> 0, loaded |-> TRUE]
        BY <3>1 DEF Plain
      <4>2. c \in Message /\ c.kind = "updates"
        BY <4>1 DEF Message
      <4>3. c.what = "other" /\ c.count = 0
        BY <4>1
      <4> QED
        BY <4>2, <4>3
    <3>2. CASE c = [Plain EXCEPT !.what = "channel"]
      <4>1. c = [kind |-> "updates", via |-> "push", start |-> 0, seq |-> 0,
                 what |-> "channel", pts |-> 0, count |-> 0, loaded |-> TRUE]
        BY <3>2 DEF Plain
      <4>2. c \in Message /\ c.kind = "updates"
        BY <4>1 DEF Message
      <4>3. c.what = "channel" /\ c.count = 0
        BY <4>1
      <4> QED
        BY <4>2, <4>3
    <3>3. CASE c = [Plain EXCEPT !.what = "message", !.count = 1]
      BY <3>3 DEF Plain, Message
    <3>4. CASE c = [Plain EXCEPT !.what = "message", !.count = 1, !.loaded = FALSE]
      BY <3>4 DEF Plain, Message
    <3> QED
      BY <3>1, <3>2, <3>3, <3>4 DEF Contents
  <2>3. serverPts' \in Nat /\ serverSeq' \in Nat /\ start \in Nat /\ seq \in Nat
    BY <1>1, <2>1, <2>2
  <2>4. net' = net \cup {m}
    BY <2>1
  <2> HIDE DEF start, seq
  <2>5. /\ m \in Message /\ m.kind = "updates" /\ m.count = c.count /\ m.what = c.what
        /\ m.pts = serverPts'
    BY <2>2, <2>3 DEF Message
  <2> HIDE DEF m
  <2>6. Shaped({m}, serverPts')
    BY <2>2, <2>3, <2>5 DEF Shaped
  <2>7. Points(m) \subseteq (serverPts + 1) .. serverPts'
    BY <1>1, <2>1, <2>2, <2>3, <2>5 DEF Points
  <2>8. serverPts <= serverPts'
    BY <1>1, <2>1, <2>2
  <2> QED
    BY <1>1, <2>1, <2>3, <2>4, <2>5, <2>6, <2>7, <2>8, SendKeepsInductive
<1>3. CASE ServerShort
  <2>1. PICK kind \in {"short", "affected"}, via \in {"push", "result"},
             loaded \in BOOLEAN :
          /\ kind = "affected" => via = "result"
          /\ serverPts' = serverPts + 1
          /\ net' = net \cup {[Plain EXCEPT !.kind = kind, !.pts = serverPts', !.count = 1,
                                 !.what = "message", !.loaded = loaded, !.via = via]}
          /\ UNCHANGED <<st, serverSeq, lostUpTo>>
    BY <1>3 DEF ServerShort
  <2> DEFINE m == [Plain EXCEPT !.kind = kind, !.pts = serverPts', !.count = 1,
                                !.what = "message", !.loaded = loaded, !.via = via]
  <2>2. serverPts' \in Nat /\ serverPts <= serverPts'
    BY <1>1, <2>1
  <2>3. /\ m \in Message /\ m.kind = kind /\ m.count = 1 /\ m.pts = serverPts'
        /\ m.kind = "affected" => m.via = "result"
    BY <2>1, <2>2 DEF Plain, Message
  <2>4. net' = net \cup {m}
    BY <2>1
  <2> HIDE DEF m
  <2>5. Shaped({m}, serverPts')
    BY <2>2, <2>3 DEF Shaped
  <2>6. Points(m) \subseteq (serverPts + 1) .. serverPts'
    BY <1>1, <2>1, <2>3 DEF Points
  <2> QED
    BY <1>1, <2>1, <2>2, <2>3, <2>4, <2>5, <2>6, SendKeepsInductive
<1>4. ASSUME NEW kind \in {"tooLong", "newSession"}
      PROVE  LET m == [Plain EXCEPT !.kind = kind]
             IN  /\ m \in Message
                 /\ serverPts' = serverPts =>
                      /\ Shaped({m}, serverPts')
                      /\ Points(m) \subseteq (serverPts + 1) .. serverPts'
  <2> DEFINE m == [Plain EXCEPT !.kind = kind]
  <2>1. m \in Message /\ m.kind = kind /\ m.pts = 0 /\ m.count = 0
    BY DEF Plain, Message
  <2> HIDE DEF m
  <2>2. Points(m) = {}
    BY <2>1, PointsOfOne
  <2>3. serverPts' = serverPts => Shaped({m}, serverPts')
    BY <1>1, <2>1 DEF Shaped
  <2> QED
    BY <2>1, <2>2, <2>3 DEF m
<1>5. CASE ServerTooLong
  <2> DEFINE m == [Plain EXCEPT !.kind = "tooLong"]
  <2>1. net' = net \cup {m} /\ UNCHANGED <<st, serverPts, serverSeq, lostUpTo>>
    BY <1>5 DEF ServerTooLong
  <2>2. /\ m \in Message /\ Shaped({m}, serverPts')
        /\ Points(m) \subseteq (serverPts + 1) .. serverPts'
    BY <1>4, <2>1
  <2> HIDE DEF m
  <2>3. serverPts' \in Nat /\ serverPts <= serverPts'
    BY <1>1, <2>1
  <2> QED
    BY <1>1, <2>1, <2>2, <2>3, SendKeepsInductive
<1>6. CASE ServerNewSession
  <2> DEFINE m == [Plain EXCEPT !.kind = "newSession"]
             d == [st.diff EXCEPT !.state = "sent", !.pts = st.box.good]
  <2>1. /\ net' \subseteq net \cup {m} /\ UNCHANGED <<serverPts, serverSeq>>
        /\ lostUpTo' = serverPts
        /\ st' = IF st.diff.state # "answered" THEN st
                 ELSE [st EXCEPT !.diff.state = "sent", !.diff.pts = st.box.good]
    BY <1>6 DEF ServerNewSession
  <2>2. /\ m \in Message /\ Shaped({m}, serverPts')
        /\ Points(m) \subseteq (serverPts + 1) .. serverPts'
    BY <1>4, <2>1
  <2>3. st' = st \/ (Redirected(st, st') /\ Answering')
    <3>1. CASE st.diff.state # "answered"
      BY <2>1, <3>1
    <3>2. CASE st.diff.state = "answered"
      <4>1. st \in Updates /\ st.diff \in Difference /\ st.box.good \in Nat /\ Answering
        BY Members DEF Inductive, Good
      <4>2. d \in Difference /\ d.state = "sent" /\ d.pts = st.box.good /\ d.kind = st.diff.kind
        BY <4>1 DEF Difference
      <4>3. st' = [st EXCEPT !.diff = d]
        BY <2>1, <3>2, <4>1 DEF Updates, Difference
      <4> HIDE DEF d
      <4>4. /\ st' \in Updates /\ st'.box = st.box /\ st'.seq = st.seq /\ st'.bySeq = st.bySeq
            /\ st'.known = st.known /\ st'.knownSeq = st.knownSeq
            /\ st'.afterFail = st.afterFail /\ st'.diff = d
        BY <4>1, <4>2, <4>3 DEF Updates
      <4>5. Redirected(st, st')
        BY <3>2, <4>2, <4>4 DEF Redirected
      <4>6. Answering'
        BY <3>2, <4>1, <4>2, <4>4 DEF Answering
      <4> QED
        BY <4>5, <4>6
    <3> QED
      BY <3>1, <3>2
  <2> HIDE DEF m
  <2>4. serverPts' \in Nat /\ serverPts <= serverPts'
    BY <1>1, <2>1
  <2> QED
    BY <1>1, <2>1, <2>2, <2>3, <2>4, SendKeepsInductive
<1> QED
  BY <1>2, <1>3, <1>5, <1>6

\* Every step keeps the invariant, loses no applied event and does not move
\* _good back.
LEMMA InductiveStep == Inductive /\ [Next]_vars => Inductive' /\ Forward(st, st')
<1> SUFFICES ASSUME Inductive, [Next]_vars
             PROVE  Inductive' /\ Forward(st, st')
  OBVIOUS
<1>1. CASE UNCHANGED vars
  <2>1. st.box.good \in Nat
    BY Members DEF Inductive, Good
  <2> QED
    BY <1>1, <2>1 DEF vars, Inductive, TypeOK, Answering, Forward
<1> QED
  BY <1>1, DeliveriesKeepInductive, TimersKeepInductive, RequestsKeepInductive,
     AfterFailKeepsInductive, DoneKeepsInductive, ServerKeepsInductive
     DEF Next, Handlers, Server

\* The Updates object, the messages and the server's numbers keep their types
\* through every handler.
THEOREM TypeCorrect == Spec => []TypeOK
<1>1. Inductive /\ [Next]_vars => Inductive'
  BY InductiveStep
<1>2. Inductive => TypeOK
  BY DEF Inductive
<1> QED
  BY InductiveInit, <1>1, <1>2, PTL DEF Spec

\* The account's _good never passes an event that is not applied, although
\* pushes are dropped and results applied uncounted while a difference is
\* requested, and containers are drained in the middle of an answer.
THEOREM NothingLostSilently == Spec => []NoSilentLoss
<1>1. Inductive /\ [Next]_vars => Inductive'
  BY InductiveStep
<1>2. Inductive => NoSilentLoss
  BY DEF Inductive, Good, NoSilentLoss
<1> QED
  BY InductiveInit, <1>1, <1>2, PTL DEF Spec

\* _updatesSeq never passes a container that was neither applied nor made up
\* for by a difference, however many containers setState() drains at once.
THEOREM NoContainerSkipped == Spec => []NoSkippedContainer
<1>1. Inductive /\ [Next]_vars => Inductive'
  BY InductiveStep
<1>2. Inductive => NoSkippedContainer
  BY DEF Inductive, Good, NoSkippedContainer
<1> QED
  BY InductiveInit, <1>1, <1>2, PTL DEF Spec

\* The timers, the failures and the server leave the containers watched, but
\* for the timer that fires while a difference is requested.
LEMMA TimersStayWatched ==
    ASSUME st \in Updates, Watched(st), Next,
           ~(mtpUpdateReceived \/ applyResult \/ applyAffected \/ mtpNewSessionCreated),
           ~differenceDone, ~(bySeqTimer /\ requestingDifference(st))
    PROVE  Watched(st')
<1>1. CASE getDifferenceByPts
  BY <1>1, StayWatched DEF getDifferenceByPts
<1>2. CASE bySeqTimer
  <2> DEFINE t == [st EXCEPT !.seqTimer = FALSE]
  <2>1. t \in Updates /\ ~t.box.requesting /\ st' = getDifference(t)
    BY <1>2 DEF bySeqTimer, requestingDifference, Updates
  <2> HIDE DEF t
  <2> QED
    BY <2>1, RequestSent DEF Watched, Requested
<1>3. CASE byMinChannelTimer
  <2> DEFINE t == [st EXCEPT !.minTimer = FALSE]
  <2>1. t \in Updates /\ Watched(t) /\ st' = getDifference(t)
    BY <1>3 DEF byMinChannelTimer, Watched, Updates
  <2> HIDE DEF t
  <2> QED
    BY <2>1, StayWatched
<1>4. CASE getDifferenceAfterFail
  <2> DEFINE t == [st EXCEPT !.box = setRequesting(st.box, FALSE)]
  <2>1. t \in Updates /\ Watched(t) /\ st' = getDifference(t)
    <3>1. setRequesting(st.box, FALSE) \in Waiter
      BY Members, SettersType
    <3> QED
      BY <1>4, <3>1 DEF getDifferenceAfterFail, afterFailState, Watched, Updates
  <2> HIDE DEF t
  <2> QED
    BY <2>1, StayWatched
<1>5. CASE differenceFail \/ differenceUnhandled \/ ServerAnswer \/ ServerNewSession
  BY <1>5 DEF differenceFail, differenceUnhandled, ServerAnswer, ServerNewSession,
     Watched, Updates
<1>6. CASE ServerUpdates \/ ServerShort \/ ServerTooLong
  BY <1>6 DEF ServerUpdates, ServerShort, ServerTooLong
<1> QED
  BY <1>1, <1>2, <1>3, <1>4, <1>5, <1>6 DEF Next, Handlers, Server

\* The containers in _bySeqUpdates lose their timer only when it fires while a
\* difference is requested: setState(), which cancels it first, starts it again
\* before it leaves a gap behind, however many containers it has applied.
THEOREM GapWatched == Spec => GapIsWatched
<1>1. Inductive /\ [Next]_vars => Inductive'
  BY InductiveStep
<1>2. Unwatched = ~Watched(st)
  BY DEF Unwatched, Watched
<1>3. Unwatched' = ~Watched(st')
  BY DEF Unwatched, Watched
<1>4. ASSUME Inductive, [Next]_vars, Watched(st), ~(bySeqTimer /\ requestingDifference(st))
      PROVE  Watched(st')
  <2>1. CASE UNCHANGED vars
    BY <1>4, <2>1 DEF vars
  <2>2. CASE Next
    <3>1. st \in Updates
      BY <1>4 DEF Inductive, Good
    <3> QED
      BY <1>4, <2>2, <3>1, DeliveriesKeepInductive, DoneKeepsInductive, TimersStayWatched
  <2> QED
    BY <1>4, <2>1, <2>2
<1>5. Inductive /\ [Next]_vars
        => (Unwatched' => Unwatched \/ (bySeqTimer /\ requestingDifference(st)))
  BY <1>2, <1>3, <1>4
<1> QED
  BY InductiveInit, <1>1, <1>5, PTL DEF Spec, GapIsWatched

-----------------------------------------------------------------------------
(* The account's box implements EventLog.                                  *)

\* The client never reports more than the server has.
LEMMA GoodBounded ==
    ASSUME Inductive
    PROVE  /\ st.box.good \in Nat /\ serverPts \in Nat /\ st.box.good <= serverPts
           /\ 1 .. st.box.good \subseteq st.known
<1>1. /\ Good(st, EventsOf(net), serverPts) /\ serverPts \in Nat
      /\ st.box.good \in Nat /\ st.box.last \in Nat
  BY Members DEF Inductive, TypeOK, Good
<1>2. PICK C \in SUBSET ((st.box.good + 1) .. st.box.last) :
         Exact(st, C, EventsOf(net), serverPts)
  BY <1>1 DEF Good
<1> QED
  BY <1>1, <1>2 DEF Exact, Good

\* The account starts as a reader of the log that knows what it reports.
LEMMA LogInit == Init => Log!Init
  BY InductiveInit, GoodBounded DEF Log!Init

\* A post of the server appends to the log, every other step is one of its
\* reader.
LEMMA LogStep == Inductive /\ [Next]_vars => [Log!Next]_Log!vars
<1> SUFFICES ASSUME Inductive, [Next]_vars
             PROVE  [Log!Next]_Log!vars
  OBVIOUS
<1>1. Inductive' /\ Forward(st, st')
  BY InductiveStep
<1>2. /\ st.box.good \in Nat /\ serverPts \in Nat
      /\ st'.box.good \in Nat /\ serverPts' \in Nat /\ st'.box.good <= serverPts'
      /\ 1 .. st'.box.good \subseteq st'.known
  <2>1. (st.box.good \in Nat /\ serverPts \in Nat /\ st.box.good <= serverPts
          /\ 1 .. st.box.good \subseteq st.known)'
    BY <1>1, GoodBounded, PTL
  <2> QED
    BY <2>1, GoodBounded
<1>3. serverPts' = serverPts \/ (serverPts' > serverPts /\ st' = st)
  <2>1. CASE ServerUpdates
    <3>1. PICK c \in Contents : serverPts' = serverPts + c.count /\ st' = st
      BY <2>1 DEF ServerUpdates
    <3>2. c.count \in {0, 1}
      BY DEF Contents, Plain
    <3> QED
      BY <1>2, <3>1, <3>2
  <2>2. CASE ServerShort
    BY <1>2, <2>2 DEF ServerShort
  <2>3. CASE ~(ServerUpdates \/ ServerShort)
    BY <2>3 DEF Next, Handlers, Server, mtpUpdateReceived, applyResult, applyAffected,
         mtpNewSessionCreated, Delivered, differenceDone, differenceFail,
         differenceUnhandled, getDifferenceByPts, bySeqTimer, byMinChannelTimer,
         getDifferenceAfterFail, Fired, ServerTooLong, ServerAnswer, ServerNewSession,
         vars
  <2> QED
    BY <2>1, <2>2, <2>3
<1>4. CASE serverPts' > serverPts /\ st' = st
  BY <1>2, <1>4 DEF Log!Next, Log!Append
<1>5. CASE serverPts' = serverPts
  BY <1>1, <1>2, <1>5 DEF Log!Next, Log!Learn, Forward
<1> QED
  BY <1>3, <1>4, <1>5

\* Api::Updates keeps the account's box as EventLog demands: _good never moves
\* back, never passes the server's pts nor an event that is not applied, and
\* no applied event is forgotten.
THEOREM ImplementsLog == Spec => ImplementsEventLog
<1>1. Inductive /\ [Next]_vars => Inductive'
  BY InductiveStep
<1> QED
  BY InductiveInit, LogInit, LogStep, <1>1, PTL DEF Spec, ImplementsEventLog, Log!Spec
=============================================================================
