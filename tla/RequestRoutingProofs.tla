------------------------- MODULE RequestRoutingProofs -------------------------
(***************************************************************************)
(* What is proved about RequestRouting, for any requests and data centres  *)
(* and any number of errors.                                               *)
(***************************************************************************)
EXTENDS RequestRouting, TLAPS

-----------------------------------------------------------------------------
(* Requests and data centres.                                              *)

LEMMA Kinds ==
    /\ NoRequest \notin Requests
    /\ UserRequests \subseteq Requests
    /\ \A dc \in Dcs :
         /\ exportRequest(dc) \in Requests \ UserRequests
         /\ importRequest(dc) \in Requests \ UserRequests
         /\ \A d \in Dcs :
              /\ exportRequest(dc) # importRequest(d)
              /\ exportRequest(dc) = exportRequest(d) => dc = d
              /\ importRequest(dc) = importRequest(d) => dc = d
BY DEF NoRequest, Requests, UserRequests, exportRequest, importRequest

LEMMA SystemRequest ==
    ASSUME NEW r \in Requests \ UserRequests
    PROVE  \E dc \in Dcs : r = exportRequest(dc) \/ r = importRequest(dc)
BY DEF Requests

LEMMA Signs ==
    /\ NoDc \notin SignedDc /\ bare(NoDc) \notin Dcs
    /\ \A dc \in SignedDc : bare(dc) \in Dcs
    /\ \A dc \in Dcs :
         dc \in SignedDc /\ -dc \in SignedDc /\ bare(dc) = dc /\ bare(-dc) = dc
BY DcsAssumption DEF SignedDc, NoDc, bare

\* Whoever is found to wait does wait.
LEMMA WaitForWaits ==
    ASSUME NEW i, NEW r \in Requests
    PROVE  \A q \in waitFor(i, r) : q \in UserRequests /\ waits(i, q)
<1>. SUFFICES ASSUME NEW q \in waitFor(i, r), ~waits(i, q) PROVE FALSE
  BY DEF waitFor
<1>. DEFINE S == UserRequests \ {q}
<1>1. q \in UserRequests
  BY DEF waitFor
<1>2. i.dependent[q] \notin S \cup {r}
  BY <1>1, Kinds DEF waits
<1>3. {p \in UserRequests : i.dependent[p] \in S \cup {r}} \subseteq S
  BY <1>2
<1>4. S \in SUBSET UserRequests
  OBVIOUS
<1>5. q \in S
  BY <1>3, <1>4 DEF waitFor
<1>. QED BY <1>5

-----------------------------------------------------------------------------
(* Types.                                                                  *)

Sessions == [Dcs -> SUBSET Requests]

LEMMA RegisteredType ==
    ASSUME NEW i \in Instance, NEW r \in Requests, NEW dc \in SignedDc \cup {NoDc}
    PROVE  /\ registeredAt(i, r, dc) \in Instance
           /\ registeredAt(i, r, dc).mainDc = i.mainDc
           /\ registeredAt(i, r, dc).delayed = i.delayed
           /\ registeredAt(i, r, dc).dependent = i.dependent
           /\ registeredAt(i, r, dc).authWaiters = i.authWaiters
           /\ \A q \in Requests : registeredAt(i, r, dc).requestsByDc[q] =
                                      IF q = r THEN dc ELSE i.requestsByDc[q]
BY DEF Instance, registeredAt

LEMMA SentType ==
    ASSUME NEW i, NEW s \in Sessions, NEW rs \in SUBSET Requests
    PROVE  /\ sent(i, s, rs) \in Sessions
           /\ \A dc \in Dcs : \A q : q \in sent(i, s, rs)[dc] <=>
                  q \in s[dc] \/ (q \in rs /\ bare(i.requestsByDc[q]) = dc)
BY DEF Sessions, sent

LEMMA SentOne ==
    ASSUME NEW i, NEW s \in Sessions, NEW r \in Requests
    PROVE  /\ sent(i, s, {r}) \in Sessions
           /\ \A dc \in Dcs : \A q : q \in sent(i, s, {r})[dc] <=>
                  q \in s[dc] \/ (q = r /\ bare(i.requestsByDc[q]) = dc)
<1>1. {r} \in SUBSET Requests
  OBVIOUS
<1>2. /\ sent(i, s, {r}) \in Sessions
      /\ \A dc \in Dcs : \A q : q \in sent(i, s, {r})[dc] <=>
             q \in s[dc] \/ (q \in {r} /\ bare(i.requestsByDc[q]) = dc)
  BY <1>1, SentType
<1>. QED BY <1>2

LEMMA Unregistering ==
    ASSUME NEW i \in Instance, NEW s \in Sessions, NEW r \in Requests,
           unregisterRequest(i, s, r)
    PROVE  /\ inst' \in Instance /\ sessions' \in Sessions
           /\ inst'.mainDc = i.mainDc /\ inst'.delayed = i.delayed
           /\ inst'.authWaiters = i.authWaiters
           /\ \A q \in Requests :
                /\ inst'.requestsByDc[q] = IF q = r THEN NoDc ELSE i.requestsByDc[q]
                /\ inst'.dependent[q] = IF q = r \/ q \in waitFor(i, r) THEN NoRequest
                                        ELSE i.dependent[q]
           /\ \A dc \in Dcs : \A q : q \in sessions'[dc] <=>
                \/ q \in s[dc]
                \/ q \in waitFor(i, r) /\ q # r /\ bare(i.requestsByDc[q]) = dc
<1>. DEFINE j == [i EXCEPT !.requestsByDc[r] = NoDc]
            dep == [q \in Requests |->
                      IF q = r \/ q \in waitFor(i, r) THEN NoRequest ELSE i.dependent[q]]
<1>1. /\ j \in Instance /\ j.mainDc = i.mainDc /\ j.delayed = i.delayed
      /\ j.authWaiters = i.authWaiters /\ j.dependent = i.dependent
      /\ \A q \in Requests : j.requestsByDc[q] =
            IF q = r THEN NoDc ELSE i.requestsByDc[q]
  BY DEF Instance
<1>. HIDE DEF j
<1>2. dep \in [Requests -> Requests \cup {NoRequest}]
  BY DEF Instance
<1>3. /\ inst' = [j EXCEPT !.dependent = dep]
      /\ sessions' = sent(j, s, waitFor(i, r))
  BY <1>1 DEF unregisterRequest, released, toResend, j
<1>4. inst' \in Instance /\ inst'.dependent = dep
      /\ inst'.mainDc = j.mainDc /\ inst'.delayed = j.delayed
      /\ inst'.authWaiters = j.authWaiters /\ inst'.requestsByDc = j.requestsByDc
  <2>. HIDE DEF dep
  <2>. QED BY <1>1, <1>2, <1>3 DEF Instance
<1>5. waitFor(i, r) \in SUBSET Requests
  BY Kinds DEF waitFor
<1>6. /\ sessions' \in Sessions
      /\ \A dc \in Dcs : \A q : q \in sessions'[dc] <=>
             q \in s[dc] \/ (q \in waitFor(i, r) /\ bare(j.requestsByDc[q]) = dc)
  BY <1>3, <1>5, SentType
<1>7. \A q \in waitFor(i, r) : \A dc \in Dcs :
         bare(j.requestsByDc[q]) = dc <=> q # r /\ bare(i.requestsByDc[q]) = dc
  BY <1>1, <1>5, Signs
<1>. QED BY <1>1, <1>4, <1>6, <1>7
-----------------------------------------------------------------------------
(* The inductive invariant.  i is the Instance::Private of some stage of a *)
(* handler, s the sessions, o the orphans, a what was asked.               *)

NoSession(s, q) == \A dc \in Dcs : q \notin s[dc]
OneSession(s, q, d) == \A dc \in Dcs : q \in s[dc] <=> dc = d
NoWaiter(i, q) == \A dc \in Dcs : q \notin i.authWaiters[dc]
OneWaiter(i, q) == \E d \in Dcs : \A dc \in Dcs : q \in i.authWaiters[dc] <=> dc = d

\* Where a registered request is.
Placed(i, s, o, q) ==
    \/ /\ OneSession(s, q, bare(i.requestsByDc[q]))
       /\ q \notin i.delayed /\ ~waits(i, q) /\ NoWaiter(i, q) /\ q \notin o
    \/ /\ NoSession(s, q)
       /\ q \in i.delayed /\ ~waits(i, q) /\ NoWaiter(i, q) /\ q \notin o
    \/ /\ NoSession(s, q)
       /\ q \notin i.delayed /\ waits(i, q) /\ NoWaiter(i, q) /\ q \notin o
    \/ /\ NoSession(s, q)
       /\ q \notin i.delayed /\ ~waits(i, q) /\ OneWaiter(i, q) /\ q \notin o
    \/ /\ NoSession(s, q)
       /\ q \notin i.delayed /\ ~waits(i, q) /\ NoWaiter(i, q) /\ q \in o

\* A request that is not registered is with no session, but one of the
\* program that was cancelled may be left among the delayed or the waiters.
Gone(i, s, o, a, q) ==
    /\ NoSession(s, q) /\ ~waits(i, q) /\ q \notin o
    /\ q \notin a => q \notin i.delayed /\ NoWaiter(i, q)

Fine(i, s, o, a, q) ==
    IF registered(i, q) THEN Placed(i, s, o, q) ELSE Gone(i, s, o, a, q)

\* The export of an authorization is over before the import begins, and
\* somebody waits for them.
Authorizing(i) ==
    \A dc \in Dcs :
        /\ ~(registered(i, exportRequest(dc)) /\ registered(i, importRequest(dc)))
        /\ registered(i, exportRequest(dc)) \/ registered(i, importRequest(dc)) =>
               i.authWaiters[dc] # {}

IInv ==
    /\ TypeOK
    /\ \A q \in UserRequests : registered(inst, q) => q \in asked
    /\ \A q \in Requests : Fine(inst, sessions, orphans, asked, q)
    /\ Authorizing(inst)

LEMMA UnregisteringIsFine ==
    ASSUME NEW i \in Instance, NEW s \in Sessions, NEW o, NEW a, NEW r \in Requests,
           unregisterRequest(i, s, r),
           NoSession(s, r), r \notin o,
           r \notin a => r \notin i.delayed /\ NoWaiter(i, r),
           \A q \in Requests \ {r} : Fine(i, s, o, a, q)
    PROVE  \A q \in Requests : Fine(inst', sessions', o, a, q)
<1>1. /\ inst'.delayed = i.delayed /\ inst'.authWaiters = i.authWaiters
      /\ \A q \in Requests :
           /\ inst'.requestsByDc[q] = IF q = r THEN NoDc ELSE i.requestsByDc[q]
           /\ inst'.dependent[q] = IF q = r \/ q \in waitFor(i, r) THEN NoRequest
                                   ELSE i.dependent[q]
      /\ \A dc \in Dcs : \A q : q \in sessions'[dc] <=>
           \/ q \in s[dc]
           \/ q \in waitFor(i, r) /\ q # r /\ bare(i.requestsByDc[q]) = dc
  BY Unregistering
<1>2. Fine(inst', sessions', o, a, r)
  BY <1>1 DEF Fine, registered, Gone, NoSession, waits, NoWaiter
<1>3. ASSUME NEW q \in Requests \ {r}, q \in waitFor(i, r)
      PROVE  Fine(inst', sessions', o, a, q)
  <2>1. waits(i, q) /\ Fine(i, s, o, a, q)
    BY <1>3, WaitForWaits
  <2>2. registered(i, q) /\ NoSession(s, q) /\ q \notin i.delayed /\ NoWaiter(i, q) /\ q \notin o
    BY <2>1 DEF Fine, Gone, Placed
  <2>3. registered(inst', q) /\ ~waits(inst', q)
    BY <1>1, <1>3, <2>2 DEF registered, waits
  <2>4. OneSession(sessions', q, bare(inst'.requestsByDc[q]))
    BY <1>1, <1>3, <2>2 DEF NoSession, OneSession
  <2>. QED BY <1>1, <2>2, <2>3, <2>4 DEF Fine, Placed, NoWaiter
<1>4. ASSUME NEW q \in Requests \ {r}, q \notin waitFor(i, r)
      PROVE  Fine(inst', sessions', o, a, q)
  <2>1. /\ \A dc \in Dcs : q \in sessions'[dc] <=> q \in s[dc]
        /\ inst'.requestsByDc[q] = i.requestsByDc[q]
        /\ inst'.dependent[q] = i.dependent[q]
    BY <1>1, <1>4
  <2>. QED
    BY <1>1, <1>4, <2>1 DEF Fine, registered, Gone, Placed, NoSession, OneSession,
       waits, NoWaiter, OneWaiter
<1>. QED BY <1>2, <1>3, <1>4
-----------------------------------------------------------------------------
(* What a handler starts from.                                             *)

LEMMA Types ==
    ASSUME IInv
    PROVE  /\ inst \in Instance /\ sessions \in Sessions
           /\ inst.delayed \subseteq Requests
           /\ \A q \in Requests : inst.requestsByDc[q] \in SignedDc \cup {NoDc}
           /\ \A dc \in Dcs : inst.authWaiters[dc] \subseteq Requests
           /\ asked \subseteq Requests /\ \A q \in Requests \ UserRequests : q \notin asked
BY Kinds DEF IInv, TypeOK, Instance, Sessions

\* A session has an answer to r, and r is there and nowhere else.
LEMMA Busy ==
    ASSUME IInv, NEW r \in Requests, busy(r)
    PROVE  /\ registered(inst, r) /\ inst.requestsByDc[r] \in SignedDc
           /\ bare(inst.requestsByDc[r]) \in Dcs
           /\ r \notin inst.delayed /\ ~waits(inst, r) /\ NoWaiter(inst, r)
           /\ r \notin orphans
           /\ answered(r) \in Sessions
           /\ \A dc \in Dcs : \A q : q \in answered(r)[dc] <=> q \in sessions[dc] /\ q # r
           /\ NoSession(answered(r), r)
           /\ \A q \in Requests \ {r} : Fine(inst, answered(r), orphans, asked, q)
<1>1. Fine(inst, sessions, orphans, asked, r)
  BY DEF IInv
<1>2. ~NoSession(sessions, r)
  BY DEF busy, NoSession
<1>3. /\ registered(inst, r) /\ r \notin inst.delayed /\ ~waits(inst, r)
      /\ NoWaiter(inst, r) /\ r \notin orphans
  BY <1>1, <1>2 DEF Fine, Gone, Placed
<1>4. inst.requestsByDc[r] \in SignedDc /\ bare(inst.requestsByDc[r]) \in Dcs
  BY <1>3, Types, Signs DEF registered
<1>5. /\ answered(r) \in Sessions
      /\ \A dc \in Dcs : \A q : q \in answered(r)[dc] <=> q \in sessions[dc] /\ q # r
  BY Types DEF answered, Sessions
<1>6. ASSUME NEW q \in Requests \ {r} PROVE Fine(inst, answered(r), orphans, asked, q)
  <2>1. Fine(inst, sessions, orphans, asked, q)
    BY DEF IInv
  <2>. QED BY <1>5, <2>1 DEF Fine, Gone, Placed, NoSession, OneSession
<1>7. NoSession(answered(r), r)
  BY <1>5 DEF NoSession
<1>. QED BY <1>3, <1>4, <1>5, <1>6, <1>7

-----------------------------------------------------------------------------
(* The handlers that end a request.                                        *)

LEMMA HandledStep ==
    ASSUME IInv, NEW r \in UserRequests, handled(r)
    PROVE  IInv'
<1>1. r \in Requests /\ busy(r) /\ unregisterRequest(inst, answered(r), r)
  BY Kinds DEF handled
<1>2. UNCHANGED <<asked, after, errors, orphans>>
  BY DEF handled
<1>3. \A q \in Requests : Fine(inst', sessions', orphans, asked, q)
  BY <1>1, Types, Busy, UnregisteringIsFine
<1>4. /\ inst' \in Instance /\ sessions' \in Sessions
      /\ inst'.authWaiters = inst.authWaiters
      /\ \A q \in Requests : inst'.requestsByDc[q] =
            IF q = r THEN NoDc ELSE inst.requestsByDc[q]
  BY <1>1, Types, Busy, Unregistering
<1>5. TypeOK'
  BY <1>2, <1>4 DEF IInv, TypeOK, Sessions
<1>6. \A q \in Requests : registered(inst', q) => registered(inst, q)
  BY <1>4 DEF registered
<1>7. Authorizing(inst')
  BY <1>4, <1>6, Kinds DEF IInv, Authorizing
<1>. QED BY <1>2, <1>3, <1>5, <1>6, <1>7, Kinds DEF IInv

LEMMA ImportFailStep ==
    ASSUME IInv, NEW dc \in Dcs, importFail(dc)
    PROVE  IInv'
<1>. DEFINE r == importRequest(dc)
<1>1. r \in Requests /\ busy(r) /\ unregisterRequest(inst, answered(r), r)
  BY Kinds DEF importFail
<1>. HIDE DEF r
<1>2. UNCHANGED <<asked, after, errors, orphans>>
  BY DEF importFail
<1>3. \A q \in Requests : Fine(inst', sessions', orphans, asked, q)
  BY <1>1, Types, Busy, UnregisteringIsFine
<1>4. /\ inst' \in Instance /\ sessions' \in Sessions
      /\ inst'.authWaiters = inst.authWaiters
      /\ \A q \in Requests : inst'.requestsByDc[q] =
            IF q = r THEN NoDc ELSE inst.requestsByDc[q]
  BY <1>1, Types, Busy, Unregistering
<1>5. TypeOK'
  BY <1>2, <1>4 DEF IInv, TypeOK, Sessions
<1>6. \A q \in Requests : registered(inst', q) => registered(inst, q)
  BY <1>4 DEF registered
<1>7. Authorizing(inst')
  BY <1>4, <1>6, Kinds DEF IInv, Authorizing
<1>. QED BY <1>2, <1>3, <1>5, <1>6, <1>7, Kinds DEF IInv

LEMMA CancelStep ==
    ASSUME IInv, NEW r \in UserRequests, cancel(r)
    PROVE  IInv'
<1>. DEFINE d == bare(inst.requestsByDc[r])
            s == [sessions EXCEPT ![d] = @ \ {r}]
            o == orphans \ {r}
<1>1. r \in Requests /\ registered(inst, r) /\ unregisterRequest(inst, s, r)
  BY Kinds DEF cancel
<1>2. UNCHANGED <<asked, after, errors>> /\ orphans' = o
  BY DEF cancel
<1>3. d \in Dcs
  BY <1>1, Types, Signs DEF registered
<1>4. /\ s \in Sessions
      /\ \A c \in Dcs : \A q : q \in s[c] <=> q \in sessions[c] /\ ~(c = d /\ q = r)
  BY <1>3, Types DEF Sessions
<1>. HIDE DEF s
<1>5. NoSession(s, r)
  <2>1. Placed(inst, sessions, orphans, r)
    BY <1>1 DEF IInv, Fine
  <2>. QED BY <1>4, <2>1 DEF Placed, NoSession, OneSession
<1>6. ASSUME NEW q \in Requests \ {r} PROVE Fine(inst, s, o, asked, q)
  <2>1. Fine(inst, sessions, orphans, asked, q)
    BY DEF IInv
  <2>. QED BY <1>4, <2>1 DEF Fine, Gone, Placed, NoSession, OneSession
<1>7. r \in asked
  BY <1>1 DEF IInv
<1>8. \A q \in Requests : Fine(inst', sessions', o, asked, q)
  BY <1>1, <1>4, <1>5, <1>6, <1>7, Types, UnregisteringIsFine
<1>9. /\ inst' \in Instance /\ sessions' \in Sessions
      /\ inst'.authWaiters = inst.authWaiters
      /\ \A q \in Requests : inst'.requestsByDc[q] =
            IF q = r THEN NoDc ELSE inst.requestsByDc[q]
  BY <1>1, <1>4, Types, Unregistering
<1>10. TypeOK'
  BY <1>2, <1>9 DEF IInv, TypeOK, Sessions
<1>11. \A q \in Requests : registered(inst', q) => registered(inst, q)
  BY <1>9 DEF registered
<1>12. Authorizing(inst')
  BY <1>9, <1>11, Kinds DEF IInv, Authorizing
<1>. QED BY <1>2, <1>8, <1>10, <1>11, <1>12, Kinds DEF IInv

\* The import takes the place of the export.
LEMMA ExportDoneStep ==
    ASSUME IInv, NEW dc \in Dcs, exportDone(dc)
    PROVE  IInv'
<1>. DEFINE r == exportRequest(dc)
            m == importRequest(dc)
            i == registeredAt(inst, m, dc)
            s == sent(i, answered(r), {m})
<1>1. /\ r \in Requests /\ m \in Requests \ UserRequests /\ r # m /\ busy(r)
      /\ unregisterRequest(i, s, r)
  BY Kinds DEF exportDone
<1>2. UNCHANGED <<asked, after, errors, orphans>>
  BY DEF exportDone
<1>3. registered(inst, r) /\ ~registered(inst, m) /\ inst.authWaiters[dc] # {}
  BY <1>1, Busy DEF IInv, Authorizing
<1>4. /\ i \in Instance /\ i.delayed = inst.delayed /\ i.dependent = inst.dependent
      /\ i.authWaiters = inst.authWaiters
      /\ \A q \in Requests : i.requestsByDc[q] = IF q = m THEN dc ELSE inst.requestsByDc[q]
  BY <1>1, Types, Signs, RegisteredType
<1>. HIDE DEF i
<1>5. /\ s \in Sessions
      /\ \A c \in Dcs : \A q : q \in s[c] <=>
            \/ q \in sessions[c] /\ q # r
            \/ q = m /\ c = dc
  <2>1. /\ answered(r) \in Sessions
        /\ \A c \in Dcs : \A q : q \in answered(r)[c] <=> q \in sessions[c] /\ q # r
    BY <1>1, Busy
  <2>2. /\ s \in Sessions
        /\ \A c \in Dcs : \A q : q \in s[c] <=>
              q \in answered(r)[c] \/ (q = m /\ bare(i.requestsByDc[q]) = c)
    BY <1>1, <2>1, SentOne
  <2>3. bare(i.requestsByDc[m]) = dc
    BY <1>1, <1>4, Signs
  <2>. HIDE DEF s, r, m
  <2>. QED BY <2>1, <2>2, <2>3
<1>. HIDE DEF s
<1>6. Fine(i, s, orphans, asked, m)
  <2>1. Gone(inst, sessions, orphans, asked, m) /\ m \notin asked
    BY <1>1, <1>3, Types DEF IInv, Fine
  <2>2. bare(i.requestsByDc[m]) = dc /\ registered(i, m)
    BY <1>1, <1>4, Signs DEF registered
  <2>. QED
    BY <1>1, <1>4, <1>5, <2>1, <2>2 DEF Fine, Gone, Placed, NoSession, OneSession,
       waits, NoWaiter
<1>7. ASSUME NEW q \in Requests \ {r}, q # m PROVE Fine(i, s, orphans, asked, q)
  <2>1. Fine(inst, sessions, orphans, asked, q)
    BY DEF IInv
  <2>. QED
    BY <1>4, <1>5, <1>7, <2>1 DEF Fine, Gone, Placed, NoSession, OneSession, registered,
       waits, NoWaiter, OneWaiter
<1>8. NoSession(s, r) /\ r \notin orphans /\ r \notin i.delayed /\ NoWaiter(i, r)
  BY <1>1, <1>4, <1>5, Busy DEF NoSession, NoWaiter
<1>9. \A q \in Requests : Fine(inst', sessions', orphans, asked, q)
  BY <1>1, <1>4, <1>5, <1>6, <1>7, <1>8, UnregisteringIsFine
<1>10. /\ inst' \in Instance /\ sessions' \in Sessions
       /\ inst'.authWaiters = i.authWaiters
       /\ \A q \in Requests : inst'.requestsByDc[q] = IF q = r THEN NoDc ELSE i.requestsByDc[q]
  BY <1>1, <1>4, <1>5, Unregistering
<1>11. TypeOK'
  BY <1>2, <1>10 DEF IInv, TypeOK, Sessions
<1>12. \A q \in Requests : q # m /\ registered(inst', q) => registered(inst, q)
  BY <1>4, <1>10 DEF registered
<1>13. Authorizing(inst')
  <2>1. ~registered(inst', r)
    BY <1>1, <1>10 DEF registered
  <2>. QED BY <1>3, <1>4, <1>10, <1>12, <2>1, Kinds DEF IInv, Authorizing
<1>. QED BY <1>1, <1>2, <1>9, <1>11, <1>12, <1>13, Kinds DEF IInv
\* Who waited for an authorization that is not exported is given up.
LEMMA ExportFailStep ==
    ASSUME IInv, NEW dc \in Dcs, exportFail(dc)
    PROVE  IInv'
<1>. DEFINE r == exportRequest(dc)
            i == [inst EXCEPT !.authWaiters[dc] = {}]
            o == orphans \cup {q \in inst.authWaiters[dc] : registered(inst, q)}
<1>1. r \in Requests /\ busy(r) /\ unregisterRequest(i, answered(r), r)
  BY Kinds DEF exportFail
<1>2. UNCHANGED <<asked, after, errors>> /\ orphans' = o
  BY DEF exportFail
<1>3. /\ i \in Instance /\ i.delayed = inst.delayed /\ i.dependent = inst.dependent
      /\ i.requestsByDc = inst.requestsByDc
      /\ \A c \in Dcs : i.authWaiters[c] = IF c = dc THEN {} ELSE inst.authWaiters[c]
  BY Types DEF Instance
<1>. HIDE DEF i
<1>4. ASSUME NEW q \in Requests \ {r} PROVE Fine(i, answered(r), o, asked, q)
  <2>1. Fine(inst, answered(r), orphans, asked, q)
    BY <1>1, Busy
  <2>2. registered(i, q) <=> registered(inst, q)
    BY <1>3 DEF registered
  <2>3. waits(i, q) <=> waits(inst, q)
    BY <1>3 DEF waits
  <2>4. CASE ~registered(inst, q)
    BY <1>3, <2>1, <2>2, <2>3, <2>4 DEF Fine, Gone, NoWaiter
  <2>5. CASE registered(inst, q) /\ q \in inst.authWaiters[dc]
    <3>1. NoWaiter(i, q) /\ ~NoWaiter(inst, q)
      BY <1>3, <2>1, <2>5 DEF Fine, Placed, NoWaiter, OneWaiter
    <3>. QED BY <1>3, <2>1, <2>2, <2>3, <2>5, <3>1 DEF Fine, Placed
  <2>6. CASE registered(inst, q) /\ q \notin inst.authWaiters[dc]
    <3>1. /\ NoWaiter(i, q) <=> NoWaiter(inst, q)
          /\ OneWaiter(i, q) <=> OneWaiter(inst, q)
          /\ q \in o <=> q \in orphans
      BY <1>3, <2>6 DEF NoWaiter, OneWaiter
    <3>. HIDE DEF o
    <3>. QED BY <1>3, <2>1, <2>2, <2>3, <2>6, <3>1 DEF Fine, Placed
  <2>. QED BY <2>4, <2>5, <2>6
<1>5. /\ answered(r) \in Sessions /\ NoSession(answered(r), r)
      /\ r \notin inst.delayed /\ NoWaiter(inst, r) /\ r \notin orphans
  BY <1>1, Busy
<1>6. r \notin o /\ r \notin i.delayed /\ NoWaiter(i, r)
  BY <1>3, <1>5 DEF NoWaiter
<1>7. o \subseteq Requests
  BY Types DEF IInv, TypeOK
<1>. HIDE DEF o
<1>8. \A q \in Requests : Fine(inst', sessions', o, asked, q)
  BY <1>1, <1>3, <1>4, <1>5, <1>6, UnregisteringIsFine
<1>9. /\ inst' \in Instance /\ sessions' \in Sessions
      /\ inst'.authWaiters = i.authWaiters
      /\ \A q \in Requests : inst'.requestsByDc[q] = IF q = r THEN NoDc ELSE i.requestsByDc[q]
  BY <1>1, <1>3, <1>5, Unregistering
<1>10. TypeOK'
  BY <1>2, <1>7, <1>9 DEF IInv, TypeOK, Sessions
<1>11. /\ \A q \in Requests : registered(inst', q) => registered(inst, q)
       /\ ~registered(inst', r) /\ registered(inst, r)
  BY <1>1, <1>3, <1>9, Busy DEF registered
<1>12. Authorizing(inst')
  BY <1>3, <1>9, <1>11, Kinds DEF IInv, Authorizing
<1>. QED BY <1>2, <1>8, <1>10, <1>11, <1>12, Kinds DEF IInv

\* Who waited for an authorization that is imported is sent.
LEMMA ImportDoneStep ==
    ASSUME IInv, NEW dc \in Dcs, importDone(dc)
    PROVE  IInv'
<1>. DEFINE r == importRequest(dc)
            i == [inst EXCEPT !.authWaiters[dc] = {}]
            s == sent(i, answered(r), inst.authWaiters[dc])
<1>1. r \in Requests /\ busy(r) /\ unregisterRequest(i, s, r)
  BY Kinds DEF importDone
<1>2. UNCHANGED <<asked, after, errors, orphans>>
  BY DEF importDone
<1>3. /\ i \in Instance /\ i.delayed = inst.delayed /\ i.dependent = inst.dependent
      /\ i.requestsByDc = inst.requestsByDc
      /\ \A c \in Dcs : i.authWaiters[c] = IF c = dc THEN {} ELSE inst.authWaiters[c]
  BY Types DEF Instance
<1>. HIDE DEF i
<1>4. /\ answered(r) \in Sessions /\ NoSession(answered(r), r)
      /\ r \notin inst.delayed /\ NoWaiter(inst, r) /\ r \notin orphans
  BY <1>1, Busy
<1>5. /\ s \in Sessions
      /\ \A c \in Dcs : \A q : q \in s[c] <=>
            \/ q \in answered(r)[c]
            \/ q \in inst.authWaiters[dc] /\ bare(inst.requestsByDc[q]) = c
  <2>1. inst.authWaiters[dc] \in SUBSET Requests
    BY Types
  <2>2. /\ s \in Sessions
        /\ \A c \in Dcs : \A q : q \in s[c] <=>
              \/ q \in answered(r)[c]
              \/ q \in inst.authWaiters[dc] /\ bare(i.requestsByDc[q]) = c
    BY <1>4, <2>1, SentType
  <2>. HIDE DEF s
  <2>. QED BY <1>3, <2>2
<1>. HIDE DEF s
<1>6. ASSUME NEW q \in Requests \ {r} PROVE Fine(i, s, orphans, asked, q)
  <2>1. Fine(inst, answered(r), orphans, asked, q)
    BY <1>1, Busy
  <2>2. registered(i, q) <=> registered(inst, q)
    BY <1>3 DEF registered
  <2>3. waits(i, q) <=> waits(inst, q)
    BY <1>3 DEF waits
  <2>4. CASE ~registered(inst, q)
    <3>1. \A c \in Dcs : bare(inst.requestsByDc[q]) # c
      BY <2>4, Signs DEF registered
    <3>. QED BY <1>3, <1>5, <2>1, <2>2, <2>3, <2>4, <3>1 DEF Fine, Gone, NoWaiter, NoSession
  <2>5. CASE registered(inst, q) /\ q \in inst.authWaiters[dc]
    <3>1. NoWaiter(i, q) /\ ~NoWaiter(inst, q)
      BY <1>3, <2>1, <2>5 DEF Fine, Placed, NoWaiter, OneWaiter
    <3>2. /\ NoSession(answered(r), q) /\ q \notin inst.delayed
          /\ ~waits(inst, q) /\ q \notin orphans
      BY <2>1, <2>5, <3>1 DEF Fine, Placed
    <3>3. OneSession(s, q, bare(i.requestsByDc[q]))
      BY <1>3, <1>5, <2>5, <3>2 DEF NoSession, OneSession
    <3>. QED BY <1>3, <2>2, <2>3, <2>5, <3>1, <3>2, <3>3 DEF Fine, Placed
  <2>6. CASE registered(inst, q) /\ q \notin inst.authWaiters[dc]
    <3>1. /\ NoWaiter(i, q) <=> NoWaiter(inst, q)
          /\ OneWaiter(i, q) <=> OneWaiter(inst, q)
          /\ \A c \in Dcs : q \in s[c] <=> q \in answered(r)[c]
      BY <1>3, <1>5, <2>6 DEF NoWaiter, OneWaiter
    <3>. QED BY <1>3, <2>1, <2>2, <2>3, <2>6, <3>1 DEF Fine, Placed, NoSession, OneSession
  <2>. QED BY <2>4, <2>5, <2>6
<1>7. /\ NoSession(s, r) /\ r \notin i.delayed /\ NoWaiter(i, r)
  BY <1>3, <1>4, <1>5 DEF NoWaiter, NoSession
<1>8. \A q \in Requests : Fine(inst', sessions', orphans, asked, q)
  BY <1>1, <1>3, <1>4, <1>5, <1>6, <1>7, UnregisteringIsFine
<1>9. /\ inst' \in Instance /\ sessions' \in Sessions
      /\ inst'.authWaiters = i.authWaiters
      /\ \A q \in Requests : inst'.requestsByDc[q] = IF q = r THEN NoDc ELSE i.requestsByDc[q]
  BY <1>1, <1>3, <1>5, Unregistering
<1>10. TypeOK'
  BY <1>2, <1>9 DEF IInv, TypeOK, Sessions
<1>11. /\ \A q \in Requests : registered(inst', q) => registered(inst, q)
       /\ ~registered(inst', r) /\ registered(inst, r)
  BY <1>1, <1>3, <1>9, Busy DEF registered
<1>12. Authorizing(inst')
  BY <1>3, <1>9, <1>11, Kinds DEF IInv, Authorizing
<1>. QED BY <1>2, <1>8, <1>10, <1>11, <1>12, Kinds DEF IInv
-----------------------------------------------------------------------------
(* The handlers that move a request.                                       *)

LEMMA SendStep ==
    ASSUME IInv, NEW r \in UserRequests, NEW signedDc \in SignedDc,
           NEW afterRequest \in asked \cup {NoRequest},
           sendRequest(r, signedDc, afterRequest)
    PROVE  IInv'
<1>. DEFINE i == registeredAt(inst, r, signedDc)
            found == afterRequest # NoRequest /\ registered(inst, afterRequest)
            a == asked \cup {r}
<1>1. r \in Requests /\ r \notin asked /\ ~registered(inst, r)
  BY Kinds DEF sendRequest, IInv
<1>2. UNCHANGED <<errors, orphans>> /\ asked' = a
  BY DEF sendRequest
<1>3. Gone(inst, sessions, orphans, asked, r)
  BY <1>1 DEF IInv, Fine
<1>4. /\ i \in Instance /\ i.delayed = inst.delayed /\ i.dependent = inst.dependent
      /\ i.authWaiters = inst.authWaiters
      /\ \A q \in Requests :
           i.requestsByDc[q] = IF q = r THEN signedDc ELSE inst.requestsByDc[q]
  BY <1>1, Types, RegisteredType
<1>. HIDE DEF i
<1>5. afterRequest \in Requests \cup {NoRequest} /\ (found => afterRequest # NoRequest)
  BY Types
<1>6. after' \in [Requests -> Requests \cup {NoRequest}]
  <2>1. after' = [after EXCEPT ![r] = IF found THEN afterRequest ELSE NoRequest]
    BY DEF sendRequest
  <2>2. after \in [Requests -> Requests \cup {NoRequest}]
    BY DEF IInv, TypeOK
  <2>. HIDE DEF found
  <2>. QED BY <1>5, <2>1, <2>2
<1>7. /\ inst' \in Instance /\ sessions' \in Sessions
      /\ inst'.delayed = inst.delayed /\ inst'.authWaiters = inst.authWaiters
      /\ inst'.requestsByDc = i.requestsByDc
      /\ \A q \in Requests \ {r} : /\ inst'.dependent[q] = inst.dependent[q]
                                  /\ \A dc \in Dcs : q \in sessions'[dc] <=> q \in sessions[dc]
      /\ \/ waits(inst', r) /\ NoSession(sessions', r)
         \/ ~waits(inst', r) /\ OneSession(sessions', r, bare(inst'.requestsByDc[r]))
  <2>1. CASE found /\ waits(inst, afterRequest)
    <3>1. inst' = [i EXCEPT !.dependent[r] = afterRequest] /\ sessions' = sessions
      BY <2>1 DEF sendRequest, i
    <3>2. afterRequest \in Requests /\ afterRequest # NoRequest
      BY <1>5, <2>1
    <3>. QED BY <1>1, <1>3, <1>4, <3>1, <3>2, Types DEF Instance, waits, Gone
  <2>2. CASE ~(found /\ waits(inst, afterRequest))
    <3>1. inst' = i /\ sessions' = sent(i, sessions, {r})
      BY <2>2 DEF sendRequest, i
    <3>2. /\ sessions' \in Sessions
          /\ \A dc \in Dcs : \A q : q \in sessions'[dc] <=>
                q \in sessions[dc] \/ (q = r /\ bare(i.requestsByDc[q]) = dc)
      BY <1>1, <3>1, Types, SentOne
    <3>. QED BY <1>1, <1>3, <1>4, <3>1, <3>2 DEF waits, Gone, NoSession, OneSession
  <2>. QED BY <2>1, <2>2
<1>8. Fine(inst', sessions', orphans', a, r)
  <2>1. registered(inst', r)
    BY <1>1, <1>4, <1>7, Signs DEF registered
  <2>. QED BY <1>1, <1>2, <1>3, <1>7, <2>1 DEF Fine, Gone, Placed, NoWaiter
<1>9. ASSUME NEW q \in Requests \ {r} PROVE Fine(inst', sessions', orphans', a, q)
  <2>1. Fine(inst, sessions, orphans, asked, q)
    BY DEF IInv
  <2>2. inst'.requestsByDc[q] = inst.requestsByDc[q]
    BY <1>4, <1>7
  <2>. QED
    BY <1>2, <1>7, <2>1, <2>2 DEF Fine, Gone, Placed, registered, waits, NoSession,
       OneSession, NoWaiter, OneWaiter
<1>10. TypeOK'
  BY <1>2, <1>6, <1>7 DEF IInv, TypeOK, Sessions
<1>11. \A q \in Requests \ {r} : registered(inst', q) <=> registered(inst, q)
  BY <1>4, <1>7 DEF registered
<1>12. Authorizing(inst')
  BY <1>7, <1>11, Kinds DEF IInv, Authorizing
<1>13. \A q \in UserRequests : registered(inst', q) => q \in asked'
  BY <1>2, <1>11, Kinds DEF IInv
<1>. QED BY <1>2, <1>8, <1>9, <1>10, <1>12, <1>13 DEF IInv

LEMMA DelayedStep ==
    ASSUME IInv, NEW r \in Requests, checkDelayedRequests(r)
    PROVE  IInv'
<1>1. /\ r \in inst.delayed /\ inst' = [inst EXCEPT !.delayed = @ \ {r}]
      /\ sessions' = sent(inst, sessions, {r})
      /\ UNCHANGED <<asked, after, errors, orphans>>
  BY DEF checkDelayedRequests
<1>2. /\ inst' \in Instance /\ inst'.delayed = inst.delayed \ {r}
      /\ inst'.requestsByDc = inst.requestsByDc /\ inst'.dependent = inst.dependent
      /\ inst'.authWaiters = inst.authWaiters
  BY <1>1, Types DEF Instance
<1>3. /\ sessions' \in Sessions
      /\ \A dc \in Dcs : \A q : q \in sessions'[dc] <=>
            q \in sessions[dc] \/ (q = r /\ bare(inst.requestsByDc[q]) = dc)
  <2>1. /\ sent(inst, sessions, {r}) \in Sessions
        /\ \A dc \in Dcs : \A q : q \in sent(inst, sessions, {r})[dc] <=>
               q \in sessions[dc] \/ (q = r /\ bare(inst.requestsByDc[q]) = dc)
    BY Types, SentOne
  <2>. QED BY <1>1, <2>1
<1>4. Fine(inst', sessions', orphans, asked, r)
  <2>1. Fine(inst, sessions, orphans, asked, r)
    BY DEF IInv
  <2>2. CASE registered(inst, r)
    <3>1. /\ NoSession(sessions, r) /\ ~waits(inst, r) /\ NoWaiter(inst, r)
          /\ r \notin orphans
      BY <1>1, <2>1, <2>2 DEF Fine, Placed
    <3>2. OneSession(sessions', r, bare(inst'.requestsByDc[r]))
      BY <1>2, <1>3, <3>1 DEF NoSession, OneSession
    <3>. QED
      BY <1>2, <2>2, <3>1, <3>2 DEF Fine, Placed, registered, waits, NoWaiter
  <2>3. CASE ~registered(inst, r)
    <3>1. \A dc \in Dcs : bare(inst.requestsByDc[r]) # dc
      BY <2>3, Signs DEF registered
    <3>. QED
      BY <1>2, <1>3, <2>1, <2>3, <3>1 DEF Fine, Gone, registered, waits, NoWaiter, NoSession
  <2>. QED BY <2>2, <2>3
<1>5. ASSUME NEW q \in Requests \ {r} PROVE Fine(inst', sessions', orphans, asked, q)
  <2>1. Fine(inst, sessions, orphans, asked, q)
    BY DEF IInv
  <2>. QED
    BY <1>2, <1>3, <2>1 DEF Fine, Gone, Placed, registered, waits, NoSession,
       OneSession, NoWaiter, OneWaiter
<1>6. TypeOK'
  BY <1>1, <1>2, <1>3 DEF IInv, TypeOK, Sessions
<1>7. \A q \in Requests : registered(inst', q) <=> registered(inst, q)
  BY <1>2 DEF registered
<1>8. Authorizing(inst')
  BY <1>2, <1>7, Kinds DEF IInv, Authorizing
<1>. QED BY <1>1, <1>4, <1>5, <1>6, <1>7, <1>8, Kinds DEF IInv

LEMMA ErrorCount ==
    ASSUME IInv, mayFail, failed
    PROVE  errors' \in 0 .. MaxErrors
BY MaxErrorsAssumption DEF IInv, TypeOK, mayFail, failed

LEMMA TemporaryErrorStep ==
    ASSUME IInv, NEW r \in Requests, temporaryError(r)
    PROVE  IInv'
<1>1. /\ busy(r) /\ inst' = [inst EXCEPT !.delayed = @ \cup {r}]
      /\ sessions' = answered(r)
      /\ UNCHANGED <<asked, after, orphans>> /\ errors' \in 0 .. MaxErrors
  BY ErrorCount DEF temporaryError
<1>2. /\ inst' \in Instance /\ inst'.delayed = inst.delayed \cup {r}
      /\ inst'.requestsByDc = inst.requestsByDc /\ inst'.dependent = inst.dependent
      /\ inst'.authWaiters = inst.authWaiters
  BY <1>1, Types DEF Instance
<1>3. Fine(inst', sessions', orphans, asked, r)
  BY <1>1, <1>2, Busy DEF Fine, Placed, registered, waits, NoWaiter
<1>4. ASSUME NEW q \in Requests \ {r} PROVE Fine(inst', sessions', orphans, asked, q)
  <2>1. Fine(inst, answered(r), orphans, asked, q)
    BY <1>1, Busy
  <2>. QED
    BY <1>1, <1>2, <2>1 DEF Fine, Gone, Placed, registered, waits, NoWaiter, OneWaiter
<1>5. TypeOK'
  BY <1>1, <1>2, Busy DEF IInv, TypeOK, Sessions
<1>6. \A q \in Requests : registered(inst', q) <=> registered(inst, q)
  BY <1>2 DEF registered
<1>7. Authorizing(inst')
  BY <1>2, <1>6, Kinds DEF IInv, Authorizing
<1>. QED BY <1>1, <1>3, <1>4, <1>5, <1>6, <1>7, Kinds DEF IInv
\* A request to the main centre takes that along, and those of others that
\* were in the old one or the new one are given up.
LEMMA MigrateStep ==
    ASSUME IInv, NEW r \in UserRequests, NEW newDc \in Dcs, migrate(r, newDc)
    PROVE  IInv'
<1>. DEFINE toMain == inst.requestsByDc[r] < 0
            killed == IF toMain THEN setMainDcId(newDc) ELSE {}
            new == newSignedDc(r, newDc)
            i == registeredAt(inst, r, new)
            main == IF toMain THEN newDc ELSE inst.mainDc
            lost == UNION {answered(r)[dc] : dc \in killed}
<1>1. /\ r \in Requests /\ busy(r)
      /\ UNCHANGED <<asked, after>> /\ errors' \in 0 .. MaxErrors
      /\ orphans' = orphans \cup lost
      /\ sessions' = [dc \in Dcs |-> (IF dc \in killed THEN {} ELSE answered(r)[dc])
                                    \cup (IF dc = newDc THEN {r} ELSE {})]
  BY Kinds, ErrorCount DEF migrate
<1>2. inst' = [i EXCEPT !.mainDc = main]
  <2>1. i.mainDc = inst.mainDc
    BY <1>1, Types, Signs, RegisteredType DEF newSignedDc
  <2>. QED BY <2>1 DEF migrate
<1>3. inst.mainDc \in Dcs /\ killed \subseteq Dcs /\ main \in Dcs
  BY Types DEF Instance, setMainDcId
<1>4. new \in SignedDc /\ bare(new) = newDc
  BY Signs DEF newSignedDc
<1>5. /\ i \in Instance /\ i.delayed = inst.delayed /\ i.dependent = inst.dependent
      /\ i.authWaiters = inst.authWaiters
      /\ \A q \in Requests : i.requestsByDc[q] = IF q = r THEN new ELSE inst.requestsByDc[q]
  BY <1>1, <1>4, Types, RegisteredType
<1>. HIDE DEF i, new, main
<1>6. /\ inst' \in Instance /\ inst'.delayed = inst.delayed
      /\ inst'.dependent = inst.dependent /\ inst'.authWaiters = inst.authWaiters
      /\ \A q \in Requests : inst'.requestsByDc[q] = IF q = r THEN new ELSE inst.requestsByDc[q]
  BY <1>2, <1>3, <1>5 DEF Instance
<1>. HIDE DEF killed
<1>7. /\ answered(r) \in Sessions /\ NoSession(answered(r), r)
      /\ r \notin inst.delayed /\ NoWaiter(inst, r) /\ ~waits(inst, r) /\ r \notin orphans
  BY <1>1, Busy
<1>8. \A q : q \in lost <=> \E dc \in killed : q \in answered(r)[dc]
  OBVIOUS
<1>. HIDE DEF lost
<1>9. lost \subseteq Requests
  BY <1>3, <1>7, <1>8 DEF Sessions
<1>10. /\ sessions' \in Sessions
       /\ \A dc \in Dcs : \A q : q \in sessions'[dc] <=>
             \/ q \in answered(r)[dc] /\ dc \notin killed
             \/ q = r /\ dc = newDc
  BY <1>1, <1>7 DEF Sessions
<1>11. Fine(inst', sessions', orphans', asked, r)
  <2>1. registered(inst', r) /\ bare(inst'.requestsByDc[r]) = newDc
    BY <1>1, <1>4, <1>6, Signs DEF registered
  <2>2. OneSession(sessions', r, newDc)
    BY <1>7, <1>10 DEF NoSession, OneSession
  <2>3. r \notin lost
    BY <1>3, <1>7, <1>8 DEF NoSession
  <2>. QED BY <1>1, <1>6, <1>7, <2>1, <2>2, <2>3 DEF Fine, Placed, waits, NoWaiter
<1>12. ASSUME NEW q \in Requests \ {r} PROVE Fine(inst', sessions', orphans', asked, q)
  <2>1. Fine(inst, answered(r), orphans, asked, q)
    BY <1>1, Busy
  <2>2. /\ registered(inst', q) <=> registered(inst, q)
        /\ waits(inst', q) <=> waits(inst, q)
        /\ NoWaiter(inst', q) <=> NoWaiter(inst, q)
        /\ OneWaiter(inst', q) <=> OneWaiter(inst, q)
        /\ inst'.requestsByDc[q] = inst.requestsByDc[q]
    BY <1>6 DEF registered, waits, NoWaiter, OneWaiter
  <2>3. \A dc \in Dcs : q \in sessions'[dc] <=> q \in answered(r)[dc] /\ dc \notin killed
    BY <1>10
  <2>4. CASE q \in lost
    <3>1. PICK dc \in killed : q \in answered(r)[dc]
      BY <1>8, <2>4
    <3>2. registered(inst, q) /\ OneSession(answered(r), q, dc)
      BY <1>3, <2>1, <3>1 DEF Fine, Gone, Placed, NoSession, OneSession
    <3>3. NoSession(sessions', q)
      BY <2>3, <3>1, <3>2 DEF OneSession, NoSession
    <3>4. ~NoSession(answered(r), q)
      BY <1>3, <3>1 DEF NoSession
    <3>. QED BY <1>1, <1>6, <2>1, <2>2, <2>4, <3>2, <3>3, <3>4 DEF Fine, Placed
  <2>5. CASE q \notin lost
    <3>1. \A dc \in Dcs : q \in sessions'[dc] <=> q \in answered(r)[dc]
      BY <1>8, <2>3, <2>5
    <3>2. /\ NoSession(sessions', q) <=> NoSession(answered(r), q)
          /\ \A dc : OneSession(sessions', q, dc) <=> OneSession(answered(r), q, dc)
      BY <3>1 DEF NoSession, OneSession
    <3>3. q \in orphans' <=> q \in orphans
      BY <1>1, <2>5
    <3>. QED BY <1>6, <2>1, <2>2, <3>2, <3>3 DEF Fine, Gone, Placed
  <2>. QED BY <2>4, <2>5
<1>13. TypeOK'
  BY <1>1, <1>6, <1>9, <1>10 DEF IInv, TypeOK, Sessions
<1>14. /\ \A q \in Requests \ {r} : registered(inst', q) <=> registered(inst, q)
       /\ registered(inst, r)
  BY <1>1, <1>6, Busy DEF registered
<1>15. Authorizing(inst')
  BY <1>6, <1>14, Kinds DEF IInv, Authorizing
<1>. QED BY <1>1, <1>11, <1>12, <1>13, <1>14, <1>15, Kinds DEF IInv

LEMMA MsgWaitStep ==
    ASSUME IInv, NEW r \in UserRequests, msgWait(r)
    PROVE  IInv'
<1>1. /\ r \in Requests /\ busy(r) /\ after[r] # NoRequest
      /\ UNCHANGED <<asked, orphans>> /\ errors' \in 0 .. MaxErrors
  BY Kinds, ErrorCount DEF msgWait
<1>2. after \in [Requests -> Requests \cup {NoRequest}]
  BY DEF IInv, TypeOK
<1>3. /\ registered(inst, r) /\ r \notin inst.delayed /\ ~waits(inst, r)
      /\ NoWaiter(inst, r) /\ r \notin orphans /\ bare(inst.requestsByDc[r]) \in Dcs
      /\ answered(r) \in Sessions /\ NoSession(answered(r), r)
  BY <1>1, Busy
<1>4. CASE inSameDc(r)
  <2>1. /\ inst' = [inst EXCEPT !.dependent[r] = after[r]]
        /\ sessions' = answered(r) /\ UNCHANGED after
    BY <1>4 DEF msgWait
  <2>2. /\ inst' \in Instance /\ inst'.delayed = inst.delayed
        /\ inst'.requestsByDc = inst.requestsByDc /\ inst'.authWaiters = inst.authWaiters
        /\ \A q \in Requests : inst'.dependent[q] =
              IF q = r THEN after[r] ELSE inst.dependent[q]
    BY <1>1, <1>2, <2>1, Types DEF Instance
  <2>3. Fine(inst', sessions', orphans, asked, r)
    BY <1>1, <1>3, <2>1, <2>2 DEF Fine, Placed, registered, waits, NoWaiter
  <2>4. ASSUME NEW q \in Requests \ {r} PROVE Fine(inst', sessions', orphans, asked, q)
    <3>1. Fine(inst, answered(r), orphans, asked, q)
      BY <1>1, Busy
    <3>. QED
      BY <2>1, <2>2, <3>1 DEF Fine, Gone, Placed, registered, waits, NoWaiter, OneWaiter
  <2>5. TypeOK'
    BY <1>1, <1>3, <2>1, <2>2 DEF IInv, TypeOK, Sessions
  <2>6. \A q \in Requests : registered(inst', q) <=> registered(inst, q)
    BY <2>2 DEF registered
  <2>7. Authorizing(inst')
    BY <2>2, <2>6, Kinds DEF IInv, Authorizing
  <2>. QED BY <1>1, <2>3, <2>4, <2>5, <2>6, <2>7, Kinds DEF IInv
<1>5. CASE ~inSameDc(r)
  <2>1. /\ after' = [after EXCEPT ![r] = NoRequest]
        /\ sessions' = sent(inst, answered(r), {r}) /\ UNCHANGED inst
    BY <1>5 DEF msgWait
  <2>2. /\ sessions' \in Sessions
        /\ \A dc \in Dcs : \A q : q \in sessions'[dc] <=>
              q \in answered(r)[dc] \/ (q = r /\ bare(inst.requestsByDc[q]) = dc)
    BY <1>1, <1>3, <2>1, SentOne
  <2>3. Fine(inst, sessions', orphans, asked, r)
    <3>1. OneSession(sessions', r, bare(inst.requestsByDc[r]))
      BY <1>3, <2>2 DEF NoSession, OneSession
    <3>. QED BY <1>3, <3>1 DEF Fine, Placed
  <2>4. ASSUME NEW q \in Requests \ {r} PROVE Fine(inst, sessions', orphans, asked, q)
    <3>1. Fine(inst, answered(r), orphans, asked, q)
      BY <1>1, Busy
    <3>. QED BY <2>2, <3>1 DEF Fine, Gone, Placed, NoSession, OneSession
  <2>5. TypeOK'
    BY <1>1, <1>2, <2>1, <2>2 DEF IInv, TypeOK, Sessions
  <2>. QED BY <1>1, <2>1, <2>3, <2>4, <2>5 DEF IInv
<1>. QED BY <1>4, <1>5
LEMMA UnauthorizedStep ==
    ASSUME IInv, NEW r \in Requests, unauthorized(r)
    PROVE  IInv'
<1>. DEFINE dc == inst.requestsByDc[r]
            x == exportRequest(dc)
            i == [inst EXCEPT !.authWaiters[dc] = @ \cup {r}]
            j == registeredAt(i, x, -inst.mainDc)
<1>1. /\ busy(r) /\ dc > 0 /\ UNCHANGED <<asked, after, orphans>>
      /\ errors' \in 0 .. MaxErrors
      /\ IF inst.authWaiters[dc] = {}
         THEN inst' = j /\ sessions' = sent(j, answered(r), {x})
         ELSE inst' = i /\ sessions' = answered(r)
  BY ErrorCount DEF unauthorized
<1>2. /\ registered(inst, r) /\ r \notin inst.delayed /\ ~waits(inst, r)
      /\ NoWaiter(inst, r) /\ r \notin orphans
      /\ answered(r) \in Sessions /\ NoSession(answered(r), r)
      /\ inst.requestsByDc[r] \in SignedDc
  BY <1>1, Busy
<1>3. dc \in Dcs /\ inst.mainDc \in Dcs
  BY <1>1, <1>2, Types, DcsAssumption DEF SignedDc, Instance
<1>. HIDE DEF dc
<1>4. /\ i \in Instance /\ i.delayed = inst.delayed /\ i.dependent = inst.dependent
      /\ i.requestsByDc = inst.requestsByDc /\ i.mainDc = inst.mainDc
      /\ \A c \in Dcs : i.authWaiters[c] =
            IF c = dc THEN inst.authWaiters[c] \cup {r} ELSE inst.authWaiters[c]
  BY <1>3, Types DEF Instance
<1>. HIDE DEF i
<1>5. Fine(i, answered(r), orphans, asked, r)
  <2>1. OneWaiter(i, r)
    BY <1>2, <1>3, <1>4 DEF NoWaiter, OneWaiter
  <2>. QED BY <1>2, <1>4, <2>1 DEF Fine, Placed, registered, waits
<1>6. ASSUME NEW q \in Requests \ {r} PROVE Fine(i, answered(r), orphans, asked, q)
  <2>1. Fine(inst, answered(r), orphans, asked, q)
    BY <1>1, Busy
  <2>. QED
    BY <1>4, <2>1 DEF Fine, Gone, Placed, registered, waits, NoWaiter, OneWaiter
<1>7. CASE inst.authWaiters[dc] = {}
  <2>1. x \in Requests \ UserRequests
    BY <1>3, Kinds
  <2>2. ~registered(inst, x) /\ ~registered(inst, importRequest(dc))
    BY <1>3, <1>7 DEF IInv, Authorizing
  <2>. HIDE DEF x
  <2>3. x # r /\ x \notin asked
    BY <1>2, <2>1, <2>2, Types
  <2>4. -inst.mainDc \in SignedDc /\ bare(-inst.mainDc) = inst.mainDc
    BY <1>3, Signs
  <2>5. /\ j \in Instance /\ j.delayed = inst.delayed /\ j.dependent = inst.dependent
        /\ j.authWaiters = i.authWaiters
        /\ \A q \in Requests : j.requestsByDc[q] =
              IF q = x THEN -inst.mainDc ELSE inst.requestsByDc[q]
    BY <1>4, <2>1, <2>4, RegisteredType
  <2>. HIDE DEF j
  <2>6. inst' = j /\ sessions' = sent(j, answered(r), {x})
    BY <1>1, <1>7
  <2>7. /\ sessions' \in Sessions
        /\ \A c \in Dcs : \A q : q \in sessions'[c] <=>
              q \in answered(r)[c] \/ (q = x /\ bare(j.requestsByDc[q]) = c)
    BY <1>2, <2>1, <2>6, SentOne
  <2>8. Fine(inst', sessions', orphans, asked, x)
    <3>1. Gone(i, answered(r), orphans, asked, x)
      BY <1>4, <1>6, <2>1, <2>2, <2>3 DEF Fine, registered
    <3>2. registered(inst', x) /\ bare(inst'.requestsByDc[x]) = inst.mainDc
      BY <2>1, <2>4, <2>5, <2>6, Signs DEF registered
    <3>3. OneSession(sessions', x, inst.mainDc)
      BY <2>1, <2>4, <2>5, <2>7, <3>1 DEF Gone, NoSession, OneSession
    <3>. QED
      BY <1>4, <2>3, <2>5, <2>6, <3>1, <3>2, <3>3 DEF Fine, Gone, Placed, waits, NoWaiter
  <2>9. ASSUME NEW q \in Requests \ {x} PROVE Fine(inst', sessions', orphans, asked, q)
    <3>1. Fine(i, answered(r), orphans, asked, q)
      BY <1>5, <1>6
    <3>2. inst'.requestsByDc[q] = i.requestsByDc[q]
      BY <1>4, <2>5, <2>6
    <3>3. /\ registered(inst', q) <=> registered(i, q)
          /\ waits(inst', q) <=> waits(i, q)
          /\ NoWaiter(inst', q) <=> NoWaiter(i, q)
          /\ OneWaiter(inst', q) <=> OneWaiter(i, q)
          /\ inst'.delayed = i.delayed
      BY <1>4, <2>5, <2>6, <3>2 DEF registered, waits, NoWaiter, OneWaiter
    <3>4. /\ NoSession(sessions', q) <=> NoSession(answered(r), q)
          /\ \A c : OneSession(sessions', q, c) <=> OneSession(answered(r), q, c)
      BY <2>7 DEF NoSession, OneSession
    <3>. QED BY <3>1, <3>2, <3>3, <3>4 DEF Fine, Gone, Placed
  <2>10. TypeOK'
    BY <1>1, <2>5, <2>6, <2>7 DEF IInv, TypeOK, Sessions
  <2>11. \A q \in Requests \ {x} : registered(inst', q) <=> registered(inst, q)
    BY <2>5, <2>6 DEF registered
  <2>12. Authorizing(inst')
    <3>1. \A c \in Dcs \ {dc} : exportRequest(c) # x
      BY <1>3, Kinds DEF x
    <3>2. \A c \in Dcs : importRequest(c) # x
      BY <1>3, Kinds DEF x
    <3>. QED
      BY <1>3, <1>4, <2>2, <2>5, <2>6, <2>11, <3>1, <3>2, Kinds DEF IInv, Authorizing
  <2>. QED BY <1>1, <2>1, <2>8, <2>9, <2>10, <2>11, <2>12, Kinds DEF IInv
<1>8. CASE inst.authWaiters[dc] # {}
  <2>1. inst' = i /\ sessions' = answered(r)
    BY <1>1, <1>8
  <2>2. TypeOK'
    BY <1>1, <1>2, <1>4, <2>1 DEF IInv, TypeOK, Sessions
  <2>3. \A q \in Requests : registered(inst', q) <=> registered(inst, q)
    BY <1>4, <2>1 DEF registered
  <2>4. Authorizing(inst')
    BY <1>4, <2>1, <2>3, Kinds DEF IInv, Authorizing
  <2>. QED BY <1>1, <1>5, <1>6, <2>1, <2>2, <2>3, <2>4, Kinds DEF IInv
<1>. QED BY <1>7, <1>8

-----------------------------------------------------------------------------

LEMMA InitIsFine == Init => IInv
<1>. SUFFICES ASSUME Init PROVE IInv
  OBVIOUS
<1>1. TypeOK
  BY DcsAssumption, MaxErrorsAssumption DEF Init, TypeOK, Instance
<1>2. \A q \in Requests : ~registered(inst, q) /\ Gone(inst, sessions, orphans, asked, q)
  BY DEF Init, registered, Gone, NoSession, NoWaiter, waits
<1>. QED BY <1>1, <1>2, Kinds DEF IInv, Fine, Authorizing

LEMMA NextIsFine ==
    ASSUME IInv, [Next]_vars
    PROVE  IInv'
<1>1. ASSUME NEW r \in UserRequests, NEW dc \in SignedDc, NEW q \in asked \cup {NoRequest},
             sendRequest(r, dc, q)
      PROVE  IInv'
  BY <1>1, SendStep
<1>2. ASSUME NEW r \in UserRequests, cancel(r) \/ handled(r) \/ msgWait(r)
      PROVE  IInv'
  BY <1>2, CancelStep, HandledStep, MsgWaitStep
<1>3. ASSUME NEW r \in UserRequests, NEW dc \in Dcs, migrate(r, dc)
      PROVE  IInv'
  BY <1>3, MigrateStep
<1>4. ASSUME NEW dc \in Dcs,
             exportDone(dc) \/ exportFail(dc) \/ importDone(dc) \/ importFail(dc)
      PROVE  IInv'
  BY <1>4, ExportDoneStep, ExportFailStep, ImportDoneStep, ImportFailStep
<1>5. ASSUME NEW r \in Requests,
             checkDelayedRequests(r) \/ temporaryError(r) \/ unauthorized(r)
      PROVE  IInv'
  BY <1>5, DelayedStep, TemporaryErrorStep, UnauthorizedStep
<1>6. CASE UNCHANGED vars
  BY <1>6 DEF vars, IInv, TypeOK, Authorizing, Fine, Gone, Placed, registered, waits,
     NoWaiter, OneWaiter, NoSession, OneSession
<1>. QED BY <1>1, <1>2, <1>3, <1>4, <1>5, <1>6 DEF Next

LEMMA Invariance == Spec => []IInv
<1>1. Init => IInv
  BY InitIsFine
<1>2. IInv /\ [Next]_vars => IInv'
  BY NextIsFine
<1>. QED BY <1>1, <1>2, PTL DEF Spec
\* A request that has no answer is in exactly one place from which it will be
\* sent, and if that is a session, in the one where cancel() looks for it -
\* unless a migration or a failed export has given it up.
THEOREM AlwaysOnePlace == Spec => []OnePlace
<1>1. ASSUME IInv, NEW r \in Requests, registered(inst, r)
      PROVE  IF r \in orphans THEN places(r) = {}
             ELSE \E p \in places(r) :
                    /\ places(r) = {p}
                    /\ p[1] = "session" => bare(inst.requestsByDc[r]) = p[2]
  <2>. DEFINE d == bare(inst.requestsByDc[r])
              inSession == {<<"session", dc>> : dc \in {dc \in Dcs : r \in sessions[dc]}}
              delayed == {<<"delayed", 0>> : x \in {r} \cap inst.delayed}
              dependent == {<<"dependent", 0>> : x \in {r} \ {q \in Requests : ~waits(inst, q)}}
              waiting == {<<"waiter", dc>> : dc \in {dc \in Dcs : r \in inst.authWaiters[dc]}}
  <2>1. Placed(inst, sessions, orphans, r) /\ d \in Dcs
    BY <1>1, Types, Signs DEF IInv, Fine, registered
  <2>2. places(r) = inSession \cup delayed \cup dependent \cup waiting
    BY DEF places
  <2>3. /\ NoSession(sessions, r) => inSession = {}
        /\ OneSession(sessions, r, d) => inSession = {<<"session", d>>}
    BY <2>1 DEF NoSession, OneSession
  <2>4. delayed = IF r \in inst.delayed THEN {<<"delayed", 0>>} ELSE {}
    OBVIOUS
  <2>5. dependent = IF waits(inst, r) THEN {<<"dependent", 0>>} ELSE {}
    OBVIOUS
  <2>6. /\ NoWaiter(inst, r) => waiting = {}
        /\ OneWaiter(inst, r) => \E c \in Dcs : waiting = {<<"waiter", c>>}
    BY DEF NoWaiter, OneWaiter
  <2>. HIDE DEF inSession, delayed, dependent, waiting
  <2>7. CASE r \in orphans
    BY <2>1, <2>2, <2>3, <2>4, <2>5, <2>6, <2>7 DEF Placed
  <2>8. CASE r \notin orphans
    <3>1. \/ places(r) = {<<"session", d>>} \/ places(r) = {<<"delayed", 0>>}
          \/ places(r) = {<<"dependent", 0>>}
          \/ \E c \in Dcs : places(r) = {<<"waiter", c>>}
      BY <2>1, <2>2, <2>3, <2>4, <2>5, <2>6, <2>8 DEF Placed
    <3>2. ASSUME NEW n, NEW c, places(r) = {<<n, c>>}, n = "session" => c = d
          PROVE  \E p \in places(r) : places(r) = {p} /\ (p[1] = "session" => d = p[2])
      <4>. DEFINE p == <<n, c>>
      <4>1. p[1] = n /\ p[2] = c
        OBVIOUS
      <4>. HIDE DEF p
      <4>. QED BY <3>2, <4>1 DEF p
    <3>3. \E p \in places(r) : places(r) = {p} /\ (p[1] = "session" => d = p[2])
      <4>1. CASE places(r) = {<<"session", d>>}
        BY <3>2, <4>1
      <4>2. CASE places(r) = {<<"delayed", 0>>}
        BY <3>2, <4>2
      <4>3. CASE places(r) = {<<"dependent", 0>>}
        BY <3>2, <4>3
      <4>4. ASSUME NEW c \in Dcs, places(r) = {<<"waiter", c>>}
            PROVE  \E p \in places(r) : places(r) = {p} /\ (p[1] = "session" => d = p[2])
        BY <3>2, <4>4
      <4>. QED BY <3>1, <4>1, <4>2, <4>3, <4>4
    <3>. QED BY <2>8, <3>3
  <2>. QED BY <2>7, <2>8
<1>2. IInv => OnePlace
  BY <1>1 DEF OnePlace
<1>. QED BY <1>2, Invariance, PTL

-----------------------------------------------------------------------------
(* The order of dependent requests.                                        *)

\* Only the end of a request changes whether another waits, except that one
\* that is sent or told to wait begins to.
LEMMA EndReleases ==
    ASSUME IInv, NEW i \in Instance, NEW s \in Sessions, NEW r \in Requests,
           i.dependent = inst.dependent, registered(inst, r),
           unregisterRequest(i, s, r),
           NEW q \in UserRequests,
           waits(inst, q), registered(inst', q), ~waits(inst', q)
    PROVE  /\ registered(inst, r) /\ ~registered(inst', r)
           /\ q \in waitFor(inst, r)
<1>1. /\ inst'.requestsByDc[r] = NoDc
      /\ inst'.dependent[q] = IF q = r \/ q \in waitFor(i, r) THEN NoRequest
                              ELSE i.dependent[q]
  BY Unregistering, Kinds
<1>2. waitFor(i, r) = waitFor(inst, r)
  BY DEF waitFor
<1>3. ~registered(inst', r) /\ q # r
  BY <1>1 DEF registered
<1>. QED BY <1>1, <1>2, <1>3 DEF waits
\* A request that waits for another is sent only when one of those it waits
\* for is answered, fails or is cancelled.
THEOREM DependentWaits == Spec => WaitsInOrder
<1>. DEFINE inOrder ==
        \A q \in UserRequests :
          waits(inst, q) /\ registered(inst', q) /\ ~waits(inst', q) =>
              \E r \in Requests :
                  /\ registered(inst, r) /\ ~registered(inst', r)
                  /\ q \in waitFor(inst, r)
<1>1. ASSUME IInv, NEW i \in Instance, NEW s \in Sessions, NEW r \in Requests,
             i.dependent = inst.dependent, registered(inst, r), unregisterRequest(i, s, r)
      PROVE  inOrder
  BY <1>1, EndReleases
<1>2. ASSUME IInv, \A q \in UserRequests : waits(inst, q) => waits(inst', q)
      PROVE  inOrder
  BY <1>2
<1>. HIDE DEF inOrder
<1>3. ASSUME IInv, NEW r \in UserRequests, cancel(r)
      PROVE  inOrder
  <2>. DEFINE s == [sessions EXCEPT ![bare(inst.requestsByDc[r])] = @ \ {r}]
  <2>1. r \in Requests /\ registered(inst, r) /\ unregisterRequest(inst, s, r)
    BY <1>3, Kinds DEF cancel
  <2>2. bare(inst.requestsByDc[r]) \in Dcs
    BY <1>3, <2>1, Types, Signs DEF registered
  <2>3. s \in Sessions /\ inst \in Instance
    BY <1>3, <2>2, Types DEF Sessions
  <2>. HIDE DEF s
  <2>. QED BY <1>1, <1>3, <2>1, <2>3
<1>4. ASSUME IInv, NEW r \in UserRequests, handled(r)
      PROVE  inOrder
  <2>1. r \in Requests /\ busy(r) /\ unregisterRequest(inst, answered(r), r)
    BY <1>4, Kinds DEF handled
  <2>. QED BY <1>1, <1>4, <2>1, Types, Busy
<1>5. ASSUME IInv, NEW dc \in Dcs, importFail(dc)
      PROVE  inOrder
  <2>1. /\ importRequest(dc) \in Requests /\ busy(importRequest(dc))
        /\ unregisterRequest(inst, answered(importRequest(dc)), importRequest(dc))
    BY <1>5, Kinds DEF importFail
  <2>. QED BY <1>1, <1>5, <2>1, Types, Busy
<1>6. ASSUME IInv, NEW dc \in Dcs, exportDone(dc) \/ exportFail(dc) \/ importDone(dc)
      PROVE  inOrder
  <2>. DEFINE x == exportRequest(dc)
              m == importRequest(dc)
              given == registeredAt(inst, m, dc)
              emptied == [inst EXCEPT !.authWaiters[dc] = {}]
  <2>1. x \in Requests /\ m \in Requests
    BY Kinds
  <2>2. given \in Instance /\ given.dependent = inst.dependent
    BY <1>6, <2>1, Types, Signs, RegisteredType
  <2>3. emptied \in Instance /\ emptied.dependent = inst.dependent
    BY <1>6, Types DEF Instance
  <2>4. CASE exportDone(dc)
    <3>1. busy(x) /\ unregisterRequest(given, sent(given, answered(x), {m}), x)
      BY <2>4 DEF exportDone
    <3>. HIDE DEF x, m, given
    <3>2. registered(inst, x) /\ answered(x) \in Sessions
      BY <1>6, <2>1, <3>1, Busy
    <3>3. sent(given, answered(x), {m}) \in Sessions
      BY <2>1, <3>2, SentOne
    <3>. QED BY <1>1, <1>6, <2>1, <2>2, <3>1, <3>2, <3>3
  <2>5. CASE exportFail(dc)
    <3>1. busy(x) /\ unregisterRequest(emptied, answered(x), x)
      BY <2>5 DEF exportFail
    <3>. HIDE DEF x, emptied
    <3>2. registered(inst, x) /\ answered(x) \in Sessions
      BY <1>6, <2>1, <3>1, Busy
    <3>. QED BY <1>1, <1>6, <2>1, <2>3, <3>1, <3>2
  <2>6. CASE importDone(dc)
    <3>. DEFINE s == sent(emptied, answered(m), inst.authWaiters[dc])
    <3>1. busy(m) /\ unregisterRequest(emptied, s, m)
      BY <2>6 DEF importDone
    <3>. HIDE DEF m, emptied
    <3>2. registered(inst, m) /\ answered(m) \in Sessions
      BY <1>6, <2>1, <3>1, Busy
    <3>3. inst.authWaiters[dc] \in SUBSET Requests
      BY <1>6, Types
    <3>4. s \in Sessions
      BY <3>2, <3>3, SentType
    <3>. HIDE DEF s
    <3>. QED BY <1>1, <1>6, <2>1, <2>3, <3>1, <3>2, <3>4
  <2>. QED BY <1>6, <2>4, <2>5, <2>6
<1>7. ASSUME IInv, NEW r \in UserRequests, NEW dc \in SignedDc,
             NEW p \in asked \cup {NoRequest}, sendRequest(r, dc, p)
      PROVE  inOrder
  <2>. DEFINE i == registeredAt(inst, r, dc)
  <2>1. r \in Requests /\ p \in Requests \cup {NoRequest}
    BY <1>7, Kinds, Types
  <2>2. i \in Instance /\ i.dependent = inst.dependent
    BY <1>7, <2>1, Types, RegisteredType
  <2>3. inst' = i \/ (p # NoRequest /\ inst' = [i EXCEPT !.dependent[r] = p])
    BY <1>7 DEF sendRequest
  <2>. HIDE DEF i
  <2>4. \A q \in Requests : inst'.dependent[q] = inst.dependent[q]
                          \/ inst'.dependent[q] # NoRequest
    BY <2>1, <2>2, <2>3 DEF Instance
  <2>. QED BY <1>2, <1>7, <2>4, Kinds DEF waits
<1>8. ASSUME IInv, NEW r \in UserRequests, msgWait(r)
      PROVE  inOrder
  <2>1. \/ after[r] # NoRequest /\ inst' = [inst EXCEPT !.dependent[r] = after[r]]
        \/ inst' = inst
    BY <1>8 DEF msgWait
  <2>2. inst \in Instance
    BY <1>8, Types
  <2>3. \A q \in Requests : inst'.dependent[q] = inst.dependent[q]
                          \/ inst'.dependent[q] # NoRequest
    BY <2>1, <2>2 DEF Instance
  <2>. QED BY <1>2, <1>8, <2>3, Kinds DEF waits
<1>9. ASSUME IInv, inst'.dependent = inst.dependent
      PROVE  inOrder
  BY <1>2, <1>9 DEF waits
<1>10. ASSUME IInv, NEW r \in UserRequests, NEW dc \in Dcs, migrate(r, dc)
       PROVE  inOrder
  <2>1. newSignedDc(r, dc) \in SignedDc
    BY Signs DEF newSignedDc
  <2>2. /\ registeredAt(inst, r, newSignedDc(r, dc)) \in Instance
        /\ registeredAt(inst, r, newSignedDc(r, dc)).dependent = inst.dependent
    BY <1>10, <2>1, Kinds, Types, RegisteredType
  <2>3. \E new : inst' = [registeredAt(inst, r, newSignedDc(r, dc)) EXCEPT !.mainDc = new]
    BY <1>10 DEF migrate
  <2>4. inst'.dependent = inst.dependent
    BY <2>2, <2>3 DEF Instance
  <2>. QED BY <1>9, <1>10, <2>4
<1>11. ASSUME IInv, NEW r \in Requests, checkDelayedRequests(r) \/ temporaryError(r)
       PROVE  inOrder
  <2>1. inst'.dependent = inst.dependent
    BY <1>11, Types DEF checkDelayedRequests, temporaryError, Instance
  <2>. QED BY <1>9, <1>11, <2>1
<1>12. ASSUME IInv, NEW r \in Requests, unauthorized(r)
       PROVE  inOrder
  <2>. DEFINE dc == inst.requestsByDc[r]
              i == [inst EXCEPT !.authWaiters[dc] = @ \cup {r}]
              x == exportRequest(dc)
  <2>1. busy(r) /\ dc > 0 /\ (inst' = i \/ inst' = registeredAt(i, x, -inst.mainDc))
    BY <1>12 DEF unauthorized
  <2>2. dc \in Dcs /\ inst.mainDc \in Dcs
    BY <1>12, <2>1, Busy, Types, DcsAssumption DEF SignedDc, Instance
  <2>. HIDE DEF dc
  <2>3. i \in Instance /\ i.dependent = inst.dependent
    BY <1>12, <2>2, Types DEF Instance
  <2>4. x \in Requests /\ -inst.mainDc \in SignedDc
    BY <2>2, Kinds, Signs
  <2>. HIDE DEF i, x
  <2>5. registeredAt(i, x, -inst.mainDc).dependent = i.dependent
    BY <2>3, <2>4, RegisteredType
  <2>6. inst'.dependent = inst.dependent
    BY <2>1, <2>3, <2>5
  <2>. QED BY <1>9, <1>12, <2>6
<1>13. ASSUME IInv, UNCHANGED vars PROVE inOrder
  BY <1>9, <1>13 DEF vars
<1>14. IInv /\ [Next]_vars => inOrder
  BY <1>3, <1>4, <1>5, <1>6, <1>7, <1>8, <1>10, <1>11, <1>12, <1>13 DEF Next
<1>15. IInv /\ [Next]_vars => [inOrder]_vars
  BY <1>14
<1>. QED BY <1>15, Invariance, PTL DEF Spec, WaitsInOrder, inOrder

=============================================================================
