---------------------------- MODULE RequestRouting ----------------------------
(***************************************************************************)
(* How Instance::Private (mtproto/mtp_instance.cpp) brings each request to *)
(* an answer: the session of which data centre it is in, and what happens  *)
(* to it on the errors that its sender does not see - it is delayed, moved *)
(* to another data centre, kept until the one it must come after is done,  *)
(* or kept until the user is authorized in its data centre.                *)
(*                                                                         *)
(* All of it runs on the main thread, one handler at a time.  A session is *)
(* a set of requests it will answer once, as RpcService promises and       *)
(* SessionRequests does; a cancelled request is not answered.  Shifts of   *)
(* data centres, the delays, FILE_ID_INVALID and the errors after which a  *)
(* request is sent again unchanged (CONNECTION_NOT_INITED) are left out.   *)
(***************************************************************************)
EXTENDS Integers, FiniteSets

CONSTANTS
    Users,      \* requests of the program
    Dcs,        \* data centres
    FirstDc,    \* the main data centre at the beginning
    MaxErrors   \* bound: errors that do not end a request

ASSUME DcsAssumption == Dcs \subseteq Nat \ {0} /\ FirstDc \in Dcs
ASSUME MaxErrorsAssumption == MaxErrors \in Nat

VARIABLES
    inst,      \* Instance::Private
    sessions,  \* the requests each session is busy with
    asked,     \* the requests the program has made
    after,     \* SerializedRequest::after
    errors,    \* errors so far
    orphans    \* requests whose session or authorization was given up

vars == <<inst, sessions, asked, after, errors, orphans>>

NoRequest == <<"none", 0>>
UserRequests == {<<"user", n>> : n \in Users}
exportRequest(dc) == <<"export", dc>>
importRequest(dc) == <<"import", dc>>
Requests == UserRequests \cup {exportRequest(dc) : dc \in Dcs} \cup {importRequest(dc) : dc \in Dcs}

NoDc == 0
SignedDc == Dcs \cup {-dc : dc \in Dcs}    \* negative: whichever is the main one
bare(dc) == IF dc < 0 THEN -dc ELSE dc

\* _requestMap, _parserMap and _requestsByDc are filled and emptied together.
Instance == [
    mainDc : Dcs,
    requestsByDc : [Requests -> SignedDc \cup {NoDc}],
    delayed : SUBSET Requests,
    dependent : [Requests -> Requests \cup {NoRequest}],
    authWaiters : [Dcs -> SUBSET Requests] ]

TypeOK ==
    /\ inst \in Instance
    /\ sessions \in [Dcs -> SUBSET Requests]
    /\ asked \subseteq UserRequests
    /\ after \in [Requests -> Requests \cup {NoRequest}]
    /\ errors \in 0 .. MaxErrors
    /\ orphans \subseteq Requests

Init ==
    /\ inst = [mainDc |-> FirstDc,
               requestsByDc |-> [r \in Requests |-> NoDc],
               delayed |-> {},
               dependent |-> [r \in Requests |-> NoRequest],
               authWaiters |-> [dc \in Dcs |-> {}]]
    /\ sessions = [dc \in Dcs |-> {}]
    /\ asked = {}
    /\ after = [r \in Requests |-> NoRequest]
    /\ errors = 0
    /\ orphans = {}

-----------------------------------------------------------------------------
(* Helpers of one handler: i is the Instance::Private, s the sessions.     *)

registered(i, r) == i.requestsByDc[r] # NoDc
waits(i, r) == i.dependent[r] # NoRequest

\* Those that wait for r, or for one that does: the loop of
\* unregisterRequest() adds to them until nobody waits for what it has.
waitFor(i, r) ==
    {q \in UserRequests :
        \A S \in SUBSET UserRequests :
            {p \in UserRequests : i.dependent[p] \in S \cup {r}} \subseteq S => q \in S}

\* A plausible slip: only those that wait for r itself.
waitForItself(i, r) == {q \in UserRequests : i.dependent[q] = r}

\* A plausible slip: everyone who waits.
everyDependent(i, r) == {q \in UserRequests \ {r} : waits(i, q)}

\* toRemove without r: they leave _dependentRequests.
released(i, r) == waitFor(i, r)

\* The requests that unregisterRequest() sends.
toResend(i, r) == released(i, r)

\* registerRequest()
registeredAt(i, r, signedDc) == [i EXCEPT !.requestsByDc[r] = signedDc]

\* Session::sendPrepared() for each request, in the session of its centre.
sent(i, s, rs) ==
    [dc \in Dcs |-> s[dc] \cup {r \in rs : bare(i.requestsByDc[r]) = dc}]

\* A request is done with: those that waited for it are sent.
unregisterRequest(i, s, r) ==
    LET j == [i EXCEPT !.requestsByDc[r] = NoDc] IN
    /\ inst' = [j EXCEPT !.dependent = [q \in Requests |->
                   IF q = r \/ q \in released(i, r) THEN NoRequest ELSE @[q]]]
    /\ sessions' = sent(j, s, toResend(i, r))

-----------------------------------------------------------------------------
(* What the program asks for.                                              *)

\* A request may be sent to a given data centre or to the main one, and
\* after another request.
sendRequest(r, signedDc, afterRequest) ==
    LET found == afterRequest # NoRequest /\ registered(inst, afterRequest)
        i == registeredAt(inst, r, signedDc)
    IN
    /\ r \notin asked
    /\ signedDc < 0 => signedDc = -inst.mainDc
    /\ asked' = asked \cup {r}
    /\ after' = [after EXCEPT ![r] = IF found THEN afterRequest ELSE NoRequest]
    /\ IF found /\ waits(inst, afterRequest)
       THEN /\ inst' = [i EXCEPT !.dependent[r] = afterRequest]
            /\ UNCHANGED sessions
       ELSE /\ inst' = i
            /\ sessions' = sent(i, sessions, {r})
    /\ UNCHANGED <<errors, orphans>>

cancel(r) ==
    LET dc == bare(inst.requestsByDc[r]) IN
    /\ registered(inst, r)
    /\ unregisterRequest(inst, [sessions EXCEPT ![dc] = @ \ {r}], r)
    /\ orphans' = orphans \ {r}
    /\ UNCHANGED <<asked, after, errors>>

\* checkDelayedRequests() for one request whose time has come.  It may have
\* been cancelled.
checkDelayedRequests(r) ==
    /\ r \in inst.delayed
    /\ inst' = [inst EXCEPT !.delayed = @ \ {r}]
    /\ sessions' = sent(inst, sessions, {r})
    /\ UNCHANGED <<asked, after, errors, orphans>>

-----------------------------------------------------------------------------
(* processCallback(): a session has an answer to r.                        *)

\* The sessions without r, which has been answered.
answered(r) == [dc \in Dcs |-> sessions[dc] \ {r}]
busy(r) == \E dc \in Dcs : r \in sessions[dc]

\* The handler takes the result, or the error.
handled(r) ==
    /\ r \in UserRequests
    /\ busy(r)
    /\ unregisterRequest(inst, answered(r), r)
    /\ UNCHANGED <<asked, after, errors, orphans>>

\* The authorization is exported: it is imported where it was needed.
exportDone(dc) ==
    LET r == exportRequest(dc)
        i == registeredAt(inst, importRequest(dc), dc)
    IN
    /\ busy(r)
    /\ unregisterRequest(i, sent(i, answered(r), {importRequest(dc)}), r)
    /\ UNCHANGED <<asked, after, errors, orphans>>

\* The authorization is not exported: nobody waits for it any more.
exportFail(dc) ==
    LET r == exportRequest(dc) IN
    /\ busy(r)
    /\ unregisterRequest([inst EXCEPT !.authWaiters[dc] = {}], answered(r), r)
    /\ orphans' = orphans \cup {q \in inst.authWaiters[dc] : registered(inst, q)}
    /\ UNCHANGED <<asked, after, errors>>

\* The others that waited for the authorization are sent, unless cancelled.
importDone(dc) ==
    LET r == importRequest(dc)
        i == [inst EXCEPT !.authWaiters[dc] = {}]
    IN
    /\ busy(r)
    /\ unregisterRequest(i, sent(i, answered(r), inst.authWaiters[dc]), r)
    /\ UNCHANGED <<asked, after, errors, orphans>>

\* importFail() does nothing: the others still wait.
importFail(dc) ==
    LET r == importRequest(dc) IN
    /\ busy(r)
    /\ unregisterRequest(inst, answered(r), r)
    /\ UNCHANGED <<asked, after, errors, orphans>>

-----------------------------------------------------------------------------
(* rpcErrorOccured(), when onErrorDefault() deals with the error.          *)

mayFail == errors < MaxErrors
failed == errors' = errors + 1

\* FLOOD_WAIT, an internal error or no connection: it is sent later.
temporaryError(r) ==
    /\ busy(r) /\ mayFail /\ failed
    /\ inst' = [inst EXCEPT !.delayed = @ \cup {r}]
    /\ sessions' = answered(r)
    /\ UNCHANGED <<asked, after, orphans>>

\* setMainDcId() kills the session of the old main centre and of the new one.
setMainDcId(newDc) == IF newDc = inst.mainDc THEN {} ELSE {inst.mainDc, newDc}

\* The signed id that a request has in the centre it has moved to.
newSignedDc(r, newDc) == IF inst.requestsByDc[r] < 0 THEN -newDc ELSE newDc

\* *_MIGRATE_newDc.  A request to the main centre takes the main centre along.
migrate(r, newDc) ==
    LET toMain == inst.requestsByDc[r] < 0
        killed == IF toMain THEN setMainDcId(newDc) ELSE {}
    IN
    /\ r \in UserRequests
    /\ busy(r) /\ mayFail /\ failed
    /\ newDc # bare(inst.requestsByDc[r])
    /\ inst' = [registeredAt(inst, r, newSignedDc(r, newDc))
                  EXCEPT !.mainDc = IF toMain THEN newDc ELSE @]
    /\ sessions' = [dc \in Dcs |->
                      (IF dc \in killed THEN {} ELSE answered(r)[dc])
                      \cup (IF dc = newDc THEN {r} ELSE {})]
    /\ orphans' = orphans \cup UNION {answered(r)[dc] : dc \in killed}
    /\ UNCHANGED <<asked, after>>

\* A plausible slip: also when the other request is over.
notElsewhere(r) == inst.requestsByDc[after[r]] \in {inst.requestsByDc[r], NoDc}

inSameDc(r) == inst.requestsByDc[after[r]] = inst.requestsByDc[r]

\* MSG_WAIT_*: the server has not seen the request it must come after.
msgWait(r) ==
    /\ busy(r) /\ mayFail /\ failed
    /\ after[r] # NoRequest
    /\ IF inSameDc(r)
       THEN /\ inst' = [inst EXCEPT !.dependent[r] = after[r]]
            /\ sessions' = answered(r)
            /\ UNCHANGED after
       ELSE /\ after' = [after EXCEPT ![r] = NoRequest]
            /\ sessions' = sent(inst, answered(r), {r})
            /\ UNCHANGED inst
    /\ UNCHANGED <<asked, orphans>>

\* 401: the first that is not authorized in a centre starts the export, the
\* others wait.  A request that went to the main centre before another one
\* became the main one is not refused.
unauthorized(r) ==
    LET dc == inst.requestsByDc[r]
        begin == inst.authWaiters[dc] = {}
        i == [inst EXCEPT !.authWaiters[dc] = @ \cup {r}]
        j == registeredAt(i, exportRequest(dc), -inst.mainDc)
    IN
    /\ busy(r) /\ mayFail /\ failed
    /\ dc > 0 /\ dc # inst.mainDc
    /\ IF begin
       THEN /\ inst' = j
            /\ sessions' = sent(j, answered(r), {exportRequest(dc)})
       ELSE /\ inst' = i
            /\ sessions' = answered(r)
    /\ UNCHANGED <<asked, after, orphans>>

-----------------------------------------------------------------------------
Next ==
    \/ \E r \in UserRequests :
         \/ \E dc \in SignedDc, q \in asked \cup {NoRequest} : sendRequest(r, dc, q)
         \/ cancel(r)
         \/ handled(r)
         \/ msgWait(r)
         \/ \E dc \in Dcs : migrate(r, dc)
    \/ \E dc \in Dcs :
         exportDone(dc) \/ exportFail(dc) \/ importDone(dc) \/ importFail(dc)
    \/ \E r \in Requests :
         checkDelayedRequests(r) \/ temporaryError(r) \/ unauthorized(r)

\* Sessions answer, as SessionRequests!Answered says, and the timer fires.
Fairness ==
    /\ \A r \in UserRequests : WF_vars(handled(r))
    /\ \A dc \in Dcs : WF_vars(exportDone(dc)) /\ WF_vars(importDone(dc))
    /\ \A r \in Requests : WF_vars(checkDelayedRequests(r))

Spec == Init /\ [][Next]_vars
FairSpec == Spec /\ Fairness

-----------------------------------------------------------------------------
(* Properties.                                                             *)

\* The places in which a request can be.
places(r) ==
    {<<"session", dc>> : dc \in {dc \in Dcs : r \in sessions[dc]}}
    \cup {<<"delayed", 0>> : x \in {r} \cap inst.delayed}
    \cup {<<"dependent", 0>> : x \in {r} \ {q \in Requests : ~waits(inst, q)}}
    \cup {<<"waiter", dc>> : dc \in {dc \in Dcs : r \in inst.authWaiters[dc]}}

\* Whatever errors, cancellations and changes of the main centre come between,
\* a request that has no answer is in one session, in one of the lists of
\* Instance::Private from which it will be sent, or an orphan: never nowhere,
\* never in two.  The session is the one that queryRequestByDc() names, where
\* cancel() looks for it.
OnePlace ==
    \A r \in Requests : registered(inst, r) =>
        IF r \in orphans THEN places(r) = {}
        ELSE \E p \in places(r) :
                 /\ places(r) = {p}
                 /\ p[1] = "session" => bare(inst.requestsByDc[r]) = p[2]

\* A request in _dependentRequests is sent only when one that it waits for,
\* or that one waits for, is over.
WaitsInOrder ==
    [][\A q \in UserRequests :
          waits(inst, q) /\ registered(inst', q) /\ ~waits(inst', q) =>
              \E r \in Requests :
                  /\ registered(inst, r) /\ ~registered(inst', r)
                  /\ q \in waitFor(inst, r)]_vars

\* The requests that nothing will send: the orphans, those that wait for one,
\* and those in a centre where the import has failed or waits for itself.
stuckDcs(S) ==
    {dc \in Dcs :
        \/ exportRequest(dc) \in S
        \/ importRequest(dc) \in S \cup inst.authWaiters[dc]
        \/ ~registered(inst, exportRequest(dc)) /\ ~registered(inst, importRequest(dc))}
stuckWith(S) ==
    orphans
    \cup {r \in Requests : inst.dependent[r] \in S}
    \cup UNION {inst.authWaiters[dc] : dc \in stuckDcs(S)}
stuck ==
    LET S[n \in 0 .. Cardinality(Requests)] ==
            IF n = 0 THEN {} ELSE LET T == S[n - 1] IN T \cup stuckWith(T)
    IN  S[Cardinality(Requests)]

\* A request is answered or cancelled, or stuck.
Answered ==
    \A r \in UserRequests :
        registered(inst, r) ~> ~registered(inst, r) \/ r \in stuck
=============================================================================
