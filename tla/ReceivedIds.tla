------------------------------ MODULE ReceivedIds ------------------------------
(***************************************************************************)
(* Which messages of an MTProto session are handled: SessionPrivate        *)
(* (mtproto/session_private.cpp) registers the id of every message, and of *)
(* every message inside a container, with the ReceivedIdsManager           *)
(* (mtproto/details/mtproto_received_ids_manager.cpp) and handles it only  *)
(* if the id is new.  The manager remembers BufferSize ids; what it has    *)
(* forgotten must be told from what it has never seen.                     *)
(*                                                                         *)
(* The server and the network may repeat, reorder and regroup messages as  *)
(* they like: any packet may come at any time.  The handler runs in the    *)
(* session's thread; an action is one iteration of its loop over the       *)
(* messages of a packet, or of the loop in shrink().  Whether a message    *)
(* needs an acknowledgement does not influence any of this and is left out.*)
(***************************************************************************)
EXTENDS Integers, Sequences, FiniteSets

CONSTANTS
    Ids,         \* message ids, in the order of the server's clock
    BufferSize,  \* kIdsBufferSize
    MaxInner     \* bound: messages in a container

ASSUME IdsAssumption == Ids \subseteq Nat \ {0}
ASSUME SizesAssumption == BufferSize \in Nat \ {0} /\ MaxInner \in Nat

VARIABLES
    ids,        \* the keys of _idsNeedAck
    phase,      \* what the session's thread does
    packet,     \* the messages still to be handled, the outer one first
    outer,      \* whether the next one is the outer one
    needReset,  \* _needSessionReset
    handled     \* history: how often a message of this session was handled

vars == <<ids, phase, packet, outer, needReset, handled>>

Init ==
    /\ ids = {}
    /\ phase = "idle"
    /\ packet = << >>
    /\ outer = FALSE
    /\ needReset = FALSE
    /\ handled = [id \in Ids |-> 0]

-----------------------------------------------------------------------------
(* The manager.                                                            *)

isMin(S, id) == id \in S /\ \A i \in S : id <= i

afterMin(S, id) == \E i \in S : i < id

\* A plausible slip: only newer ids are let in, even while there is room.
isNewer(S, id) == S = {} \/ afterMin(S, id)

\* registerMsgId() for an id that is not in the map: FALSE is TooOld.
isNew(S, id) == Cardinality(S) < BufferSize \/ afterMin(S, id)

\* A plausible slip: the buffer is one id short after shrink().
overflowsEarly(S) == Cardinality(S) >= BufferSize

\* A plausible slip: the buffer is one id too long after shrink().
overflowsLate(S) == Cardinality(S) > BufferSize + 1

overflows(S) == Cardinality(S) > BufferSize

-----------------------------------------------------------------------------
(* handleReceived() and handleOneReceived().                               *)

handleReceived ==
    /\ phase = "idle"
    /\ ~needReset
    /\ \E id \in Ids, n \in 0 .. MaxInner : \E inner \in [1 .. n -> Ids] :
           packet' = <<id>> \o inner
    /\ phase' = "handle"
    /\ outer' = TRUE
    /\ UNCHANGED <<ids, needReset, handled>>

\* A container that was received before is not opened again; a repeated
\* message inside a new container is skipped.
duplicate ==
    /\ phase = "handle" /\ packet # << >>
    /\ Head(packet) \in ids
    /\ packet' = IF outer THEN << >> ELSE Tail(packet)
    /\ outer' = FALSE
    /\ UNCHANGED <<ids, phase, needReset, handled>>

\* Handling may fail (a parse error, a request to restart): the rest of the
\* container is abandoned.
success ==
    /\ phase = "handle" /\ packet # << >>
    /\ LET id == Head(packet) IN
       /\ id \notin ids
       /\ isNew(ids, id)
       /\ ids' = ids \cup {id}
       /\ handled' = [handled EXCEPT ![id] = @ + 1]
    /\ packet' \in {Tail(packet), << >>}
    /\ outer' = FALSE
    /\ UNCHANGED <<phase, needReset>>

\* HandleResult::ResetSession: restart() changes the session after shrink().
tooOld ==
    /\ phase = "handle" /\ packet # << >>
    /\ Head(packet) \notin ids
    /\ ~isNew(ids, Head(packet))
    /\ packet' = << >>
    /\ outer' = FALSE
    /\ needReset' = TRUE
    /\ UNCHANGED <<ids, phase, handled>>

\* One iteration of the loop in shrink(), or its end.
shrink ==
    /\ phase = "handle" /\ packet = << >>
    /\ IF overflows(ids)
       THEN (\E id \in ids : isMin(ids, id) /\ ids' = ids \ {id}) /\ UNCHANGED phase
       ELSE phase' = "idle" /\ UNCHANGED ids
    /\ UNCHANGED <<packet, outer, needReset, handled>>

\* From here on a message of the old session is refused by its session id.
changeSessionId ==
    /\ phase = "idle"
    /\ ids' = {}
    /\ needReset' = FALSE
    /\ handled' = [id \in Ids |-> 0]
    /\ UNCHANGED <<phase, packet, outer>>

Next ==
    \/ handleReceived \/ duplicate \/ success \/ tooOld \/ shrink
    \/ changeSessionId

Spec == Init /\ [][Next]_vars

-----------------------------------------------------------------------------
(* Properties.                                                             *)

\* The map, the packet and the flags have their types.
TypeOK ==
    /\ ids \subseteq Ids /\ IsFiniteSet(ids)
    /\ phase \in {"idle", "handle"}
    /\ packet \in Seq(Ids)
    /\ outer \in BOOLEAN /\ needReset \in BOOLEAN
    /\ handled \in [Ids -> Nat]

\* registerMsgId() lets a message be handled once in a session, however often
\* and in whatever company it arrives, although shrink() forgets old ids.
HandledOnce == \A id \in Ids : handled[id] <= 1

\* Between two packets the buffer holds at most kIdsBufferSize ids, whatever
\* the size of the containers that were received.
BufferIsBounded == phase = "idle" => Cardinality(ids) <= BufferSize

\* Why HandledOnce holds: an id that was handled and forgotten is older than
\* every id that is remembered, and the buffer is then full.
ForgottenIsOlder ==
    \A id \in Ids \ ids : handled[id] > 0 =>
        /\ Cardinality(ids) >= BufferSize
        /\ \A i \in ids : id < i

\* A message is never refused while there is room to remember it: the session
\* is reset for a repeated or long delayed message only after BufferSize
\* newer ones.
ResetIsJustified == needReset => Cardinality(ids) >= BufferSize

Inductive == TypeOK /\ HandledOnce /\ ForgottenIsOlder
=============================================================================
