-------------------------- MODULE ReceivedIdsProofs --------------------------
(***************************************************************************)
(* What is proved about ReceivedIds, for every set of ids, every size of   *)
(* the buffer and every bound on the length of a container.                *)
(***************************************************************************)
EXTENDS ReceivedIds, FiniteSetTheorems, SequenceTheorems, TLAPS

-----------------------------------------------------------------------------
(* Types.                                                                  *)

\* At the start nothing is remembered and nothing was handled.
LEMMA TypeInit == Init => TypeOK
<1>1. << >> \in Seq(Ids)
  OBVIOUS
<1>2. [id \in Ids |-> 0] \in [Ids -> Nat]
  OBVIOUS
<1>. QED BY <1>1, <1>2, FS_EmptySet DEF Init, TypeOK

\* Every iteration of the loops of handleReceived() and shrink() keeps the
\* types; the packet shrinks with Tail(), which needs it not to be empty.
LEMMA TypeStep == TypeOK /\ [Next]_vars => TypeOK'
<1>. SUFFICES ASSUME TypeOK, [Next]_vars
              PROVE  TypeOK'
  OBVIOUS
<1>. USE DEF TypeOK
<1>0. << >> \in Seq(Ids)
  OBVIOUS
<1>1. CASE handleReceived
  <2>1. PICK id \in Ids, n \in 0 .. MaxInner :
          \E inner \in [1 .. n -> Ids] : packet' = <<id>> \o inner
    BY <1>1 DEF handleReceived
  <2>2. PICK inner \in [1 .. n -> Ids] : packet' = <<id>> \o inner
    BY <2>1
  <2>3. inner \in Seq(Ids)
    BY SizesAssumption
  <2>4. packet' \in Seq(Ids)
    BY <2>2, <2>3
  <2>. QED BY <1>1, <2>4 DEF handleReceived
<1>2. CASE duplicate
  BY <1>0, <1>2, HeadTailProperties DEF duplicate
<1>3. CASE success
  <2>1. Head(packet) \in Ids /\ Tail(packet) \in Seq(Ids)
    BY <1>3, HeadTailProperties DEF success
  <2>2. IsFiniteSet(ids \cup {Head(packet)})
    BY FS_AddElement
  <2>3. handled' \in [Ids -> Nat]
    BY <1>3, <2>1 DEF success
  <2>. QED BY <1>0, <1>3, <2>1, <2>2, <2>3 DEF success
<1>4. CASE tooOld
  BY <1>0, <1>4 DEF tooOld
<1>5. CASE shrink
  <2>1. ids' \subseteq ids
    BY <1>5 DEF shrink
  <2>2. IsFiniteSet(ids')
    BY <2>1, FS_Subset
  <2>. QED BY <1>5, <2>1, <2>2 DEF shrink
<1>6. CASE changeSessionId
  BY <1>6, FS_EmptySet DEF changeSessionId
<1>7. CASE UNCHANGED vars
  BY <1>7 DEF vars
<1>. QED BY <1>1, <1>2, <1>3, <1>4, <1>5, <1>6, <1>7 DEF Next

\* The map of ids, the packet being handled and the flags of the session's
\* thread always have their types.
THEOREM TypeCorrect == Spec => []TypeOK
BY TypeInit, TypeStep, PTL DEF Spec

-----------------------------------------------------------------------------
(* A message is handled once.                                              *)

\* Nothing was handled yet.
LEMMA OnceInit == Init => HandledOnce /\ ForgottenIsOlder
BY DEF Init, HandledOnce, ForgottenIsOlder

(***************************************************************************)
(* An id that passes registerMsgId() was not handled before: it is not     *)
(* remembered, and it cannot have been forgotten, because then the buffer  *)
(* would be full of younger ids.                                           *)
(***************************************************************************)
LEMMA NewIsUnhandled ==
    ASSUME TypeOK, ForgottenIsOlder,
           NEW id \in Ids, id \notin ids, isNew(ids, id)
    PROVE  handled[id] = 0
<1>. SUFFICES ASSUME handled[id] > 0
              PROVE  FALSE
  BY DEF TypeOK
<1>1. Cardinality(ids) >= BufferSize /\ \A i \in ids : id < i
  BY DEF ForgottenIsOlder
<1>2. Cardinality(ids) \in Nat
  BY FS_CardinalityType DEF TypeOK
<1>3. afterMin(ids, id)
  BY <1>1, <1>2, SizesAssumption DEF isNew
<1>. QED BY <1>1, <1>3, IdsAssumption DEF afterMin, TypeOK

\* Each step keeps both: registering an id only adds to a buffer that
\* forgotten ids already found full, and shrink() forgets the oldest id of a
\* buffer that is still full without it.
LEMMA OnceStep ==
    TypeOK /\ HandledOnce /\ ForgottenIsOlder /\ [Next]_vars
        => HandledOnce' /\ ForgottenIsOlder'
<1>. SUFFICES ASSUME TypeOK, HandledOnce, ForgottenIsOlder, [Next]_vars
              PROVE  HandledOnce' /\ ForgottenIsOlder'
  OBVIOUS
<1>. USE DEF HandledOnce, ForgottenIsOlder
<1>1. CASE success
  <2>. DEFINE id == Head(packet)
  <2>1. id \in Ids /\ id \notin ids /\ isNew(ids, id)
    BY <1>1, HeadTailProperties DEF success, TypeOK
  <2>2. ids' = ids \cup {id} /\ handled' = [handled EXCEPT ![id] = @ + 1]
    BY <1>1 DEF success
  <2>3. handled[id] = 0
    BY <2>1, NewIsUnhandled
  <2>. HIDE DEF id
  <2>4. HandledOnce'
    BY <2>1, <2>2, <2>3 DEF TypeOK
  <2>5. Cardinality(ids') = Cardinality(ids) + 1
    BY <2>1, <2>2, FS_AddElement DEF TypeOK
  <2>6. Cardinality(ids) \in Nat
    BY FS_CardinalityType DEF TypeOK
  <2>7. ASSUME NEW j \in Ids \ ids', handled'[j] > 0
        PROVE  Cardinality(ids') >= BufferSize /\ \A i \in ids' : j < i
    <3>1. j \in Ids \ ids /\ handled[j] > 0
      BY <2>1, <2>2, <2>7 DEF TypeOK
    <3>2. Cardinality(ids) >= BufferSize /\ \A i \in ids : j < i
      BY <3>1
    <3>3. afterMin(ids, id)
      BY <2>1, <2>6, <3>2, SizesAssumption DEF isNew
    <3>4. j < id
      BY <2>1, <3>2, <3>3, IdsAssumption DEF afterMin, TypeOK
    <3>. QED BY <2>2, <2>5, <2>6, <3>2, <3>4, SizesAssumption
  <2>. QED BY <2>4, <2>7
<1>2. CASE shrink
  <2>1. CASE overflows(ids)
    <3>1. PICK id \in ids : isMin(ids, id) /\ ids' = ids \ {id}
      BY <1>2, <2>1 DEF shrink
    <3>2. handled' = handled
      BY <1>2 DEF shrink
    <3>3. Cardinality(ids') = Cardinality(ids) - 1 /\ Cardinality(ids) \in Nat
      BY <3>1, FS_RemoveElement, FS_CardinalityType DEF TypeOK
    <3>4. Cardinality(ids') >= BufferSize
      BY <2>1, <3>3, SizesAssumption DEF overflows
    <3>5. ASSUME NEW j \in Ids \ ids', handled'[j] > 0
          PROVE  \A i \in ids' : j < i
      <4>1. CASE j = id
        BY <3>1, <4>1, IdsAssumption DEF isMin, TypeOK
      <4>2. CASE j # id
        BY <3>1, <3>2, <3>5, <4>2
      <4>. QED BY <4>1, <4>2
    <3>. QED BY <3>2, <3>4, <3>5
  <2>2. CASE ~overflows(ids)
    BY <1>2, <2>2 DEF shrink
  <2>. QED BY <2>1, <2>2
<1>3. CASE changeSessionId
  BY <1>3 DEF changeSessionId
<1>4. CASE handleReceived \/ duplicate \/ tooOld \/ UNCHANGED vars
  BY <1>4 DEF handleReceived, duplicate, tooOld, vars
<1>. QED BY <1>1, <1>2, <1>3, <1>4 DEF Next

\* registerMsgId() and shrink() let a message be handled at most once in a
\* session, however often and in whatever containers it arrives.
THEOREM MessageHandledOnce == Spec => []HandledOnce
<1>. DEFINE Inv == TypeOK /\ HandledOnce /\ ForgottenIsOlder
<1>1. Init => Inv
  BY TypeInit, OnceInit
<1>2. Inv /\ [Next]_vars => Inv'
  BY TypeStep, OnceStep
<1>. QED BY <1>1, <1>2, PTL DEF Spec

-----------------------------------------------------------------------------
(* The buffer and the reset of a session.                                  *)

\* shrink() ends only when the buffer has its size, and a message is refused
\* only when the buffer is full; both survive every other step.
LEMMA BufferStep ==
    TypeOK /\ BufferIsBounded /\ ResetIsJustified /\ [Next]_vars
        => BufferIsBounded' /\ ResetIsJustified'
<1>. SUFFICES ASSUME TypeOK, BufferIsBounded, ResetIsJustified, [Next]_vars
              PROVE  BufferIsBounded' /\ ResetIsJustified'
  OBVIOUS
<1>. USE DEF BufferIsBounded, ResetIsJustified
<1>0. Cardinality(ids) \in Nat
  BY FS_CardinalityType DEF TypeOK
<1>1. CASE success
  <2>1. ids' = ids \cup {Head(packet)} /\ Head(packet) \notin ids
    BY <1>1 DEF success
  <2>2. Cardinality(ids') = Cardinality(ids) + 1
    BY <2>1, FS_AddElement DEF TypeOK
  <2>. QED BY <1>0, <1>1, <2>2, SizesAssumption DEF success
<1>2. CASE tooOld
  BY <1>0, <1>2, SizesAssumption DEF tooOld, isNew
<1>3. CASE shrink
  <2>1. CASE overflows(ids)
    <3>1. PICK id \in ids : ids' = ids \ {id}
      BY <1>3, <2>1 DEF shrink
    <3>2. Cardinality(ids') = Cardinality(ids) - 1
      BY <3>1, FS_RemoveElement DEF TypeOK
    <3>. QED BY <1>0, <1>3, <2>1, <3>2, SizesAssumption DEF shrink, overflows
  <2>2. CASE ~overflows(ids)
    BY <1>0, <1>3, <2>2, SizesAssumption DEF shrink, overflows
  <2>. QED BY <2>1, <2>2
<1>4. CASE changeSessionId
  BY <1>4, FS_EmptySet, SizesAssumption DEF changeSessionId
<1>5. CASE handleReceived \/ duplicate \/ UNCHANGED vars
  BY <1>5 DEF handleReceived, duplicate, vars
<1>. QED BY <1>1, <1>2, <1>3, <1>4, <1>5 DEF Next

\* Between two packets the manager remembers at most kIdsBufferSize ids, and
\* a session is only reset over an old id when it remembers that many.
THEOREM BufferCorrect == Spec => [](BufferIsBounded /\ ResetIsJustified)
<1>. DEFINE Inv == TypeOK /\ BufferIsBounded /\ ResetIsJustified
<1>1. Init => Inv
  BY TypeInit, FS_EmptySet, SizesAssumption
     DEF Init, BufferIsBounded, ResetIsJustified
<1>2. Inv /\ [Next]_vars => Inv'
  BY TypeStep, BufferStep
<1>. QED BY <1>1, <1>2, PTL DEF Spec

\* The session is reset for an id that is too old only when the buffer is full:
\* registerMsgId() never refuses a message that it had room for.
THEOREM ResetOnlyWhenFull == Spec => []ResetIsJustified
<1>1. BufferIsBounded /\ ResetIsJustified => ResetIsJustified
  OBVIOUS
<1>. QED BY <1>1, BufferCorrect, PTL
=============================================================================
