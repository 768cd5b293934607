------------------------------ MODULE RpcService ------------------------------
(***************************************************************************)
(* What Instance::send() promises to its callers (mtproto/mtp_instance.h): *)
(* the handler of a request is called at most once, only with an answer of *)
(* the server to this very request, and not after the request was          *)
(* cancelled.  A request may be carried out more than once, and also when  *)
(* it was cancelled too late.                                              *)
(***************************************************************************)
CONSTANT Requests

VARIABLES
    status,     \* what the caller knows of each request
    executed    \* the requests the server has carried out

Status == {"new", "asked", "cancelled", "answered"}

Init ==
    /\ status = [r \in Requests |-> "new"]
    /\ executed = {}

Ask(r) ==
    /\ status[r] = "new"
    /\ status' = [status EXCEPT ![r] = "asked"]
    /\ UNCHANGED executed

\* A packet may carry several requests.
Execute(rs) ==
    /\ rs \subseteq {r \in Requests : status[r] # "new"}
    /\ executed' = executed \cup rs
    /\ UNCHANGED status

Answer(rs) ==
    /\ rs \subseteq {r \in executed : status[r] = "asked"}
    /\ status' = [r \in Requests |-> IF r \in rs THEN "answered" ELSE status[r]]
    /\ UNCHANGED executed

Cancel(r) ==
    /\ status[r] = "asked"
    /\ status' = [status EXCEPT ![r] = "cancelled"]
    /\ UNCHANGED executed

Next ==
    \/ \E r \in Requests : Ask(r) \/ Cancel(r)
    \/ \E rs \in SUBSET Requests : Execute(rs) \/ Answer(rs)

Spec == Init /\ [][Next]_<<status, executed>>
=============================================================================
