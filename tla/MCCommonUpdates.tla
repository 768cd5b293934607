--------------------------- MODULE MCCommonUpdates ---------------------------
(* Small instances of CommonUpdates for TLC.  What the server sends is     *)
(* narrowed, the client's own steps never are: events and containers are   *)
(* counted together; once there are numbered containers, events come       *)
(* inside of them; updatesTooLong and the update of an unknown channel,    *)
(* whose timer may fire at any time later, come before everything else.    *)
EXTENDS CommonUpdates

CONSTANT MaxSent    \* bound: events and numbered containers together

MCServer ==
    /\ Server
    /\ serverPts' + serverSeq' <= MaxSent
    /\ \A m \in net' :
         /\ m.kind \in {"short", "affected"} => serverSeq' = 1
         /\ m.kind = "tooLong" \/ m.what = "channel" => serverPts' + serverSeq' <= 2

MCNext == Handlers \/ MCServer

MCFairSpec == Init /\ [][MCNext]_vars /\ Fairness
=============================================================================
