--------------------------- MODULE MCDraftStorage ---------------------------
(* Small values for DraftStorage. The second chat is written at most once,  *)
(* as the first one, so that the run can afford more versions of the other. *)
EXTENDS DraftStorage

MCPeers == {"a", "b"}

MCNext ==
  /\ Next
  /\ (version' # version /\ version > 0) => kept'["b"] = kept["b"]

MCFairSpec == Init /\ [][MCNext]_vars /\ Fairness

============================================================================
