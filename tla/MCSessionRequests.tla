--------------------------- MODULE MCSessionRequests ---------------------------
(* A small instance of SessionRequests for TLC.  What the program does at  *)
(* once is never restricted: only the user, and the time at which a timer  *)
(* fires.                                                                  *)
EXTENDS SessionRequests

\* One request may be cancelled, and the session may ask about it.  A second
\* one comes after it when neither has happened.
TwoRequests == \A r \in Requests : status[r] # "new"
Undisturbed ==
    /\ main.cancelling = {} /\ priv.toCheck = {}
    /\ \A r \in Requests : status[r] # "cancelled"

MCNext ==
    /\ Next
    /\ \A q, r \in Requests : q < r /\ status'[q] = "new" => status'[r] = "new"
    /\ TwoRequests' => Undisturbed'

MCSpec == Init /\ [][MCNext]_vars /\ Fairness
=============================================================================
