--------------------------- MODULE MCRequestRouting ---------------------------
(* A small instance of RequestRouting for TLC.                             *)
EXTENDS RequestRouting

\* The program makes its requests in the order of their ids.
MCNext ==
    /\ Next
    /\ \A m, n \in Users : m < n /\ <<"user", n>> \in asked' => <<"user", m>> \in asked'

MCSpec == Init /\ [][MCNext]_vars /\ Fairness
=============================================================================
