--------------------------- MODULE MCStreamingReader ---------------------------
(* A small instance of StreamingReader for TLC: how often the user acts    *)
(* and the server fails is bounded together; the program's own steps are   *)
(* never restricted.                                                       *)
EXTENDS StreamingReader

CONSTANT MaxEvents

Events == main.starts + main.pauses + downloader.count + Cardinality(loader.dead)

MCSpec == Init /\ [][Next /\ Events' <= MaxEvents]_vars /\ Fairness
=============================================================================
