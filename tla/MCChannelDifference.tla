------------------------ MODULE MCChannelDifference ------------------------
(* Small instances of ChannelDifference for TLC.                           *)
EXTENDS ChannelDifference

\* A channel whose pts the client knows from its dialog.
LiveInit == Init /\ inited(box)

LiveSpec == LiveInit /\ [][Next]_vars /\ Fairness
=============================================================================
