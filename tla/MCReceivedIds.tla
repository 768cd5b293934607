---------------------------- MODULE MCReceivedIds ----------------------------
(* A small instance of ReceivedIds for TLC.                                *)
EXTENDS ReceivedIds

MCIds == 1 .. 6
=============================================================================
