------------------------------- MODULE EventLog -------------------------------
(***************************************************************************)
(* What a box of updates promises its reader: the server keeps a log of    *)
(* events 1 .. total, the client knows some of them, in any order, and     *)
(* reports a position good such that it knows everything up to it.  The    *)
(* next request of a difference starts from good, so a position that runs  *)
(* ahead of what is known, or ahead of the log, loses events for good, and *)
(* one that moves back fetches them twice.  Nothing is forgotten.          *)
(*                                                                         *)
(* ChannelDifference and CommonUpdates implement it with the pts of their  *)
(* PtsWaiter (PtsWaiter::current()) as good.                               *)
(***************************************************************************)
EXTENDS Integers

VARIABLES
    total,  \* the number of events in the server's log
    known,  \* the events the client has applied
    good    \* the position the client reports

vars == <<total, known, good>>

Init ==
    /\ total \in Nat /\ good \in Nat
    /\ good <= total
    /\ 1 .. good \subseteq known

\* The server appends events.
Append ==
    /\ total' \in Nat /\ total' > total
    /\ UNCHANGED <<known, good>>

\* The client learns of events, or reports a later position, or both.
Learn ==
    /\ known \subseteq known'
    /\ good' \in good .. total
    /\ 1 .. good' \subseteq known'
    /\ UNCHANGED total

Next == Append \/ Learn

Spec == Init /\ [][Next]_vars
=============================================================================
