----------------------------- MODULE MCHistories -----------------------------
(* A small instance of Histories for TLC: what the user and the server do  *)
(* is narrowed to one chat and, if there is a second one, to asking for    *)
(* its entry; the program's own steps are never restricted.                *)
EXTENDS Histories, TLC

CONSTANT MainChat

Other(c) == c # MainChat /\ requestEntry(c)

MCNext ==
    \/ User(MainChat) \/ Pushed(MainChat)
    \/ \E c \in Chats : Other(c) \/ Answered(c) \/ serverReads(c)
    \/ sendReadRequestsTimer \/ sendDialogRequests
    \/ serverAnswers
    \/ \E n \in 1 .. MaxAsked : Dialogs(n)

MCSpec == Init /\ [][MCNext]_vars /\ Fairness
=============================================================================
