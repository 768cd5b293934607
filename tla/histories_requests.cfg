\* The requests of one chat and of two, and their entries; nothing is read.
SPECIFICATION MCSpec
CONSTANTS
    c1 = c1
    c2 = c2
    Chats = {c1, c2}
    MainChat = c1
    MaxRequests = 3
    MaxMsg = 0
    Incoming = {}
    MaxAsked = 1
    Calls = {"history", "send", "delete", "deleteChannel"}
INVARIANTS
    NoHistoryDuringDeletion
    EntryIsOnItsWay
PROPERTIES
    PostponedRuns
    EntryArrives
CHECK_DEADLOCK FALSE
