\* One chat with two messages that can be unread.
SPECIFICATION MCSpec
CONSTANTS
    c1 = c1
    Chats = {c1}
    MainChat = c1
    MaxRequests = 2
    MaxMsg = 3
    Incoming = {2, 3}
    MaxAsked = 1
    Calls = {"deleteChannel"}
INVARIANTS
    ReadAssertions
    SentReadIsTracked
    ReadIsNotLost
PROPERTIES
    ReadReachesServer
CHECK_DEADLOCK FALSE
