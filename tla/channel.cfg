\* Losses, reordering, delays, RPC errors, every kind of answer.
SPECIFICATION FairSpec
CONSTANTS
    MaxPts = 3
    MaxCount = 2
    MaxNet = 2
    Answers = {"empty", "difference", "tooLong", "tooLongNoPts"}
    MayFail = TRUE
INVARIANTS
    NoSilentLoss
    PostponedIsKept
PROPERTIES
    ImplementsEventLog
    QueuedIsApplied
    OpenChatCatchesUp
