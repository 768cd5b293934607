\* The pts of the account and the numbered containers, with every answer the
\* server may give; recovery of what was lost, failed, postponed or queued.
SPECIFICATION MCFairSpec
CONSTANTS
    MaxPts = 3
    MaxSeq = 3
    MaxNet = 2
    MaxSent = 4
    MayFail = TRUE
    MayBeUnhandled = TRUE
    ResultsNumbered = TRUE
INVARIANTS
    NoSilentLoss
    NoSkippedContainer
PROPERTIES
    ImplementsEventLog
    GapIsWatched
    FailedIsRetried
    LostIsFetched
    QueuedIsApplied
    ContainerIsApplied
