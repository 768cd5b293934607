\* A container whose timer fires while a difference is requested.
SPECIFICATION MCFairSpec
CONSTANTS
    MaxPts = 1
    MaxSeq = 3
    MaxNet = 2
    MaxSent = 4
    MayFail = FALSE
    MayBeUnhandled = FALSE
    ResultsNumbered = TRUE
PROPERTY WaitForSkippedEnds
