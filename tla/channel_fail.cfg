SPECIFICATION LiveSpec
CONSTANTS
    MaxPts = 2
    MaxCount = 1
    MaxNet = 1
    Answers = {"empty", "difference"}
    MayFail = TRUE
PROPERTY FailedIsRetried
