\* The streaming thread, the main thread and the cache, with any three events.
SPECIFICATION MCSpec
CONSTANTS
    PartsCount = 2
    RequestsLimit = 1
    MaxStarts = 2
    MaxPauses = 1
    MaxDownloads = 2
    MaxFailures = 1
    MaxEvents = 3
INVARIANTS
    PartsAreNew
    OneOwner
    BlockedIsWoken
PROPERTIES
    ReadEnds
    DownloadGetsParts
CHECK_DEADLOCK FALSE
