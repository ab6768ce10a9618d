SPECIFICATION FeedSpec
CONSTANTS
    Src = {s1, s2}
    Message <- Distinct
    ChunkSize = 2
    MaxPending = 10
    MaxPendingPerSource = 10
    MaxBuffered = 100
    MaxBufferedPerSource = 100
    MaxMessage = 100
    CleanupAge = 30
    CleanupGap = 1
INVARIANTS
    MergedAcrossPaths
CHECK_DEADLOCK FALSE
