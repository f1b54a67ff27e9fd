SPECIFICATION FairSpec
CONSTANTS
    j1 = j1
    p1 = p1
    p2 = p2
    l1 = l1
    l2 = l2
    Job <- OneJob
    Proc <- TwoProcs
    Lane <- TwoLanes
    ProcOf <- LanePerProc
    Filter <- AllOfOne
    Rank <- RankOne
    MaxRetries <- OneRetry
    Timeout = 1
    Punctual = TRUE
    MaxMishaps = 2
PROPERTIES RunsOnce LifecycleSpec AllSettle
CHECK_DEADLOCK FALSE
