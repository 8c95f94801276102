CONSTANTS
    w1 = w1
    w2 = w2
    c1 = c1
    Workers <- MCWorkers
    Callers <- MCCallers
    MaxTasks = 2
    GetNum = 1
    CountRange = 16
    StopKinds = {"stop", "autoStop"}
    Quiet = TRUE
SPECIFICATION FairSpec
PROPERTIES EveryTaskRuns StopReturns
CHECK_DEADLOCK FALSE
