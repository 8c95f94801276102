CONSTANTS
    w1 = w1
    w2 = w2
    c1 = c1
    Workers <- MCWorkers
    Callers <- MCCallers
    MaxTasks = 3
    GetNum = 2
    CountRange = 16
    StopKinds = {"stop", "autoStop"}
    Quiet = TRUE
SPECIFICATION Spec
INVARIANTS TypeOK CountFollowsQueues NoLostWakeup StartedOnce SoftStopLeavesNone
PROPERTY SoftStopKeepsWorker
CHECK_DEADLOCK FALSE
