CONSTANTS
    w1 = w1
    w2 = w2
    c1 = c1
    Workers <- MCWorkers
    Callers <- MCCallers
    MaxTasks = 1
    GetNum = 1
    CountRange = 16
    StopKinds = {"autoStop"}
    Quiet = TRUE
SPECIFICATION FairSpec
PROPERTY SoftStopFinishes
CHECK_DEADLOCK FALSE
