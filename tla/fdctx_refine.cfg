SPECIFICATION Spec
CONSTANTS
    t1 = t1
    t2 = t2
    Threads = {t1, t2}
    Requests <- EventRequests
    MaxTasks = 3
    MaxReopen = 0
    MayThrow = FALSE
PROPERTIES RefinesSerial EveryTaskRuns
CHECK_DEADLOCK FALSE
