SPECIFICATION Spec
CONSTANTS
    n1 = n1
    n2 = n2
    n3 = n3
    Nodes = {n1, n2, n3}
    WorkerId <- Workers
    DatacenterId <- Datacenters
    SEQUENCES = 2
    WORKERS = 2
    DATACENTERS = 2
    TWEPOCH = 2
    StartTimes = {2, 3}
    MaxTime = 4
INVARIANTS TypeOK Increasing Disjoint
CHECK_DEADLOCK FALSE
