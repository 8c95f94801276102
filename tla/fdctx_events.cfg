SPECIFICATION Spec
CONSTANTS
    t1 = t1
    t2 = t2
    t3 = t3
    Threads = {t1, t2, t3}
    Requests <- AllRequests
    MaxTasks = 3
    MaxReopen = 1
    MayThrow = TRUE
SYMMETRY Symmetry
INVARIANTS TypeOK OneSolver NoTaskStranded TrueMeansRun KernelMatchesContext
PROPERTY RunsInOrder
CHECK_DEADLOCK FALSE
