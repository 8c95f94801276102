CONSTANTS
    t1 = t1
    t2 = t2
    NoTimer = NoTimer
    p1 = p1
    p2 = p2
    Timers <- TwoTimers
    Threads <- TwoThreads
    Delays = {1, 2}
    m_block_size_ms = 2
    MaxTime = 0
    MaxCycles = 1
    CountRange = 16
SPECIFICATION Spec
INVARIANT NoTimerErased
CHECK_DEADLOCK FALSE
