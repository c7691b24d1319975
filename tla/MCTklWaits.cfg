CONSTANTS
    Threads = {t1, t2}
    Capacities = {1, 2}
    Bufs = {b1, b2}
    Msgs = {m1, m2}
    None = None
    Waiters = {t1, t2}
    sem_cnt = 1
    MaxPosts = 3
    ClockReadings <- CarryReadings
    Timeouts <- CarryTimeouts
SPECIFICATION WaitsSpec
INVARIANTS EveryOkHasAUnit 
PROPERTIES FifoSpec LeakOnlyOnFailedPostOrFree  TimedWaitEnds
