CONSTANTS
    Threads = {t1, t2, t3}
    Capacities = {1, 2}
    Bufs = {b1, b2, b3}
    Msgs = {m1}
    None = None
    Waiters = {t1, t2, t3}
    sem_cnt = 1
    MaxPosts = 0
    ClockReadings <- CarryReadings
    Timeouts <- CarryTimeouts
SPECIFICATION QueueSpec
SYMMETRY Symmetry
INVARIANTS RingConsistent WaiterCounts NoLostWakeup Ownership
