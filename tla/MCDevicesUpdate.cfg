CONSTANTS
    MaxPending = 2
    MaxLate = 3
    ThreadMayFail = TRUE
    PollKeepsFile = TRUE
    Threads = {t1, t2}
    Channels = {c1, c2}
    Polarities = {"normal", "inversed"}
    Frequencies = {0, 1, 5, 13}
    Duties = {1, 3}
    Cycles = {0, 2}
    NS_PER_SECOND = 12
    TUYA_PWM_DUTY_SCALE = 4
    Failing = {"export", "enable", "period", "duty", "polarity"}
    InfoSetters = {t1}
    ChannelLists = {}
    Callers = {t1, t2}
    Addrs = {1, 2}
    PENDING_MAX = 1
    MaxTransfer = 2
    MaxCalls = 3
    SpiCallers = {t1, t2}
    Fds = {1, 2}
    SpiCfgs <- TwoSpiCfgs
    MaxSize = 3
    Ports = {0, 1}
    Redirect = FALSE
    MaxBytes = 4
    BufferCount = 6
    t1 = t1
    t2 = t2
    c1 = c1
    c2 = c2
SPECIFICATION UpdateSpec
INVARIANT FullUpdate
