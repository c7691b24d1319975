CONSTANTS
    t1 = t1
    s1 = s1
    s2 = s2
    c1 = c1
    c2 = c2
    c3 = c3
    EventThreads = {t1}
    ReadsMayFail = TRUE
    Sniffer = TRUE
    Callbacks = {c1, c2}
    Threads = {t1, t2}
    BindMayFail = FALSE
    Intervals = {1, 2}
    MaxInbox = 1
    MaxBus = 1
    HciMayFail = TRUE
    Base = 3
    MAX_SERVS = 3
    MAX_CHARS = 4
    Offers <- Offered
    MaxAdds = 2
SPECIFICATION NetworkSpec
INVARIANTS  AdvertisesOnlyWhenAsked HandlesReachTheirOwn
PROPERTIES  AdvertisesAsAsked
