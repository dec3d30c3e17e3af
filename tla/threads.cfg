SPECIFICATION MCSpec
CONSTANTS
    Task = {t1, t2}
    StopLocks = TRUE
    MaxArrivals = 3
    Device = {d1, d2}
    Timeout = 2
    Period = 1
    MaxRestarts = 1
    Speak = {s1, s2, s3}
    MaxStops = 1
INVARIANTS
    QueueTypeOK
    FirstInFirstOut
    NoLostWakeup
    TypeOK
    OnlineIsWatched
    OfflineInTime
    HeardStaysOnline
    SpeakingIsExclusive
PROPERTIES
    ImplementsChannel
    StopReturns
    EveryTaskTaken
    OfflineIsRepaired
    BusyEnds
CHECK_DEADLOCK FALSE
