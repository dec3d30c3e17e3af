SPECIFICATION QueueSpec
CONSTANTS
    Task = {t1}
    StopLocks = FALSE
    MaxArrivals = 1
PROPERTY StopReturns
CHECK_DEADLOCK FALSE
