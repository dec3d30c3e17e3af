SPECIFICATION Spec
CONSTANTS
    Task = {e1}
    Client = {c1}
    Limit = {0, 1}
    Stored = 1
    MaxRules = 2
    MaxArrivals = 2
    MaxCommands = 2
INVARIANTS
    TypeOK
    RecordsKeepOrder
    BindingsRefer
    RunIsAllowed
    LimitHolds
    TimedOutRuleIsOff
PROPERTIES
    WorkerKeepsCommands
    EveryEventHandled
CHECK_DEADLOCK FALSE
