SPECIFICATION Spec
CONSTANTS
    Task = {e1}
    Client = {c1, c2}
    Limit = {0}
    Stored = 0
    MaxRules = 2
    MaxArrivals = 1
    MaxCommands = 2
INVARIANT AnswersOwnRule
CHECK_DEADLOCK FALSE
