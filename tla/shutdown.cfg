SPECIFICATION Spec
CONSTANTS
    DevSubs = 1
    RuleSubs = 1
    AppSubs = 2
    MaxLosses = 1
INVARIANTS
    CallbacksAreLive
CHECK_DEADLOCK FALSE
