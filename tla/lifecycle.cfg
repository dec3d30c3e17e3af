SPECIFICATION Spec
CONSTANTS
    DevSubs = 1
    RuleSubs = 2
    AppSubs = 2
    MaxLosses = 2
INVARIANTS
    TypeOK
    ConfirmedIsRenewed
    NoCallbackAfterRemoval
    FailedStartIsClean
    DeafOnlyByRace
PROPERTIES
    ProgramEnds
CHECK_DEADLOCK FALSE
