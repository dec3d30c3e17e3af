SPECIFICATION SentenceSpec
CONSTANTS
    CondExprs <- MCCondExprs
    Event <- MCEvent
    TokenSeqs <- MCTokenSeqs
    MaxPollAttempts = 3
    Topics <- MCTopics
    SubscriptionSets <- MCSubscriptionSets
    SqlRequests <- MCSqlRequests
    Payloads <- MCPayloads
    Histories <- MCHistories
    MaxJobs = 2
    Counts = {0, 2}
    Texts = {"plain", "bar", "newline", "surrogate"}
    MaxMinute = 1
    MaxFaults = 1
INVARIANT ConditionsReadLeftToRight
CHECK_DEADLOCK FALSE
