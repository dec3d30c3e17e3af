SPECIFICATION Spec
CONSTANTS
    CondExprs <- MCCondExprs
    Event <- MCEvent
    TokenSeqs <- MCTokenSeqs
    MaxPollAttempts = 3
    Topics <- MCTopics
    SubscriptionSets <- MCSubscriptionSets
    SqlRequests <- MCSqlRequests
    Payloads <- MCPayloads
    Histories <- MCHistories
    MaxJobs = 2
    Counts = {0, 2}
    Texts = {"plain", "bar", "newline", "surrogate"}
    MaxMinute = 1
    MaxFaults = 1
CONSTRAINT FewJobs
INVARIANTS
    SentencesMeanWhatTheySay
    LongestSentenceCounts
    LineOfEvent
    TopicsFindTheirHandler
    RequestsAreServed
    PromptIsAnswered
    CronTextsMeanWhatTheySay
    FiringIsBounded
    JobsSurvive
CHECK_DEADLOCK FALSE
