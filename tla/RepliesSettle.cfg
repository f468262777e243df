SPECIFICATION FairSpec
CONSTANTS
    Items <- TwoItems
    Workers = {w1}
    MaxRetry = 2
    BatchSize = 2
    LeaseOutlivesRun = TRUE
    DailyLimit = 1
    MaxResets = 1
    MaxFaults = 1
CHECK_DEADLOCK FALSE
INVARIANTS
    NobodyIgnored
    LimitOverrun
PROPERTIES
    TaskSettles
