SPECIFICATION FairSpec
CONSTANTS
    Posts = {p1, p2}
    NoPost = NoPost
    Workers = {w1, w2}
    Staff = {}
    Settings <- AgentSettings
    MaxRetry = 3
    BatchSize = 2
    MaxCards = 1
    MaxFaults = 1
    LeaseOutlivesRun = TRUE
CHECK_DEADLOCK FALSE
INVARIANTS
    ClaimIsExclusive
PROPERTIES
    IsTaskQueue
    TaskSettles
