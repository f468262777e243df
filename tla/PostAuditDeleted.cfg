SPECIFICATION Spec
CONSTANTS
    Posts = {p1}
    NoPost = NoPost
    Workers = {w1}
    Staff = {}
    Settings <- AgentSettings
    MaxRetry = 3
    BatchSize = 2
    MaxCards = 1
    MaxFaults = 0
    LeaseOutlivesRun = TRUE
CHECK_DEADLOCK FALSE
INVARIANT
    DeletedStaysDeleted
