SPECIFICATION Spec
CONSTANTS
    Posts = {p1}
    NoPost = NoPost
    Workers = {w1}
    Staff = {s1, s2}
    Settings <- AgentSettings
    MaxRetry = 3
    BatchSize = 2
    MaxCards = 1
    MaxFaults = 0
    LeaseOutlivesRun = TRUE
CHECK_DEADLOCK FALSE
PROPERTY
    CardDecidesPending
