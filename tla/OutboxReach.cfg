SPECIFICATION FairSpec
CONSTANTS
    Items <- TwoItems
    Workers = {w1}
    MaxRetry = 3
    BatchSize = 2
    LeaseOutlivesRun = TRUE
    Users <- TwoUsers
    Everyone = Everyone
    Reach = 1
    MaxFaults = 0
CHECK_DEADLOCK FALSE
PROPERTY
    InteractionArrives
