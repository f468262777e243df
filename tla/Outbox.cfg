SPECIFICATION FairSpec
CONSTANTS
    Items <- TwoItems
    Workers = {w1, w2}
    MaxRetry = 2
    BatchSize = 2
    LeaseOutlivesRun = TRUE
    Users <- TwoUsers
    Everyone = Everyone
    Reach = 4
    MaxFaults = 1
CHECK_DEADLOCK FALSE
INVARIANTS
    DoneIsDelivered
PROPERTIES
    IsTaskQueue
    ReadStaysRead
    EveryoneHears
