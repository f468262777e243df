SPECIFICATION Spec
CONSTANTS
    Items <- TwoItems
    Workers = {w1, w2}
    MaxRetry = 2
    BatchSize = 2
    LeaseOutlivesRun = TRUE
    DailyLimit = 1
    MaxResets = 1
    MaxFaults = 0
SYMMETRY WorkerSymmetry
CHECK_DEADLOCK FALSE
INVARIANTS
    AnsweredOnce
