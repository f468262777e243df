SPECIFICATION Spec
CONSTANTS
    Posts = {p1}
    NoPost = NoPost
    Workers = {w1, w2}
    Staff = {s1}
    Settings <- OnSettings
    MaxRetry = 3
    BatchSize = 2
    MaxCards = 1
    MaxFaults = 2
    LeaseOutlivesRun = TRUE
CHECK_DEADLOCK FALSE
SYMMETRY WorkerSymmetry
INVARIANTS
    PublicNeedsPerson
    RejectNeedsPerson
    PendingIsWatched
