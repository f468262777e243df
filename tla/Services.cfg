SPECIFICATION ServicesSpec
CONSTANTS
    Items = {1, 2}
    Workers = {w1, w2}
    MaxRetry = 1
    BatchSize = 2
    LeaseOutlivesRun = TRUE
    OverdueKeys = {2}
    DegradedKeys = {}
    Scanners = {s1}
    MaxContent = 2
    MaxFaults = 1
    Filers = {u1, u2}
    MaxFilings = 2
    Callers = {c1, c2}
    MaxCalls = 2
    MaxMishaps = 1
    Writers = {x1, x2}
    Readers = {r1}
    Listers = {}
    Refresher = l0
    DetailTTL = 2
    ListTTL = 1
    Deadline = 1
    MaxEdits = 2
    MaxOutages = 1
    Requests = {q1, q2}
    Events = {e1, e2, e3}
    Jobs = {j1, j2}
    Size = 2
    MaxCuts = 1
    Askers = {a1, a2}
    DayBudget = 1
    MonthBudget = 2
    Marks = {1, 2}
    MaxCost = 2
    MaxAsked = 3
    MaxSlips = 1
    Editors = {o1, o2}
    Indexers = {v1}
    MaxChanges = 3
    MaxErrors = 1
    Logins = {n1, n2}
    MaxSecrets = 2
    MaxEntries = 3
    MaxLapses = 1
    Attempts = {b1, b2, b3}
    MaxFlaws = 2
CHECK_DEADLOCK FALSE
INVARIANTS
    LatestIsSent
    GivenUpWasTried
    ReportersAreTold
    SpentTokensSettle
    StaleIsBounded
    CachesFollowWrites
    ShutdownIsClean
    OverspendIsBounded
    WarningsAreGiven
    KnowledgeAgrees
    LoginsHold
    SignUpsHold
PROPERTIES
    ServicesImplement
    AlertsSettle
    ViewsCatchUp
    ShutdownEnds
    IndexingEnds
