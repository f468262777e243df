SPECIFICATION FairSpec
CONSTANTS
    Posts = {p1}
    Comments = {c1, c2, c3}
    NoComment = NoComment
    MaxCount = 3
    Targets = {p1}
    Users = {u1}
    Requests = {r1, r2}
CHECK_DEADLOCK FALSE
INVARIANTS
    CountsCover
    ExactUnlessLoose
    LikesCounted
PROPERTY
    StatsHeal
