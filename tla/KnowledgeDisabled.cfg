SPECIFICATION KnowledgeSpec
CONSTANTS
    Editors = {o1, o2}
    Indexers = {w1}
    MaxChanges = 2
    MaxErrors = 0
CHECK_DEADLOCK FALSE
INVARIANTS
    DisabledIsNotSearched
