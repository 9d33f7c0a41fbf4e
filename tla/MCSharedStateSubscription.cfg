SPECIFICATION FairSpec
CONSTANTS
    Limit = 2
    MaxRevision = 3
INVARIANTS
    NeverCorrupt
PROPERTIES
    ImplementsFeed
    ChangesArrive
CHECK_DEADLOCK FALSE
