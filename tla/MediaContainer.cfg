SPECIFICATION FairSpec
CONSTANTS
    Kinds = {"instagram", "reel", "threads"}
    Containers = {c1, c2, c3}
    None = None
    MaxWait = 2
    MaxCrashes = 1
    MaxLost = 1
CHECK_DEADLOCK FALSE
INVARIANTS
    TypeOK
    PersistedFirst
    CopiesAreFaults
PROPERTIES
    OneCopyPerCall
    CallEnds
