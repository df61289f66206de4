SPECIFICATION Spec
CONSTANTS
    Posts = {p1, p2}
    None = None
    Platforms = {"instagram", "facebook"}
    MaxPending = 1
    MaxQueue = 1
    AutoPublish = TRUE
    UploadsFail = FALSE
    CanSuspend = FALSE
    MaxAge = 0
    MaxCrashes = 1
    MaxLost = 1
    MaxTimeouts = 1
    MaxCopies = 4
SYMMETRY PostSymmetry
CHECK_DEADLOCK FALSE
INVARIANTS
    OnePublisher
    NothingStranded
PROPERTY StatusGraph
