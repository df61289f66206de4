SPECIFICATION Spec
CONSTANTS
    Posts = {p1, p2}
    None = None
    Platforms = {"instagram"}
    MaxPending = 1
    MaxQueue = 1
    AutoPublish = FALSE
    UploadsFail = TRUE
    CanSuspend = TRUE
    MaxAge = 1
    MaxCrashes = 1
    MaxLost = 1
    MaxTimeouts = 0
    MaxCopies = 4
SYMMETRY PostSymmetry
INVARIANTS
    TypeOK
    OnePublisher
    PendingBound
PROPERTY HonoursContract
