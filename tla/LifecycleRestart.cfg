SPECIFICATION Spec
CONSTANTS
    Posts = {p1}
    None = None
    Platforms = {"instagram", "facebook", "threads"}
    MaxPending = 1
    MaxQueue = 1
    AutoPublish = FALSE
    UploadsFail = TRUE
    CanSuspend = TRUE
    MaxAge = 2
    MaxCrashes = 1
    MaxLost = 1
    MaxTimeouts = 1
    MaxCopies = 5
INVARIANTS
    AtMostOnce
    RecordsAreReal
    Retriable
 
