SPECIFICATION Spec
CONSTANTS
    Posts = {p1}
    None = None
    Platforms = {"instagram"}
    MaxPending = 1
    MaxQueue = 1
    AutoPublish = FALSE
    UploadsFail = FALSE
    CanSuspend = FALSE
    MaxAge = 0
    MaxCrashes = 0
    MaxLost = 0
    MaxTimeouts = 0
    MaxCopies = 4
CHECK_DEADLOCK FALSE
PROPERTY SendIsRecorded
