SPECIFICATION FairSpec
CONSTANTS
    Posts = {p1}
    None = None
    Platforms = {"instagram"}
    MaxPending = 1
    MaxQueue = 1
    AutoPublish = FALSE
    UploadsFail = FALSE
    CanSuspend = FALSE
    MaxAge = 1
    MaxCrashes = 1
    MaxLost = 0
    MaxTimeouts = 0
    MaxCopies = 4
PROPERTIES
    PendingEnds
    PublicationSettles
    QueueDrains
