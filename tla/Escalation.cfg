SPECIFICATION FairSpec
CONSTANTS
    Entries <- MCEntries
    BaseTypes = {"events"}
    Year = 3
    Window = 1
    Prefetch = 2
    Horizon = 2
    Threshold = 2
    MinEvents = 1
    MaxResets = 1
    MaxAborts = 1
INVARIANTS
    TypeOK
    ResetHolds
PROPERTIES
    EscalatesForCause
    ShortageIsNoticed
