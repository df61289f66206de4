SPECIFICATION Spec
CONSTANTS
    Validity = 60
    MaxMissed = 5
    NoAlert = NoAlert
    Callers = {c1, c2}
    MaxDailyPosts = 2
INVARIANTS
    TypeOK
    UnusableIsSuspended
    TwoChances
    QuotaBound
PROPERTY
    NoGrantOnDeadToken
