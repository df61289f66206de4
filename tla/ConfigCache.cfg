SPECIFICATION Spec
SYMMETRY Symmetry
CONSTANTS
    Requests = {r1, r2}
    Keys = {soft, cron}
    RestartKeys = {cron}
    Callers = {c1, c2}
    CacheTTL = 1
    MaxCall = 1
    MaxWrites = 2
INVARIANTS
    TypeOK
    SeenWithin
    NoLostReload
    RestartShown
