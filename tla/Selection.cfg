SPECIFICATION Spec
CONSTANTS
    Events = {}
    Articles = {a1}
    GallicaItems = {g1}
    Configs <- MCConfigs
    LongWindow = 2
    ShortWindow = 1
    MaxRest = 3
    MinDelay = 1
    MaxPending = 2
    MaxAccepted = 1
INVARIANTS
    TypeOK
    RepeatsBounded
PROPERTY
    EscalationRelaxes
