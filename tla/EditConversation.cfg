SPECIFICATION Spec
SYMMETRY Symmetry
CONSTANTS
    Posts = {p1}
    Admins = {alice, bob}
    MaxEdits = 1
    MaxCrashes = 1
INVARIANTS
    TypeOK
    AsShown
    Answerable
    EditTimed
CHECK_DEADLOCK FALSE
