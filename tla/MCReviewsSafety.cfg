SPECIFICATION Spec
CONSTANTS
    Previews = {v1, v2}
    Attempts = {k1, k2}
    Commands = {c1, c2}
    Kinds = {"profile", "skill", "memory"}
    None = None
SYMMETRY Symmetry
INVARIANTS
    NothingUnseenIsOverwritten
    DroppedIsNeverRecorded
    NoStrandedReservation
    SomeoneCanMove
CHECK_DEADLOCK FALSE
