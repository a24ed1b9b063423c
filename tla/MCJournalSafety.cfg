SPECIFICATION Spec
CONSTANTS
    Processes = {p1, p2}
    Attempts = {k1, k2}
    Commands = {c1}
    Requests = {r1, r2}
    Reviewed = {r1}
    Permissive = {p1}
    MaxDamage = 1
    None = None
SYMMETRY AttemptSymmetry
INVARIANTS
    TypeOK
    ProjectionFaithful
    CommandsInsideTheirSession
    LifecycleIsWellFormed
    UndisturbedStartupIsAccepted
PROPERTIES
    ServingStartsRepaired
    ImplementsOnceOnly
CHECK_DEADLOCK FALSE
