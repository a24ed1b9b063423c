SPECIFICATION Spec
CONSTANTS
    Namespaces = {n1}
    Keys = {k1, k2}
    Values = {a, b}
    Tombstone = Tombstone
    Altered = Altered
    EntryLimit = 1
    PendingLimit = 2
    DependencyLimit = 20
    MaxEvents = 4
    MaxDamage = 2
SYMMETRY MemorySymmetry
INVARIANTS
    HistoryIsOneLine
    TablesTellTheStream
PROPERTIES
    KeepsPromise
CHECK_DEADLOCK FALSE
