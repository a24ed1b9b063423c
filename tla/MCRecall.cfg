SPECIFICATION RecallSpec
CONSTANTS
    n1 = n1
    a = a
    b = b
    t = t
    Namespaces = {n1}
    Keys = {1, 2}
    Values = {a, b}
    Tombstone = Tombstone
    Altered = Altered
    TagsOf <- TagsOfValues
    SizeOf <- SizeOfValues
    Episodes <- Recorded
    Requests <- Asked
    EntryLimit = 2
    PendingLimit = 2
    DependencyLimit = 20
    MaxEvents = 2
    MaxDamage = 1
    MaxShown = 1
    MaxReads = 1
    MaxEditions = 2
INVARIANTS
    ReadsTellTheStream
    RetriesAnswerTheSame
CHECK_DEADLOCK FALSE
