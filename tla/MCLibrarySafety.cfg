SPECIFICATION Spec
CONSTANTS
    Profiles = {p1, p2}
    Skills = {b, s}
    BuiltIns = {b}
    Names = {1, 2}
    Texts = {t1}
    MaxPins = 2
    MaxShown = 1
    MaxDrafted = 1
    MaxWrites = 3
    MaxReads = 1
    MaxDamage = 1
SYMMETRY Symmetry
INVARIANTS
    RowsTellTheStream
    NamesAreNotShared
    PinsResolve
    RetriesAnswerTheSame
    UndamagedStartupIsAccepted
CHECK_DEADLOCK FALSE
