SPECIFICATION Spec
CONSTANTS
    Profiles = {p1}
    Skills = {b, s}
    BuiltIns = {b}
    Names = {1, 2}
    Texts = {t1, t2}
    MaxPins = 2
    MaxShown = 2
    MaxDrafted = 1
    MaxWrites = 2
    MaxReads = 1
    MaxDamage = 0
INVARIANT HistoryIsShown
CHECK_DEADLOCK FALSE
