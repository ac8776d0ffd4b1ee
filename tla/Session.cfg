SPECIFICATION Spec
CONSTANTS
    Requests = {r1, r2}
    Tabs = {t1, t2}
    Sessions = {s1, s2}
    None = None
    Stale = Stale
    Absolute = 1
    IdleLimit = 0
    Faults = {"statement", "network"}
SYMMETRY Symmetry
INVARIANTS
    TypeOK
    WritesUnderShownName
    PageCanWrite
PROPERTIES
    EndedForGood
    FirstReasonStands
