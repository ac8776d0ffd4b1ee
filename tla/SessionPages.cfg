SPECIFICATION Spec
CONSTANTS
    Requests = {r1, r2}
    Tabs = {t1, t2}
    Sessions = {s1, s2}
    None = None
    Stale = Stale
    Absolute = 2
    IdleLimit = 1
    Faults = {}
SYMMETRY Symmetry
INVARIANTS
    SecondPageServed
