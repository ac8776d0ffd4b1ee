SPECIFICATION Spec
CONSTANTS
    Fields = {"f1"}
    Values = {"v1"}
    Faults = {"statement", "network"}
    Posts = {p1}
    Keys = {k1}
    NoKey = NoKey
    Entered <- MCEntered
    Polls = 2
INVARIANTS
    TypeOK
    TrailServedWhole
    TrailShowsTheCase
PROPERTY
    EveryWaitEnds
