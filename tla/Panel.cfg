SPECIFICATION PanelSpec
CONSTANTS
    Fields = {"f1"}
    Values = {"v1", "v2"}
    Faults = {"statement", "network"}
    Posts = {p1, p2}
    Keys = {k1, k2}
    NoKey = NoKey
    Entered <- MCEntered
INVARIANTS
    ServedWhole
    AnswersTruthful
    PreviewIsTheRecord
