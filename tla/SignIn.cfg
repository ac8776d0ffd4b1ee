SPECIFICATION Spec
CONSTANTS
    Attempts = {a1, a2}
    MaxFailures = 2
    Window = 3
INVARIANTS
    TypeOK
    GuessesBounded
    WaitSuffices
PROPERTIES
    NeverLockedForGood
