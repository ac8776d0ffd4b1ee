SPECIFICATION Spec
CONSTANTS
    Requests = {r1, r2, r3}
    Numbers <- MCNumbers
    BadNumbers <- MCBadNumbers
    Entries <- RaceEntries
    Shapes = {"sound"}
    Faults = {"error"}
INVARIANTS
    TypeOK
    RepliesTruthful
    ReceiptOrder
    DispatchedOnceAfterCommit
PROPERTIES
    ImplementsLedger
    EveryRequestAnswered
