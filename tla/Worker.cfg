SPECIFICATION Spec
CONSTANTS
    Exceptions = {x1, x2, x3, x4}
    Concurrency = 2
    Timeout = 1
    RetryDelay = 1
    TotalBudget = 1
    Faults = {}
INVARIANTS
    TypeOK
    SlotsUsed
    ServedInOrder
    CallBounded
PROPERTY
    EveryDispatchEnds
