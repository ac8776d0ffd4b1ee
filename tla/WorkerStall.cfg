SPECIFICATION Spec
CONSTANTS
    Exceptions = {x1, x2, x3}
    Concurrency = 2
    Timeout = 2
    RetryDelay = 1
    TotalBudget = 5
    Faults = {"stall"}
INVARIANT
    BudgetHonoured
