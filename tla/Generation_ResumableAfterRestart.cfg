SPECIFICATION Spec
CONSTANTS
    InitialBalance = 4
    HoldAmount = 3
    DebtLimit = 3
    Costs = {2}
    MaxCost = 2
    Streams = {r1, r2}
    Traces = {t1, t2}
    MaxEvents = 2
    MaxCrashes = 1
    Grants = {1}
INVARIANTS
    ResumableAfterRestart
SYMMETRY Alike
CHECK_DEADLOCK FALSE
