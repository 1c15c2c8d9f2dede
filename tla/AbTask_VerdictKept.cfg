SPECIFICATION Spec
CONSTANTS
    StopReqs = {r1, r2}
INVARIANT
    VerdictKept
CHECK_DEADLOCK FALSE
