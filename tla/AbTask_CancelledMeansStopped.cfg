SPECIFICATION Spec
CONSTANTS
    StopReqs = {r1, r2}
INVARIANT
    CancelledMeansStopped
CHECK_DEADLOCK FALSE
