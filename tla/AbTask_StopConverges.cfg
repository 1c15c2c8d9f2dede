SPECIFICATION Spec
CONSTANTS
    StopReqs = {r1, r2}
PROPERTY
    StopConverges
CHECK_DEADLOCK FALSE
