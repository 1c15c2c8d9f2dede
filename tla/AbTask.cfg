SPECIFICATION Spec
CONSTANTS
    StopReqs = {r1, r2}
INVARIANTS
    TypeOK
    VerdictOnce
    ConvergedIsHonest
    ConvergedMeansStopped
    
PROPERTIES
    TraceLives
    
    HardStop
    ConvergenceCompletes
CHECK_DEADLOCK FALSE
