SPECIFICATION TestSpec
CONSTANTS
    StopReqs = {r1}
    Ingests = {i1}
    MaxNotFound = 2
    Statuses = {"done", "evidence_capture_failed", "cancelled"}
    Verdicts = {"run_end", "run_cancelled"}
INVARIANTS
    TypeOK
    DoneIsEarned
    CancelIsWanted
    CopyNotAhead
PROPERTIES
    TraceKept
CHECK_DEADLOCK FALSE
