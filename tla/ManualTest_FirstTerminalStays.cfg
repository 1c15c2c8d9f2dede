SPECIFICATION TestSpec
CONSTANTS
    StopReqs = {r1}
    Ingests = {i1}
    MaxNotFound = 2
    Statuses = {"done", "evidence_capture_failed", "cancelled"}
    Verdicts = {"run_end", "run_cancelled"}
PROPERTIES
    FirstTerminalStays
CHECK_DEADLOCK FALSE
