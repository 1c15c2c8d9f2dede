SPECIFICATION TestSpec
CONSTANTS
    StopReqs = {r1}
    Ingests = {}
    MaxNotFound = 1
    Statuses = {"evidence_capture_failed", "cancel_timeout"}
    Verdicts = {"run_error"}
PROPERTIES
    PollSettles
    CopyCatchesUp
CHECK_DEADLOCK FALSE
