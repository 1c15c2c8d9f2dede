SPECIFICATION TestSpec
CONSTANTS
    StopReqs = {}
    Ingests = {i1}
    MaxNotFound = 1
    Statuses = {"done"}
    Verdicts = {"run_end"}
PROPERTIES
    LeftToIngestSettles
CHECK_DEADLOCK FALSE
