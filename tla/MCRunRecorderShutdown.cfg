CONSTANTS
    MaxMessages = 3
    Retries = 1
    MaxFailures = 4
    MaxResumes = 1
    FinishWaits = FALSE
SPECIFICATION Spec
PROPERTY QueuedIsKept
CHECK_DEADLOCK FALSE
