CONSTANTS
    MaxMessages = 3
    Retries = 1
    MaxFailures = 6
    MaxResumes = 2
    FinishWaits = TRUE
SPECIFICATION Spec
INVARIANTS
    TypeOK
    StoredOnce
    OnlyQueuedOvertaken
PROPERTIES
    AppendOnly
    HealthyFinishDrains
    ImplementsLedger
CHECK_DEADLOCK FALSE
