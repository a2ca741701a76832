CONSTANTS
    MaxRuns = 3
    MaxTracked = 1
    MaxTurns = 2
    Archive <- MCArchive
    Calls <- MCCalls
    MaxEvents = 3
    Reopening = FALSE
SPECIFICATION Spec
INVARIANTS
    TypeOK
    RowsFollowMemory
    ShownOnce
PROPERTIES
    OnlyFlushSnapshots
    BacklogDrains
CHECK_DEADLOCK FALSE
