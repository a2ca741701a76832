CONSTANTS
    Batches <- MCShortBatches
    ParallelToolCalls = TRUE
    MaxSteps = 1
    MaxEmptyTurns = 1
    MayTruncate = FALSE
    MaxTurns = 4
    MaxRestarts = 2
    CompactFrom = 20
SPECIFICATION Spec
INVARIANT SubmittedAlwaysValid
CHECK_DEADLOCK FALSE
