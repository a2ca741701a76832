CONSTANTS
    Batches <- MCBatches
    ParallelToolCalls = TRUE
    MaxSteps = 1
    MaxEmptyTurns = 1
    MayTruncate = FALSE
    MaxTurns = 3
    MaxRestarts = 2
    CompactFrom = 3
SPECIFICATION Spec
INVARIANTS
    TypeOK
    SubmittedValid
    OutputOnce
    HistoryIsDurable
PROPERTIES
    QuestionsSurvive
    RestoredAlike
CHECK_DEADLOCK FALSE
