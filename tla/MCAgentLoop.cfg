CONSTANTS
    Batches <- MCBatches
    ParallelToolCalls = TRUE
    MaxSteps = 3
    MaxEmptyTurns = 2
    MayTruncate = TRUE
SPECIFICATION ThreadSpec
INVARIANTS
    RequestsValid
    OnlyQuestionsDangle
    OutputsKept
    AtMostOneMoreStep
PROPERTIES
    CancelStops
CHECK_DEADLOCK FALSE
