\* Two jobs, three attempts at each transcription, runs aborted while running.
SPECIFICATION Spec
CONSTANTS
    Jobs = {j1, j2}
    MaxAttempts = 3
    AbortStatuses = {"running"}
SYMMETRY JobSymmetry
INVARIANTS
    TypeOK
    HistoryExplainsStep
    ActiveRunIsCurrent
    GateIsHeld
    CompletedMeansProcessed
    SucceededCanBeValidated
PROPERTIES
    EndedRunsAreFinal
    StepAdvancesOnSuccess
\* Once every job is completed or deleted there is nothing left to do.
CHECK_DEADLOCK FALSE
