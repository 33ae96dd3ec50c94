\* One job, two workers, two transcriptions, one fault of any kind.
SPECIFICATION Spec
CONSTANTS
    Jobs = {j1}
    Workers = {w1, w2}
    MaxAttempts = 2
    AbortStatuses = {"running"}
    FaultKinds = {"crash", "error", "drop", "signal"}
    MaxFaults = 1
PROPERTIES
    PendingIsClaimed
    RecoveredAtStartup
    ValidatedIsSettled
CHECK_DEADLOCK FALSE
