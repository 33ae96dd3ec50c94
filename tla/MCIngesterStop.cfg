\* One worker, one job, and a SIGTERM while the job is processed.
SPECIFICATION Spec
CONSTANTS
    Jobs = {j1}
    Workers = {w1}
    MaxAttempts = 1
    AbortStatuses = {}
    FaultKinds = {"signal"}
    MaxFaults = 1
PROPERTY StopsWhenAsked
CHECK_DEADLOCK FALSE
