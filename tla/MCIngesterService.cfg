\* Two workers and two jobs, one fault of any kind at any point.
INIT Init
NEXT Next
CONSTANTS
    Jobs = {j1, j2}
    Workers = {w1, w2}
    MaxAttempts = 1
    AbortStatuses = {}
    FaultKinds = {"crash", "error", "drop", "signal"}
    MaxFaults = 1
SYMMETRY ServiceSymmetry
INVARIANTS
    TypeOK
    NoRunExecutedTwice
    BodyMatchesRun
    WakeUpInHand
    OneFaultStrandsOneJob
CHECK_DEADLOCK FALSE
