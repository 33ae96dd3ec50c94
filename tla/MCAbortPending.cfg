\* One job whose runs may be aborted before they start, as abort promises.
SPECIFICATION Spec
CONSTANTS
    Jobs = {j1}
    MaxAttempts = 2
    AbortStatuses = {"pending", "running"}
INVARIANT SucceededCanBeValidated
CHECK_DEADLOCK FALSE
