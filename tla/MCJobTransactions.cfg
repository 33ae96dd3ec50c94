\* One job (jobs share no row), three connections, two transcriptions.
SPECIFICATION Spec
CONSTANTS
    Jobs = {j1}
    MaxAttempts = 3
    AbortStatuses = {"running"}
    Clients = {c1, c2, c3}
    Nobody = nobody
INVARIANTS
    TypeOK
    ReadsStayTrue
PROPERTIES
    ImplementsJobLifecycle
    TransactionsEnd
CHECK_DEADLOCK FALSE
