SPECIFICATION Spec
CONSTANTS
    e1 = e1
    e2 = e2
    poller = poller
    forcer = forcer
    None = None
    Events <- OneRow
    Pollers <- ThePoller
    Forcers <- NoForcers
    Scope <- AllRows
    MaxAttempts = 2
    BatchSize = 2
    ForceMaxRows = 3
    MaxTouch = 3
    SlowWorkers = FALSE
    Reconcilable <- OneRow
    RpcArgument = "query"
INVARIANTS
    DoneRowIsClean
CHECK_DEADLOCK FALSE
