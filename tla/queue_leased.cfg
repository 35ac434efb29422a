SPECIFICATION Spec
CONSTANTS
    e1 = e1
    e2 = e2
    poller = poller
    forcer = forcer
    None = None
    Events <- TwoRows
    Pollers <- ThePoller
    Forcers <- TheForcer
    Scope <- OrgScope
    MaxAttempts = 2
    BatchSize = 2
    ForceMaxRows = 2
    MaxTouch = 2
    SlowWorkers = FALSE
    Reconcilable <- TwoRows
    RpcArgument = "query"
INVARIANTS
    LeaseExclusive
    
    ReEditClean
