SPECIFICATION FairSpec
CONSTANTS
    e1 = e1
    e2 = e2
    poller = poller
    forcer = forcer
    None = None
    Events <- OneRow
    Pollers <- ThePoller
    Forcers <- TheForcer
    Scope <- AllRows
    MaxAttempts = 2
    BatchSize = 2
    ForceMaxRows = 3
    MaxTouch = 2
    SlowWorkers = TRUE
    Reconcilable <- OneRow
    RpcArgument = "query_text"
INVARIANTS
    TypeOK
    NoLostEdit
    FreshBudget
PROPERTIES
    LedgerSpec
    EveryTouchSettles
    ParkedIsRevived
