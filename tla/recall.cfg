SPECIFICATION SettingSpec
CONSTANTS
    h1 = h1
    h2 = h2
    Handlers <- TwoHandlers
    MaxDeliveries = 3
    InOrder = FALSE
    MayCrash = TRUE
    MayLoseReplies = FALSE
    FetchOutcomes <- AllOutcomes
INVARIANTS
    TypeOK
    CreditAtMostOnce
    ChargedRoundStarted
    
    OrderlyOnce
PROPERTIES
    OrderlyRoundCompletes
CHECK_DEADLOCK FALSE
