SPECIFICATION Spec
CONSTANTS
    h1 = h1
    h2 = h2
    Handlers <- OneHandler
    MaxDeliveries = 2
    InOrder = FALSE
    MayCrash = FALSE
    MayLoseReplies = FALSE
    FetchOutcomes <- AllOutcomes
PROPERTIES
    RoundStaysCompleted
CHECK_DEADLOCK FALSE
