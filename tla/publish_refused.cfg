SPECIFICATION PublishSpec
CONSTANTS
    Plans <- OnePlan
    FirstFree = 10
    MaxFresh = 11
    MaxItems = 3
    NoScreening = NoScreening
    MaxPlanRounds = 2
    MaxPosts = 2
INVARIANTS
    RefusedKeepsRounds
CHECK_DEADLOCK FALSE
