SPECIFICATION PublishSpec
CONSTANTS
    Plans <- OnePlan
    FirstFree = 10
    MaxFresh = 10
    MaxItems = 3
    NoScreening = NoScreening
    MaxPlanRounds = 2
    MaxPosts = 2
INVARIANTS
    RepublishIsIdempotent
CHECK_DEADLOCK FALSE
