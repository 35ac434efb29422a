SPECIFICATION EditorsSpec
CONSTANTS
    Plans <- TwoPlans
    FirstFree = 10
    MaxFresh = 12
    MaxItems = 3
    NoScreening = NoScreening
    MaxPlanRounds = 2
    MaxPosts = 2
    FirstRounds = 2
    MaxRounds = 4
    MaxEdits = 1
    MaxInFlight = 1
    MaxHandlers = 3
    Fetches = {1, 2}
    NoRow = NoRow
    MaxLoads = 6
    NoData = NoData
    MaxPages = 2
    MaxSaves = 2
    MaxTyped = 2
    MaxCauses = 2
    Roles = {1, 2}
    MaxPackets = 2
    MaxCards = 1
    Slots = {1, 2}
    MaxStarts = 2
INVARIANTS
    EditorsTypeOK
    DraftNumbered
    DraftOfSession
    
    QuietListsAgree
    OneWorkerAtATime
    RunsAreAskedFor
    QuietViewIsStored
    
    ExecutedOnce
    
PROPERTIES
    DraftHistory
    SaveAllKeepsRounds
    SelectionFollows
    ShownNeverOlder
    TypingKept
CHECK_DEADLOCK FALSE
