SPECIFICATION PagesSpec
CONSTANTS
    MaxLoads = 4
    NoData = NoData
    MaxPages = 1
    MaxSaves = 2
    MaxTyped = 1
    Fetches = {1, 2}
    NoRow = NoRow
    MaxCauses = 1
    Roles = {1, 2}
    MaxPackets = 2
    MaxCards = 1
    Slots = {1, 2}
    MaxStarts = 2
PROPERTIES
    PageSettles
    CanvasCatchesUp
    
    AnalyzingEnds
CHECK_DEADLOCK FALSE
