SPECIFICATION DeployedSpec
CONSTANTS
    c1 = c1
    c2 = c2
    q1 = q1
    q2 = q2
    Callers <- TwoCallers
    Forced <- OneForced
    MaxCalls = 3
    Questions <- TwoQuestions
    Outputs <- Complete
    Serialised = TRUE
    Faults <- RaisesOnly
INVARIANTS
    TypeOK
    OneRunAtATime
    ContainerSettles
PROPERTIES
    AnswersNotLost
    ContainerReports
CHECK_DEADLOCK FALSE
