SPECIFICATION Spec
CONSTANTS
    c1 = c1
    c2 = c2
    q1 = q1
    q2 = q2
    Callers <- TwoCallers
    Forced <- TwoCallers
    MaxCalls = 2
    Questions <- OneQuestion
    Outputs <- Complete
    Serialised = FALSE
    Faults <- NoFaults
INVARIANTS
    AnswersConverge
CHECK_DEADLOCK FALSE
