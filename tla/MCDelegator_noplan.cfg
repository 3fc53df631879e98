SPECIFICATION Spec
CONSTANTS
    t1 = t1
    t2 = t2
    NoRow = NoRow
    Texts <- MCTexts
    Registered <- WithoutAuditor
    MaxHits = 2
    MaxForties = 8
    MaxMarkers = 11
    HasClaude = TRUE
    HasLocal = FALSE
    Tasks <- OneTask
    Faults <- PlanFaults
INVARIANT
    OutcomePersisted
\* Every delegate ends.
CHECK_DEADLOCK FALSE
