SPECIFICATION FairSpec
CONSTANTS
    t1 = t1
    t2 = t2
    NoRow = NoRow
    Texts <- MCTexts
    Registered <- WithoutAuditor
    MaxHits = 2
    MaxForties = 8
    MaxMarkers = 11
    HasClaude = TRUE
    HasLocal = TRUE
    Tasks <- MCTasks
    Faults <- AllFaults
INVARIANTS
    AnnouncedIsRecorded
    AuditedIsStored
    AssignedFirst
    RunningIsShown
    MostSensitiveWins
    EscalationIsEarned
PROPERTIES
    LifecycleSpec
    AssignedEnds
\* Every delegate ends.
CHECK_DEADLOCK FALSE
