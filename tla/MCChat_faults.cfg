SPECIFICATION FairSpec
CONSTANTS
    Roles <- MCRoles
    Askable <- MCAskable
    MaxTurns = 2
    MaxSockets = 2
    Faults <- EveryFault
INVARIANTS
    ShownIsRecorded
    TurnsInOrder
    FreeIsQuiet
PROPERTY TurnEnds
CHECK_DEADLOCK FALSE
