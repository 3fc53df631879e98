SPECIFICATION Spec
CONSTANTS
    Roles <- MCRoles
    Askable <- MCAskable
    MaxTurns = 1
    MaxSockets = 1
    Faults <- Disconnects
INVARIANT EveryTurnPersisted
CHECK_DEADLOCK FALSE
