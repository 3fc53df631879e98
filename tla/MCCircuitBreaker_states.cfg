SPECIFICATION FairSpec
CONSTANTS
    c1 = c1
    c2 = c2
    c3 = c3
    Callers <- MCCallers
    Threshold = 2
    Recovery = 2
    MaxFailures = 3
INVARIANT
    StateMatchesCount
PROPERTIES
    Recovers
