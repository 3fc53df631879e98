SPECIFICATION PipelineSpec
CONSTANTS
    t1 = t1
    t2 = t2
    Threads <- MCThreads
    Capacity = 1
    Rate = 1
    Costs <- MCCosts
    MaxBuckets = 2
    MaxTime = 3
    Calls <- MCCalls
    LimitedCall <- MCLimitedCall
    Today = 10
    MaxAge = 7
    Tokens <- MCTokens
SYMMETRY MCSymmetry
INVARIANTS
    MoreEffectsNeverHelp
    RateBound
    RunsAreOnRecord
    OneVerdict
    OffensiveIsConfirmed
    RefusedTaskStops
