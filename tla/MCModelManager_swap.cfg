SPECIFICATION FairSpec
CONSTANTS
    c1 = c1
    c2 = c2
    c3 = c3
    m1 = m1
    m2 = m2
    NoModel = NoModel
    NoCaller = NoCaller
    Callers <- MCCallers
    Models <- MCModels
    MayFail <- Failures
INVARIANTS
    SwapsSerialised
    LoadedIsKnown
PROPERTIES
    SlotSpec
    CallersServed
