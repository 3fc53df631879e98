SPECIFICATION Spec
CONSTANTS
    cli = cli
    dashboard = dashboard
    t1 = t1
    t2 = t2
    t3 = t3
    Torn = Torn
    NoThread = NoThread
    Procs <- MCProcs
    Threads <- MCThreads
    ProcOf <- MCProcOf
    Faults <- AllFaults
    MaxAppends = 4
INVARIANTS
    LinksBack
    AckedOnDisk
    SoleWriterVerifies
PROPERTY
    VerifiedPrefixKept
\* A torn line keeps every later process from starting.
CHECK_DEADLOCK FALSE
