SPECIFICATION Spec
CONSTANTS
    cli = cli
    dashboard = dashboard
    t1 = t1
    t2 = t2
    t3 = t3
    Torn = Torn
    NoThread = NoThread
    Procs <- MCProcs
    Threads <- MCThreads
    ProcOf <- MCProcOf
    Faults <- NoFaults
    MaxAppends = 2
INVARIANT
    ChainValid
CHECK_DEADLOCK FALSE
