\* Leases are refreshed in time: exclusion over two processes.
SPECIFICATION Spec
CONSTANTS
    t1 = t1
    t2 = t2
    t3 = t3
    t4 = t4
    p1 = p1
    p2 = p2
    Task = {t1, t2, t3}
    Process = {p1, p2}
    ProcOf <- MCProcOf
    Queued = {t1, t2, t3}
    NoWait = {t2}
    MayStall = FALSE
    NoTask = NoTask
INVARIANTS
    TypeOK
    MutualExclusion
    NoLostUpdate
PROPERTY
    WaitsEnd
