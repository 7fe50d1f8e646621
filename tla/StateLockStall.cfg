\* A live holder may be held up until its lease is taken over.
SPECIFICATION Spec
CONSTANTS
    t1 = t1
    t2 = t2
    t3 = t3
    t4 = t4
    p1 = p1
    p2 = p2
    Task = {t1, t2, t3, t4}
    Process = {p1, p2}
    ProcOf <- MCProcOfStall
    Queued = {t1, t2, t3}
    NoWait = {}
    MayStall = TRUE
    NoTask = NoTask
SYMMETRY Symmetric
INVARIANTS
    LocalExclusion
    HeadAwake
