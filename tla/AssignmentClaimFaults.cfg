\* People delete comments, operators rotate identities, recover and reroute.
SPECIFICATION Spec
CONSTANTS
    i1 = i1
    i2 = i2
    r1 = r1
    r2 = r2
    Inst = {i1, i2}
    LocalInst = {i1}
    Receipt = {r1, r2}
    NoReceipt = NoReceipt
    MaxRotations = 1
    MayTamper = TRUE
CHECK_DEADLOCK FALSE
INVARIANTS
    NoTakeover
    LocalUnclaimed
PROPERTY
    ImplementsAttempts
