\* Native passes keep coming, and every call that can go on does so in the end.
SPECIFICATION Spec
CONSTANTS
    i1 = i1
    i2 = i2
    r1 = r1
    r2 = r2
    Inst = {i1, i2}
    LocalInst = {}
    Receipt = {r1}
    NoReceipt = NoReceipt
    MaxRotations = 0
    MayTamper = FALSE
CHECK_DEADLOCK FALSE
INVARIANTS
    TypeOK
    AtMostOneOwner
    OwnerKept
PROPERTY
    ElectionDecides
