\* Two transactions on one issue: one session, one submission of each turn, nothing claimed unseen.
SPECIFICATION Spec
CONSTANTS
    a1 = a1
    a2 = a2
    Txn = {a1, a2}
SYMMETRY Symmetric
INVARIANTS
    TypeOK
    Turnwise
    Custody
PROPERTIES
    ProgressKept
    ImplementsAttempts
