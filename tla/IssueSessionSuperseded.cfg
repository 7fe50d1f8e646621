\* next meets the session of a superseded intent with somebody's input in it.
SPECIFICATION Spec
CONSTANTS
    a1 = a1
    a2 = a2
    Txn = {a1, a2}
SYMMETRY Symmetric
INVARIANTS
    GoesOn
