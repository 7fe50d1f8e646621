\* Two transactions admit two records for the same issue.
SPECIFICATION Spec
CONSTANTS
    a1 = a1
    a2 = a2
    x1 = x1
    x2 = x2
    s1 = s1
    Txn = {a1, a2}
    NoTxn = NoTxn
    Id = {x1, x2}
    Issue = {s1}
    IssueOf <- MCIssueOf
    Note = {0}
    FirstNote = 0
    MaxGen = 0
SYMMETRY Symmetric
INVARIANTS
    OneActive
