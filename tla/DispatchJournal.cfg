\* Two transactions on one record, with a reset: every save is one of JournalSpec's.
SPECIFICATION Spec
CONSTANTS
    a1 = a1
    a2 = a2
    x1 = x1
    x2 = x2
    s1 = s1
    Txn = {a1, a2}
    NoTxn = NoTxn
    Id = {x1}
    Issue = {s1}
    IssueOf <- MCIssueOf
    Note = {0, 1}
    FirstNote = 0
    MaxGen = 1
SYMMETRY Symmetric
INVARIANTS
    TypeOK
    NoStaleAdmission
    ArchivedFirst
PROPERTIES
    ImplementsJournal
    SessionKept
