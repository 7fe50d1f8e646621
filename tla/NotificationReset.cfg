\* One reset upset twice, by lost answers, dying runs or a synchronization by the operator.
SPECIFICATION Spec
CONSTANTS
    MaxKey = 2
    MaxOps = 1
    MaxUpsets = 2
    MaxSyncs = 1
    Settings <- FoundSettings
INVARIANTS
    TypeOK
    ActionsOnce
    WholeWhenOver
PROPERTIES
    CutsNothingOff
    Ends
