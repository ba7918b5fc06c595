SPECIFICATION Spec
CONSTANTS
    Items = {i1, i2, i3}
    Limit = 2
    MaxRetries = 1
    MaxChanges = 2
    None = None
SYMMETRY ItemSymmetry
CHECK_DEADLOCK FALSE
INVARIANTS
    NoLostUpdate
    ChecklistWithinLimit
    SuccessWasTrue
PROPERTIES
    OperationOfLedger
