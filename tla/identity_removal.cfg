SPECIFICATION Spec
CONSTANTS
    Operations = {"membership.remove"}
    MaxRetries = 1
    MaxChanges = 0
    Nothing = Nothing
INVARIANTS
    UncertainResponseBlocksRetry
CHECK_DEADLOCK FALSE
