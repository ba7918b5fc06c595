SPECIFICATION Spec
CONSTANTS
    Operations = {"sessions.revoke", "account.enable", "account.disable", "membership.add", "membership.remove", "license.assign", "license.remove"}
    MaxRetries = 1
    MaxChanges = 2
    Nothing = Nothing
INVARIANTS
    NotSentMeansNoEffect
    VerifiedWasThere
    OneEffectPerExecution
    EffectOnApprovedState
CHECK_DEADLOCK FALSE
