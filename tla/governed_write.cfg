SPECIFICATION Spec
CONSTANTS
    None = None
    k1 = k1
    k2 = k2
    p1 = p1
    p2 = p2
    Processes = {p1, p2}
    Keys <- TwoKeys
    Profiles <- ThreeProfiles
    Wanted <- WantsBoth
    Policies = {"standing", "explicit", "dual", "prohibited"}
    PlanTTL = 2
    GrantTTL = 1
    WindowEnd = 2
    MaxTime = 2
    MaxGrants = 1
    MaxChanges = 1
    MaxLosses = 1
SYMMETRY Symmetric
INVARIANTS
    GrantSpentOnce
    KeyTakesEffectOnce
    EffectAsApproved
    EffectOnPlannedTarget
    CapsuleRestores
    RetryableMeansNoEffect
CHECK_DEADLOCK FALSE
