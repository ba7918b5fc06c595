SPECIFICATION Spec
CONSTANTS
    Runners = {r1, r2}
    Operations = {o1}
    Plans = {p1}
    Approvals = {a1, a2}
    ApprovedPlan <- PairApprovedPlan
    SignedBy <- PairSignedBy
    GrantUntil <- PairGrantUntil
    RequiredCount <- DualCount
    NotBefore = 0
    Expires = 2
    ObservationTimeout = 2
    MaxPolls = 2
    AsyncAllowed = TRUE
    SupportsCancellation = TRUE
    MaxTime = 2
    MaxCrashes = 1
    None = None
    p1 = p1
    p2 = p2
    a1 = a1
    a2 = a2
    a3 = a3
    bob = bob
    carol = carol
SYMMETRY Symmetry
INVARIANTS
    AtMostOneEffect
    SafeToRetryMeansNoEffect
    EffectWasApproved
PROPERTY KeepsPromise
