SPECIFICATION FairSpec
CONSTANTS
    Runners = {r1}
    Operations = {o1, o2}
    Plans = {p1}
    Approvals = {a1, a2, a3}
    ApprovedPlan <- DualApprovedPlan
    SignedBy <- DualSignedBy
    GrantUntil <- DualGrantUntil
    RequiredCount <- DualCount
    NotBefore = 0
    Expires = 2
    ObservationTimeout = 2
    MaxPolls = 2
    AsyncAllowed = TRUE
    SupportsCancellation = TRUE
    MaxTime = 2
    MaxCrashes = 2
    None = None
    p1 = p1
    p2 = p2
    a1 = a1
    a2 = a2
    a3 = a3
    bob = bob
    carol = carol
INVARIANTS
    AtMostOneEffect
    PollsLostOnlyToCrashes
PROPERTY SentConcludes
