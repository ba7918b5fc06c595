SPECIFICATION Spec
CONSTANTS
    None = none
    none = none
    user = user
    emergency = emergency
    Manifest <- MCManifest
    Playbooks <- MCPlaybooks
    Candidate <- MCCandidate
    Controls <- MCControls
    Documents <- MCDocuments
    Registries <- MCRegistries
    Tenant = "t"
    Local = {user, emergency}
    Day = 3
    MaxTime = 3
    PlanLife = 2
INVARIANTS
    EffectsOnlyFromWriteProfiles
    NoDowngrade
    TwoGroupsForT3
CHECK_DEADLOCK FALSE
