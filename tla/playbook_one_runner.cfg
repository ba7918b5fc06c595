SPECIFICATION FairSpec
CONSTANTS
    Runners = {r1}
    Nodes <- ThreeNodes
    DependsOn <- Join
    Contexts = {d1, d2}
    MaxCrashes = 2
    None = None
INVARIANTS
    NodeStartsOnce
    UncertaintyHalts
PROPERTY RunHalts
