SPECIFICATION Spec
CONSTANTS
    None = none
    none = none
    Manifest <- MCManifest
    Playbooks <- MCPlaybooks
    Candidate <- MCCandidate
    Controls <- MCControls
    Day = 1
    Graph = "graph"
    ClientId <- MCClientId
    Client = "x"
    Runtime <- MCRuntime
    Consumers <- MCConsumers
    Ambient = {"openid"}
    Documents <- MCDocuments
    Tenant = "t"
    Records <- MCRecords
    Tenants <- MCTenants
    MaxPages = 2
    MaxRecords = 3
    MaxOwners = 1
    MaxCatalogs = 1
    MaxTime = 2
    MaxChanges = 1
PROPERTIES
    CompleteMeansEverythingRead
    ReportUnderPolicyInForce
    ExceptionsInForce
    AlignedTenantIsClean
    ReadyWorkloadIsClean
    PartialIsNeverComplete
