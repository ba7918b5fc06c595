SPECIFICATION SecretsSpec
CONSTANTS
    Processes = {p1, p2}
    operator = operator
    colleague = colleague
    guest = guest
    Accounts <- MCAccounts
    Policies <- MCPolicies
    MaxRecords = 2
    MaxRevocations = 2
    None = None
SYMMETRY Symmetry
INVARIANTS
    SettledRecordsReadable
    RequestsAsPrincipal
CHECK_DEADLOCK FALSE
