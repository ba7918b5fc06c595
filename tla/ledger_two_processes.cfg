SPECIFICATION FairSpec
CONSTANTS
    Tasks = {t1, t2}
    ProcessOf <- TwoProcesses
    Keys = {k1}
    Payloads = {h1, h2}
    MaxRetries = 1
    MaxLosses = 1
    None = None
    t1 = t1
    t2 = t2
    server1 = server1
    server2 = server2
INVARIANTS
    AtMostOneCommit
    OneExecution
    RejectedMeansNoEffect
    SafeReceiptMeansNoEffect
PROPERTY PendingResolves
