SPECIFICATION Spec
CONSTANTS
    c1 = c1
    c2 = c2
    n1 = n1
    n2 = n2
    i1 = i1
    i2 = i2
    Calls = {c1, c2}
    Runners = {n1, n2}
    RunIds = {i1, i2}
    Requests <- MCRequests
    Files = {1, 2}
    Trees <- MCTrees
    None = None
    MaxFiles = 2
    MaxFaults = 1
INVARIANT StoreInv
INVARIANT ReceiptInv
INVARIANT AuditTellsOutcome
INVARIANT CleanedWhenQuiet
PROPERTY ImplementsContract
CHECK_DEADLOCK FALSE
