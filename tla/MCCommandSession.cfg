SPECIFICATION SessionSpec
CONSTANTS
    Sessions = {s1}
    Verifiers = {v1, v2}
    Loops = {l1, l2}
    None = None
    Malformed = Malformed
    MaxCommands = 2
    MaxNonce = 2
    MaxGen = 2
    MaxWire = 3
SYMMETRY Symmetry
INVARIANT NoncesIncrease
INVARIANT HistoryWithinBudget
INVARIANT AppliedOnce
INVARIANT NoneAfterRevocation
CHECK_DEADLOCK FALSE
