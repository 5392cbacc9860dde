CONSTANTS
    None = None
    Outside = Outside
    Unsafe = Unsafe
    e1 = e1
    e2 = e2
    w1 = w1
    w2 = w2
    Enforcers = {e1, e2}
    Wipers = {w1, w2}
    Disturbed = {e1}
    Setups <- MCSetups
    Requests <- MCRequests
    Places = {Outside}
    Boot = 1
    MaxTime = 3
SPECIFICATION Spec
SYMMETRY Symmetry
INVARIANT AllowedInv
INVARIANT EgressWithinLimit
INVARIANT PublicationBacked
INVARIANT WipeInv
CHECK_DEADLOCK FALSE
