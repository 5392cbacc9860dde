SPECIFICATION Spec
CONSTANTS
    c1 = c1
    c2 = c2
    b1 = b1
    b2 = b2
    b3 = b3
    NameOf <- MCNameOf
    HomeOf <- MCHomeOf
    Calls = {c1, c2}
    Bridges = {b1, b2, b3}
    unit = unit
    script = script
    bare = bare
    Seats = {unit, script, bare}
    Template <- MCTemplate
    None = None
    MaxRuns = 2
    MaxFaults = 1
INVARIANT LockInv
INVARIANT VerdictsAreTrue
INVARIANT ServingIsStoppable
CHECK_DEADLOCK FALSE
