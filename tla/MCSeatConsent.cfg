SPECIFICATION Spec
CONSTANTS
    Calls = {c1, c2}
    HostIds = {h1}
    SeatIds = {s1, s2}
    Addresses = {a1}
    PrefixOf = {}
    BareOf = {}
    Seats = {f1, f2}
    Scripts = {f2}
    Keys = {k1, k2}
    Effectives = {e1}
    None = None
    Workloads <- MCWorkloads
    MaxRevision = 3
    MaxTokens = 2
    MaxDrifts = 1
SYMMETRY Symmetry
INVARIANT ConsentInv
INVARIANT OperatesAsShown
INVARIANT ForceStopOncePerChallenge
