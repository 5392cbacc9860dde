SPECIFICATION Spec
CONSTANTS
    Runs = {r1, r2}
    Operators = {o1}
    None = None
    Sentinel = Sentinel
    Faults = {}
    MaxFaults = 0
    MaxChunks = 0
    MaxStops = 1
INVARIANT OneMicroVM
CHECK_DEADLOCK FALSE
