SPECIFICATION FairSpec
CONSTANTS
    Runs = {r1}
    Operators = {o1}
    None = None
    Sentinel = Sentinel
    Faults = {"emit", "bclose", "kill", "xrevoke", "xwipe"}
    MaxFaults = 2
    MaxChunks = 2
    MaxStops = 1
INVARIANT CallbackInv
INVARIANT FailuresStillCleanUp
PROPERTY RunsEnd
CHECK_DEADLOCK FALSE
