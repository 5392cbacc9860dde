SPECIFICATION FairSpec
CONSTANTS
    Ids = {a1}
    Envs = {e1}
    NoFile = NoFile
    Bad = Bad
    IOFaults = {"request", "emit", "receipt", "rename", "qrecord", "tombstone", "marker", "unlink"}
    MaxCrashes = 3
    MaxFaults = 2
    MaxRot = 1
INVARIANT WorkLeavesEvidence
PROPERTY ServiceProgress
CHECK_DEADLOCK FALSE
