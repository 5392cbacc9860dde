SPECIFICATION Spec
CONSTANTS
    Ids = {a1, a2}
    Envs = {e1, e2}
    NoFile = NoFile
    Bad = Bad
    IOFaults = {"tombstone", "marker"}
    MaxCrashes = 2
    MaxFaults = 1
    MaxRot = 1
SYMMETRY Symmetry
INVARIANT TypeOK
INVARIANT NoDuplicateWork
INVARIANT IdentityInv
INVARIANT RecordsConsistent
PROPERTY NoWorkWhileAmbiguous
CHECK_DEADLOCK FALSE
