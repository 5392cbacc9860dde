CONSTANTS
    MaxStarts = 3
    Watched = 1
    MaxTime = 5
    Second = 2
    Capacity = 6002
    Refill = 1000
    Cost = 3001
SPECIFICATION Spec
INVARIANT OwnershipInv
INVARIANT RateIsKept
PROPERTY CallsSettle
CHECK_DEADLOCK FALSE
