CONSTANTS
    Catalogue <- MCCatalogue
    Contexts <- MCContexts
    MaxBatch = 2
    CoalesceWindow = 1
    SameKeyGap = 3
    Minute = 4
    MinuteLimit = 2
    Second = 2
    SecondLimit = 1
    MaxSeen = 3
    MaxTime = 5
SPECIFICATION Spec
INVARIANTS Limits SaidOnce
CHECK_DEADLOCK FALSE
