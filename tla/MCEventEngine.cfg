CONSTANTS
    None = None
    LostTtl = 2
    LostHold = 1
    MinHits = 1
    MinAge = 0
    MaxTime = 4
    MaxFrameId = 0
    MaxNew = 1
    MaxTrackId = 2
    Conditions = {"stopped", "waving"}
    MotionEvents = {"stopped"}
    Cooldown = 2
    AliasWindow = 1
    LeftLost = 1
    MotionSpan = 1
    MaxStep = 2
SPECIFICATION MCSpec
INVARIANTS KnowsEverybody NoMotionFromTheHead
PROPERTY ToldOnce
CHECK_DEADLOCK FALSE
