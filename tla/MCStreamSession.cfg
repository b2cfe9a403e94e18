CONSTANTS
    None = None
    LostTtl = 2
    LostHold = 1
    MinHits = 2
    MinAge = 1
    MaxTime = 4
    MaxFrameId = 0
    MaxNew = 2
    MaxTrackId = 3
    Areas = {4, 5}
    Certainties = {1, 2}
    AreaRatio = 125
    SwitchConfirm = 2
SPECIFICATION RivalSpec
PROPERTIES AttentionAsPromised SwitchesInTime
CHECK_DEADLOCK FALSE
