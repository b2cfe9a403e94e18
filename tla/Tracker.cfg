CONSTANTS
    None = None
    LostTtl = 1
    MinHits = 2
    MaxTime = 3
    MaxFrameId = 1
    MaxNew = 2
    MaxTrackId = 2
    MaxCandidates = 2
    Confidences = {1, 2, 3}
    HighConf = 2
    NewTrackConf = 3
    Overlaps = {0, 1, 2}
    MatchIou = 1
SPECIFICATION TrackerSpec
PROPERTIES NobodyIsBetterOff TracksAsPromised
CHECK_DEADLOCK FALSE
