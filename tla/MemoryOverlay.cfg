CONSTANTS
    Tracks = {1}
    MaxFrames = 3
    MaxGens = 2
    MaxTime = 2
    Ttl = 1
SPECIFICATION Spec
INVARIANTS PendingIsHonest IdentifyNamesTheCurrent
PROPERTIES PendingEnds StaleNamesFade
CHECK_DEADLOCK FALSE
