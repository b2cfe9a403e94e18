CONSTANTS
    TrackIds = {1, 2, 3}
    MaxAge = 1
    MaxClock = 3
    Pictures <- MCPictures
SPECIFICATION PointedSpec
INVARIANTS WellNamed BystandersOnlySpoil
PROPERTY TwoAreEnough
CHECK_DEADLOCK FALSE
