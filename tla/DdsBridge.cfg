CONSTANTS
    MaxCamera = 2
    MaxTargets = 2
    PipeRoom = 1
SPECIFICATION Spec
INVARIANT OnlyNewer
PROPERTIES FailuresAreTold NewestIsPublished NothingIsLeft
CHECK_DEADLOCK FALSE
