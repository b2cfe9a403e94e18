CONSTANTS
    Teachers = {t1, t2}
    Identifiers = {i1}
    MaxQueries = 2
    QueueSize = 2
    Slots = 1
    Yields = {0, 2}
    TwoCrops = {t1}
SPECIFICATION Spec
INVARIANTS Bounded EventsKept StoreOutlives
PROPERTY CloseEnds
CHECK_DEADLOCK FALSE
