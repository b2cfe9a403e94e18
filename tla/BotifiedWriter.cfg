CONSTANTS
    Frames = {f1, f2, f3}
    MaxQueue = 2
    MaxOffers = 5
SPECIFICATION FairSpec
INVARIANTS QueueInv Delivered
PROPERTY QueueDrains
CHECK_DEADLOCK FALSE
