\* Six events through a queue of two, two callbacks, one outage or flip.
SPECIFICATION Spec
CONSTANTS
    b1 = b1
    b2 = b2
    Callbacks <- TwoCallbacks
    Capacity = 2
    MaxCounter = 6
    MaxEvents = 6
    MaxOutages = 1
INVARIANTS TypeOK OneFlush ModuleHeld QueueAttended Balanced InOrder
CHECK_DEADLOCK FALSE
