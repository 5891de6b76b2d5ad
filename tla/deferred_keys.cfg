SPECIFICATION FairSpec
CONSTANTS
    c1 = c1
    c2 = c2
    c3 = c3
    Contexts = {c1, c2, c3}
    DocOf <- MCDocOf
    MaxQueue = 2
    MaxKeys = 2
    MaxTroubles = 2
    NoCtx = NoCtx
INVARIANTS TypeOK GateAttended FlightCarried ProjectionRetired NoOvertaking SessionOwnsComposition
CHECK_DEADLOCK FALSE
PROPERTY KeysSettle
