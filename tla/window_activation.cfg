\* Two clients, five changes of the route while the windows are created.
CONSTANTS
    c1 = c1
    c2 = c2
    NoClient = NoClient
    Clients <- TwoClients
    MaxMoves = 5
SPECIFICATION FairSpec
INVARIANTS TypeOK ActivationKept
PROPERTIES ActivationReachesToolbar
CHECK_DEADLOCK FALSE
