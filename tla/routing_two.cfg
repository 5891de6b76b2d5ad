\* Two clients, one connection each, four inputs: who owns the route.
CONSTANTS
    c1 = c1
    c2 = c2
    NoClient = NoClient
    Clients <- TwoClients
    Frames <- RouteFrames
    MaxMains = 1
    MaxReverses = 1
    MaxTokens = 1
    MaxInputs = 4
SPECIFICATION Spec
SYMMETRY ClientSymmetry
INVARIANTS ReplyFromOwnKeys SettledState
PROPERTIES ImplementsLease
CHECK_DEADLOCK FALSE
