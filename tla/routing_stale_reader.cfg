CONSTANTS
    c1 = c1
    c2 = c2
    NoClient = NoClient
    Clients <- OneClient
    Frames <- PageFrames
    MaxMains = 2
    MaxReverses = 1
    MaxTokens = 2
    MaxInputs = 4
SPECIFICATION Spec
INVARIANT PageFromOwnKeys
CHECK_DEADLOCK FALSE
