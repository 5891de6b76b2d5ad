\* One client that reconnects: two Main and two reverse connections, under the fairness of the server's threads.
CONSTANTS
    c1 = c1
    c2 = c2
    NoClient = NoClient
    Clients <- OneClient
    Frames <- AllFrames
    MaxMains = 2
    MaxReverses = 2
    MaxTokens = 2
    MaxInputs = 3
SPECIFICATION FairSpec
INVARIANTS TypeOK ActiveRouteComplete OneFocusSession
PROPERTIES OnlyRegisteredReaderActs ActivationShown TerminalEndShown
CHECK_DEADLOCK FALSE
