\* Two slots, two batches of one model and one of the other, a table of one
\* result, two callers on their way to notify.
CONSTANTS
    speed = speed  effect = effect
    a1 = a1  a2 = a2  b1 = b1
    s1 = s1  s2 = s2
    NoKey = NoKey
    Models <- TwoModels
    Keys <- ThreeKeys
    ModelOf <- KeyModels
    Slots <- TwoSlots
    MaxResults = 1
    MaxCallers = 2
SPECIFICATION SmoothSpec
INVARIANT RelianceSound
CHECK_DEADLOCK FALSE
