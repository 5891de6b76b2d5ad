\* An English word, a wubi code and a pinyin: four operations, one fault.
CONSTANTS
    e1 = e1
    w1 = w1
    w2 = w2
    p1 = p1
    English <- OneEnglish
    Wubi <- TwoWubi
    Pinyin <- OnePinyin
    Shipped = {w1, w2, p1}
    MaxOps = 4
    MaxFaults = 1
SPECIFICATION FairSpec
INVARIANTS TypeOK BoostJournaled UpgradeKeeps CheckedStaysRemoved
PROPERTY OperationsEnd
CHECK_DEADLOCK FALSE
