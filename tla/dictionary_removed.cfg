\* One pinyin word: a pick is ranked after the word was removed.
CONSTANTS
    e1 = e1
    w1 = w1
    w2 = w2
    p1 = p1
    English <- NoWords
    Wubi <- OneWubi
    Pinyin <- OnePinyin
    Shipped = {w1, p1}
    MaxOps = 3
    MaxFaults = 0
SPECIFICATION Spec
INVARIANT RemovedStaysRemoved
CHECK_DEADLOCK FALSE
