\* Codes of two letters, seven letters typed.
CONSTANTS
    CodeLength = 2
    MaxLetters = 7
SPECIFICATION Spec
INVARIANTS TypeOK HidesAccounted EndsAgree
PROPERTIES RemainderKept
CHECK_DEADLOCK FALSE
