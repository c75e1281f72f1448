SPECIFICATION Spec
CONSTANTS
    Numbers = {0, 3, 12, 21}
    MaxLength = 5
    MaxValue = 4
    MaxLists = 3
    Weights = {1, 2, 5}
    INF = 20
    Block = 8
    Word = 512
    WordBytes = 2
    MaxMessage = 70
INVARIANT
    Sha1Pads
\* the input is picked once
CHECK_DEADLOCK FALSE
