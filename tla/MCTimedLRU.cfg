SPECIFICATION Spec
CONSTANTS
    t1 = t1
    t2 = t2
    k1 = k1
    k2 = k2
    k3 = k3
    k4 = k4
    Thread <- MCThread
    Key    <- MCKey
    Head0  = head
    Tail0  = tail
    Null   = null
    Capacity = 6
    Timeout  = 0
    MaxTime  = 2
    MaxSize  = 7
SYMMETRY Symmetric
INVARIANTS
    IntactUnlessHazard
    StuckOnlyByHazard
    AtMostHalf
PROPERTIES
    NeverRefills
\* the model stops when the clock and the size have reached their bounds
CHECK_DEADLOCK FALSE
