SPECIFICATION Spec
CONSTANTS
    t1 = t1
    t2 = t2
    t3 = t3
    k1 = k1
    k2 = k2
    k3 = k3
    Thread <- MCThread
    Key    <- MCKey
    NoKey  = nokey
    Capacity = 2
    MaxQueue = 7
SYMMETRY Symmetric
INVARIANTS
    CountExact
PROPERTIES
    IsLRU
\* the model stops when MaxQueue is reached
CHECK_DEADLOCK FALSE
