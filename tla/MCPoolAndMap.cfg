SPECIFICATION PartSpec
CONSTANTS
    s1 = s1
    s2 = s2
    N = 2
    Index = 0
    Submitter <- MCSubmitter
    Load = 2
    t1 = t1
    t2 = t2
    k1 = k1
    k2 = k2
    k3 = k3
    n1 = n1
    n2 = n2
    n3 = n3
    b1 = b1
    b2 = b2
    PoolEnd = poolEnd
    Null = null
    Thread <- MCThread
    Key    <- MCKey
    Node   <- MCNode
    Bucket <- MCBucket
    Hash   <- MCHash
INVARIANTS
    Accounted
    DrainedMeansExecuted
    PopNeverEmpty
    BucketsIntact
PROPERTIES
    EveryTaskRuns
    HangsOnlyOnLostWakeup
    CallsReturn
    IsKeySet
\* the owner of the pool ends, and with it the program; no call of the map
\* begins after its pool of nodes has run empty, a bound of the model
CHECK_DEADLOCK FALSE
