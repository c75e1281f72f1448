SPECIFICATION FairSpec
CONSTANTS
    Caller = {c1, c2}
    MaxNum = 1
    MaxTasks = 3
    MaxProc = 3
    MaxCloses = 2
INVARIANTS
    FewTooMany
    JoinedMeansDone
    StaleResultOnlyFromPredict
PROPERTIES
    JoinComesBack
\* the pool ends when it is joined
CHECK_DEADLOCK FALSE
