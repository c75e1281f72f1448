SPECIFICATION LockFairSpec
CONSTANTS
    t1 = t1
    t2 = t2
    t3 = t3
    Proc <- MCProc
    Bit  <- MCBit
INVARIANTS
    MutualExclusion
    CountExact
    StuckOnlyByLeak
PROPERTIES
    NoOvertaking
    OnlyTryWriteLeaks
    PendingWriterCompletes
\* a failed TryWrite leaves w_ set: every writer may end up spinning on it
CHECK_DEADLOCK FALSE
