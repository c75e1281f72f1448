SPECIFICATION FairSpec
CONSTANTS
    MaxNum = 3
    Tasks = 4
    MaxQueue = 4
INVARIANTS
    OnePlace
    ClosedMeansDone
PROPERTIES
    CloseStops
    TerminateReturns
\* the main program ends
CHECK_DEADLOCK FALSE
