SPECIFICATION Spec
CONSTANTS
    MaxNum = 2
    Tasks = 2
    MaxQueue = 4
INVARIANTS
    JoinWaits
\* the main program ends
CHECK_DEADLOCK FALSE
