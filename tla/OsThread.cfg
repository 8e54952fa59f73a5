SPECIFICATION FairSpec
CONSTANTS
    MaxStarts = 3
    Uses = {"complete", "kill", "destroy", "auto_delete"}
INVARIANTS
    TypeOK
    StopIsSafe
PROPERTIES
    StopReturns
CHECK_DEADLOCK FALSE
