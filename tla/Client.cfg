CONSTANTS
    Setups <- AllSetups
    MaxLine = 2
    Capacity = 1
    MaxRetries = 1
SPECIFICATION FairSpec
INVARIANTS InOrder
PROPERTIES PostedInOrder ShutDownEnds
CHECK_DEADLOCK FALSE
