SPECIFICATION Spec
CONSTANTS
    c1 = c1
    c2 = c2
    Calls <- MCCalls
    Confs <- MCConfs
INVARIANTS InitializedLast 
PROPERTIES  ShutDownReturns
CHECK_DEADLOCK FALSE
