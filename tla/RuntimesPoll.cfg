SPECIFICATION Spec
CONSTANTS
    c1 = c1
    c2 = c2
    Calls <- MCCalls
    Confs <- MCTaskConfs
INVARIANTS
    PollNamesTask
CHECK_DEADLOCK FALSE
