SPECIFICATION Spec
CONSTANTS
    r1 = r1
    r2 = r2
    r3 = r3
    NoReq = NoReq
    Reqs <- MCReqs
    Confs <- MCConfs
    MaxSessions = 1
CHECK_DEADLOCK FALSE
   
PROPERTIES  AbandonedEnds
