CONSTANTS
    Conns = {c1, c2}
    Requests = {r1}
    NoConn = NoConn
SPECIFICATION FairSpec
INVARIANTS NoMissedWakeup
PROPERTIES NewerConnectionSpared SlotFreed
CHECK_DEADLOCK FALSE
