CONSTANTS
    Calls = {c1, c2}
    NoCall = NoCall
    Side = "server"
    BatchSize = 2
    MaxRequests = 3
    Copies = {n1}
SPECIFICATION Spec
INVARIANTS NoLostAnswer
CHECK_DEADLOCK FALSE
