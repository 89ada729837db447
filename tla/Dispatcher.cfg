CONSTANTS
    Calls = {c1, c2}
    NoCall = NoCall
    Side = "client"
    BatchSize = 2
    MaxRequests = 2
    Copies = {n1, n2}
SPECIFICATION FairSpec
INVARIANTS Correlation NoLostAnswer ExitUnblocks
PROPERTIES WaitEnds ImplementsRequestReply
CHECK_DEADLOCK FALSE
