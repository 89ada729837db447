CONSTANTS
    Requests = {r1, r2}
    Batch = TRUE
    Sessions = {s1}
    NoSession = NoSession
    Capacity = 1
    MaxRetries = 1
    MaxChunk = 2
SPECIFICATION Spec
INVARIANTS RealResponse
CHECK_DEADLOCK FALSE
