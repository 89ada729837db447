CONSTANTS
    Requests = {r1, r2}
    Batch = TRUE
    Sessions = {s1}
    NoSession = NoSession
    Capacity = 1
    MaxRetries = 1
    MaxChunk = 2
    Limits = {0, 2}
    NoLimit = NoLimit
SPECIFICATION SuiteSpec
INVARIANTS AckMeansDelivered SessionLearned ShutDownCloses
PROPERTIES  LoopProgress
CHECK_DEADLOCK FALSE
