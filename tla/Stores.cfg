CONSTANTS
    Handlers = {h1, h2, h3}
    SessionCount = 3
    ShardCount = 2
    MaxSessions = 1
    IdleTtl = 0
    Word = 8
    MaxTime = 1
    MaxClears = 1
    EventSessions = {s1, s2}
    Streams <- MCStreams
    MaxEvents = 3
    MaxStamp = 2
    MaxStored = 4
    Writers = {w1, w2}
    ConnCount = 2
    Machines = {0, 1}
    Threads <- MCThreads
    Home <- MCHome
    TimeSize = 4
    MachineSize = 2
    SequenceSize = 2
    MaxMs = 3
    MaxIds = 2
SPECIFICATION StoresSpec
SYMMETRY Symmetry
INVARIANTS CountExact OvershootBounded RetainsNewest ReplayExact  
CHECK_DEADLOCK FALSE
