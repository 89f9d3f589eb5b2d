SPECIFICATION CsmaFairSpec
CONSTANTS
    bc = bc
    n1 = n1
    n2 = n2
    p1 = p1
    p2 = p2
    p3 = p3
    Addr = {bc, n1, n2}
    Broadcast = bc
    Packet = {p1, p2, p3}
    MaxNeighbors = 2
    MaxPerNeighbor = 2
    MaxQueued = 2
    MaxBackoff = 1
    MaxRetries = 1
    TxLimits = {0}
    SeqRange = 2
INVARIANTS
    TimerMatchesQueue
    PoolsConserved
    SentCallbackOnce
    CountsAreOwn
PROPERTY EveryPacketReported
CHECK_DEADLOCK FALSE
