SPECIFICATION LinkSpec
CONSTANTS
    bc = bc
    n1 = n1
    p1 = p1
    p2 = p2
    p3 = p3
    o1 = o1
    o2 = o2
    Addr = {bc, n1}
    Broadcast = bc
    Packet = {p1, p2, p3}
    Other = {o1, o2}
    MaxSeqnos = 2
    MaxNeighbors = 2
    MaxPerNeighbor = 3
    MaxQueued = 3
    MaxBackoff = 0
    MaxRetries = 1
    TxLimits = {0}
    SeqRange = 6
INVARIANTS AcknowledgedIsDelivered DeliveredInOrder RepeatedOnlyAfterOther
SYMMETRY Symmetry
