\* A leaf with two UDP connections.
CONSTANT
    Conns = 2
SPECIFICATION LeafFairSpec
INVARIANTS
    TypeOK
    StoppedIsDeaf
    ReportsReachUdp
PROPERTIES
    ListensForDio
    StoppedLeafWakes
