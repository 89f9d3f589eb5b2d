\* Routers with one and two neighbours and a leaf with one: see MCRplNode.
CONSTANTS
    Nbr = {n1, n2}
    NULL = NULL
    AdvRank = {1, 4}
    MaxRankInc = 1
    MaxLife = 2
    MaxRtx = 1
    DefrtNb = 2
    Confs <- AllNodes
SYMMETRY NbrSymmetry
SPECIFICATION Spec
INVARIANTS
    TypeOK
    NoDanglingNeighbor
    ProbingComes
    DaoTimerRuns
    AdvertisingTimerRuns
    LeavePending
    DefaultRouteIsParent
PROPERTIES
    ImplementsJoin
