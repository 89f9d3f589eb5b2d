\* A leaf with two UDP connections.
CONSTANT
    Conns = 2
SPECIFICATION LeafSpec
INVARIANT ReachableRuns
