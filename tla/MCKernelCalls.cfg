\* Nested calls of every kind, exits of processes in the middle of a call among them, no polls.
CONSTANTS
    p1 = p1
    p2 = p2
    p3 = p3
    Proc = {p1, p2, p3}
    NULL = NULL
    UserEvent = {"ev"}
    NumEvents = 1
    Api = {"post", "synch", "start", "exit", "exit_called", "context"}
    Drivers = {}
    MaxCalls = 2
    MaxNest = 2
SPECIFICATION Spec
SYMMETRY Symmetry
INVARIANTS
    ListMatchesState
    NoReentry
    CurrentIsRunning
    BroadcastReachesAll
