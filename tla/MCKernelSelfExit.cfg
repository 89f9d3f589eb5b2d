\* A process that ends itself with process_exit, as process.h:384 allows.
CONSTANTS
    p1 = p1
    p2 = p2
    Proc = {p1, p2}
    NULL = NULL
    UserEvent = {"ev"}
    NumEvents = 1
    Api = {"post", "exit", "exit_called"}
    Drivers = {}
    MaxCalls = 1
    MaxNest = 2
SPECIFICATION Spec
INVARIANTS
    EndedIsStopped
