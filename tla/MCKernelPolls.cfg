\* Interrupts that poll every process at every moment, while handlers stop and
\* restart processes.
CONSTANTS
    p1 = p1
    p2 = p2
    Proc = {p1, p2}
    NULL = NULL
    UserEvent = {"ev"}
    NumEvents = 1
    Api = {"post", "start", "exit", "poll"}
    Drivers = {p1, p2}
    MaxCalls = 2
    MaxNest = 2
SPECIFICATION FairSpec
INVARIANTS
    PollNotLost
PROPERTIES
    PollServed
