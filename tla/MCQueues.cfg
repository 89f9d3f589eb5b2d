\* A ring buffer of four slots.  An event queue of three slots with counters of range 5:
\* fevent + nevents comes as close to the range of the counters as the assumption allows.
CONSTANTS
    Byte = {b1, b2}
    Size = 4
    Event = {e1, e2}
    NumEvents = 3
    CounterRange = 5
SPECIFICATION QueuesSpec
SYMMETRY Symmetry
INVARIANTS
    Inv
    SlotsDisjoint
    QueueTypeOK
PROPERTIES
    ImplementsFifo
    QueueImplementsFifo
