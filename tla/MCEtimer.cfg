\* A CPU that sleeps until next_expiration, and a queue that is often full.
CONSTANTS
    Timer = {t1, t2}
    Proc = {p, q}
    NONE = NONE
    Interval = {0, 2}
    Adjustment <- OneTick
    ClockRange = 7
    MaxAge = 3
    QueueLen = 1
    Load = 1
    Tickless = TRUE
SPECIFICATION Spec
SYMMETRY Symmetry
INVARIANTS
    NoTimerForgotten
PROPERTIES
    NeverEarly
