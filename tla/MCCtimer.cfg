\* Timers are set again while pending and while their event is queued.
CONSTANTS
    Timer = {c1, c2}
    ctimer_process = ctimer_process
    Proc = {ctimer_process}
    NONE = NONE
    Interval = {1}
    Adjustment = {}
    ClockRange = 5
    MaxAge = 2
    QueueLen = 2
    Load = 1
    Tickless = TRUE
SPECIFICATION CFairSpec
PROPERTIES
    ActsAsCallbackTimer
    CallbackNotEarly
    CallbackComes
