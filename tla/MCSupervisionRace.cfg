SPECIFICATION Spec
CONSTANTS
    MinDelay = 2
    CheckInterval = 1
    StuckIntervals = {0, 1}
    PidMax = 2
    GuardInterval = 2
    BeatInterval = 1
\* The process exits when tuning fails, and the guard aborts it.
CHECK_DEADLOCK FALSE
PROPERTIES
    RetuneDebounced
