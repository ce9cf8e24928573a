SPECIFICATION FairSpec
CONSTANTS
    Timers = {1, 2}
    Periodic = {}
    Interval <- MCInterval
    Delays = {1}
    MaxTime = 3
    SecondLen = 4
    Foreign = FALSE
PROPERTIES
    CancelledNeverRuns
CHECK_DEADLOCK FALSE
