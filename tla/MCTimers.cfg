SPECIFICATION MCTimersSpec
CONSTANTS
    Timers = {1, 2}
    Periodic = {1}
    Interval <- MCInterval
    Delays = {0, 2}
    MaxTime = 3
    SecondLen = 2
    Foreign = TRUE
INVARIANTS
    TimerArmed
    OwnedOnce
    ErasedForGood
    AssertionsHold
    StreamIntact
    CloseOnce
PROPERTIES
    TimersFire
    HighWaterRisingEdge
    ConnectionProgress
\* A connection may wait for its peer for ever.
CHECK_DEADLOCK FALSE
