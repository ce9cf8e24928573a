SPECIFICATION MCLoopSpec
CONSTANTS
    Threads = {t1, t2}
    Functors = {f1, f2, f3}
    MaxIo = 1
INVARIANTS
    NoLostWakeup
    ClientSound
    KeepsTrying
PROPERTIES
    ExecutorSpec
    LoopProgress
    StopIsFinal
    ClientProgress
\* A loop may have quit, and a client may wait for its user for ever.
CHECK_DEADLOCK FALSE
