SPECIFICATION RtSpec
CONSTANTS
    Threads = {t1, t2, t3, t4}
    MaxReaderNum = 3
    Workers = {w1, w2}
    Pushers = {p1, p2}
    Calls = {c1, c2}
    Waiter = w3
    Clients = {k1, k2}
    IoLoops = {io1, io2}
INVARIANTS
    LockSound
    LoopsShared
    TasksHandedOver
    WaitersSound
    LogSound
    RpcAnswers
    FileIntact
    ConnectionsTracked
    ServerAssertionsHold
PROPERTIES
    LockProgress
    CallsReturn
    LogProgress
    RpcProgress
    TransferCompletes
    ServerProgress
\* Every part but the lock may come to its end.
CHECK_DEADLOCK FALSE
