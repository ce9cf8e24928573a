CONSTANTS
    CHUNK_SIZE = 3
    HEADER = 1
    Messages = {m1, m2}
    SockCap = 1
    MaxIn = 1
    Threads = {}
    Uses <- LoopOnly
    MaxCalls = 0
    HighWaterMark = 0
    PeerFin = FALSE
    PeerRst = FALSE
SPECIFICATION FairSpec
CHECK_DEADLOCK FALSE
PROPERTIES
    HalfCloseHappens
