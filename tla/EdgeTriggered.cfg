CONSTANTS
    CHUNK_SIZE = 3
    HEADER = 1
    Messages = {m1, m2}
    SockCap = 1
    MaxIn = 1
    Threads = {}
    Uses <- EtUses
    MaxCalls = 0
    HighWaterMark = 0
    PeerFin = FALSE
    PeerRst = FALSE
SPECIFICATION EtSpec
CHECK_DEADLOCK FALSE
PROPERTIES
    EtWriteReturns
