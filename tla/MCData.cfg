SPECIFICATION DataSpec
CONSTANTS
    CHUNK_SIZE = 3
    HEADER = 1
    MaxBytes = 10
    MaxReserve = 2
    Null = Null
    Nodes = {n1, n2, n3, n4}
    Arrays = {a1, a2, a3}
    Blocks = {b1, b2, b3, b4}
    Loops = {t1, t2}
    Base = t1
    Anys = {x1, x2}
    Uniques = {u1}
    Raws = {r1}
    Addrs = {q1, q2, q3, q4, q5}
INVARIANTS
    BuffersAreByteQueues
    MemoryOwned
    ListsAreSequences
    TextExact
    CodecDelivers
    RecordSound
    OpenFileKept
    DemultiplexersSound
PROPERTY
    DemuxSpec
\* A failed assertion ends the program.
CHECK_DEADLOCK FALSE
