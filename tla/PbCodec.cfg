SPECIFICATION Spec
CONSTANTS
    ChunkSize = 2
    MaxLen = 9
    MaxRead = 5
    MaxMsgs = 3
    Bad = {"tag", "sum", "size"}
INVARIANT HeaderAssertion
