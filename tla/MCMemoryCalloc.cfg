SPECIFICATION Spec
CONSTANTS
    ChunkSize = 2
    Depth = 3
    Bytes <- TwoBytes
    MallocSizes = {2, 3}
    AllocaSizes = {}
    Data <- OneByteStrings
    CopySizes = {1}
    Pointers <- Near
    MaxBlocks = 2
    MaxOps = 1
INVARIANTS
    CallocedBytesAreZero
CHECK_DEADLOCK FALSE
