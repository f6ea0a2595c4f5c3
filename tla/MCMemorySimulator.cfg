SPECIFICATION Spec
CONSTANTS
    ChunkSize = 2
    Depth = 3
    Bytes <- ThreeBytes
    MallocSizes = {2, 3}
    AllocaSizes = {2, 5}
    Data <- Strings
    CopySizes = {1, 2}
    Pointers <- Near
    MaxBlocks = 2
    MaxOps = 2
INVARIANTS
    TypeOK
    StoredBytesReadBack
    NoNestedSegments
    StoresIntoBlocksPass
    StrayStoresAreCaught
CHECK_DEADLOCK FALSE
