SPECIFICATION FairSpec
CONSTANTS
    Request <- AllRequests
    Loads <- Mixed
    MemLimit = 8
    ChunkSize = 2
    ChunksPerBlock = 3
    CutoffChunks = 2
    MinCutoff = 1
    Cancels = TRUE
    OptimizesPool = TRUE
CHECK_DEADLOCK FALSE
INVARIANTS
    BooksBalance
    TicketsHoldTheirMemory
    PreparedInOrder
PROPERTIES
    EveryPartServed
