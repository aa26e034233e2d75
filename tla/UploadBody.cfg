SPECIFICATION Spec
CONSTANTS
    PartSize = 2
    TotalBytes = 3
    MaxWrite = 3
    MaxWrites = 3
    FileLen = 7
    SizeMax = 256
    Locations = {"none", "review", "header", "trailer"}
    FileParts <- MCFileParts
    Rooms = {1, 3}
    MaxRetries = 1
CHECK_DEADLOCK FALSE
INVARIANTS
    BufferHandedOver
    BodyIsThePart
PROPERTIES
    EveryWriteReturns
