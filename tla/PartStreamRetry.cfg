SPECIFICATION Spec
CONSTANTS
    PartSize = 2
    TotalBytes = 0
    MaxWrite = 1
    MaxWrites = 1
    FileLen = 7
    SizeMax = 256
    Locations = {"trailer"}
    FileParts <- MCFileParts
    Rooms = {1, 3}
    MaxRetries = 1
CHECK_DEADLOCK FALSE
INVARIANT
    RecreatedStreamStoresThePart
