SPECIFICATION FairSpec
CONSTANTS
    Options <- Flows
    ByteCount = 5
    ObjectSizes = {4, 5}
    StoredPartSizes = {5}
    ConservativeMax = 1
    MaxRequestsInFlight = 2
    MaxConnections = 2
    MaxWindow = 5
CHECK_DEADLOCK FALSE
PROPERTIES
    DownloadEnds
