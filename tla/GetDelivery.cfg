SPECIFICATION Spec
CONSTANTS
    Options <- Downloads
    ByteCount = 5
    ObjectSizes = {0, 1, 3, 5}
    StoredPartSizes = {1, 2, 3, 5}
    ConservativeMax = 1
    MaxRequestsInFlight = 2
    MaxConnections = 2
    MaxWindow = 5
CONSTRAINT ObjectBound
CHECK_DEADLOCK FALSE
INVARIANTS
    DeliveryIsExact
    TokenNeverOverstates
    WorkIsAccounted
    NoInternalError
PROPERTIES
    ImplementsDownload
