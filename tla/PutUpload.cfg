SPECIFICATION FairSpec
CONSTANTS
    Options <- Uploads
    MaxPart = 3
    MaxPendingRead = 2
    Callbacks = TRUE
CHECK_DEADLOCK FALSE
INVARIANTS
    ObjectIsTheBody
    SuccessIsReal
    UploadLeftAsAsked
    WorkIsAccounted
PROPERTIES
    Terminates
