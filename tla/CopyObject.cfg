SPECIFICATION Spec
CONSTANTS
    MaxRetries = 1
    DisableRetries = FALSE
    MaxFaults = 2
    ContentLengths = {2, 5}
    InitialHeaders = {
        {"source", "conditions", "directives", "payer", "source_owner", "attributes",
         "customer_key", "meta", "checksum", "if_none"},
        {"source", "owner"},
        {}}
    MinMultipartLength = 3
    MinPartSize = 3
    MaxParts = 3
CHECK_DEADLOCK FALSE
INVARIANTS
    StoppedStreamsTold
    CopyIsReal
    FailureAborts
    WindsDown
    MessagesFit
PROPERTIES
    Terminates
