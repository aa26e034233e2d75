SPECIFICATION Spec
CONSTANTS
    MaxRetries = 1
    DisableRetries = FALSE
    MaxFaults = 2
    Pages = 3
CHECK_DEADLOCK FALSE
INVARIANTS
    BodiesIntact
    ListingIsExact
    ReferencesKept
    RequestIsQuiet
PROPERTIES
    EveryRequestEnds
