SPECIFICATION FairSpec
CONSTANTS
    MetaRequest = {m1, m2}
    Request = {r1}
    Host = {h1}
    Endpoint = {e1, e2}
    None = None
    MaxConnections = 1
    MaxInFlight = 1
CHECK_DEADLOCK FALSE
INVARIANTS
    HeldEndpointIsOpen
    RefCountExact
    FreedWhenQuiet
PROPERTIES
    ShutdownCompletes
