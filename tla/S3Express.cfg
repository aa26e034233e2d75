SPECIFICATION Spec
CONSTANTS
    Hosts = {"h1", ""}
    Creds = {"mine", "other"}
    DefaultCreds = "mine"
    Callers = {1, 2}
    CacheCapacities = {1, 2}
    ExpiredThreshold = 1
    AboutToExpireThreshold = 2
    RefreshInterval = 1
    Lifetimes = {3}
    MaxTime = 2
CHECK_DEADLOCK FALSE
INVARIANTS
    CacheIsConsistent
    EachCallerItsAnswer
    FreedWhenUnused
PROPERTIES
    UsedSessionIsRefreshed
    EveryoneIsAnswered
