SPECIFICATION FairSpec
CONSTANTS
    Fetches = {f1, f2}
    Connections = {c1, c2, c3}
    Exceeded = exceeded
    MaxActive = 2
    MaxRefused = 1
CHECK_DEADLOCK FALSE
INVARIANTS
    RequestsConserved
    OpenConnectionsKept
    NoLostWakeup
PROPERTIES
    ImplementsPeerRequests
