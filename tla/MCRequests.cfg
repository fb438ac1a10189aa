SPECIFICATION RequestsSpec
CONSTANTS
    g = g
    a1 = a1
    a2 = a2
    a3 = a3
    b2 = b2
    b3 = b3
    zero = zero
    none = none
    Hash <- MCHash
    Genesis = g
    Zero = zero
    None = none
    Parent <- MCParent
    Number <- MCNumber
    InvalidHeaders = {}
    Requests <- MCRequests
    Heads = {a3, b3}
    MaxServe = 2
    MaxItems = 3
    Fetches = {f1, f2}
    Connections = {c1, c2, c3}
    Exceeded = exceeded
    MaxActive = 2
    MaxRefused = 1
CHECK_DEADLOCK FALSE
INVARIANTS
    RequestsConserved
    OpenConnectionsKept
    NoLostWakeup
    AnswersUsable
PROPERTIES
    ImplementsPeerRequests
    SubstitutesNetworkManager
