SPECIFICATION FairSpec
CONSTANTS
    Fetches = {f1}
    Connections = {c1, c2}
    Exceeded = exceeded
    MaxActive = 1
    MaxRefused = 1
CHECK_DEADLOCK FALSE
PROPERTIES
    ConnectedRequestsEnd
