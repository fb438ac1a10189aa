SPECIFICATION DownloadsSpec
CONSTANTS
    g = g
    a1 = a1
    a2 = a2
    a3 = a3
    b2 = b2
    zero = zero
    none = none
    Hash <- MCHash
    Genesis = g
    Zero = zero
    None = none
    Parent <- MCParent
    Number <- MCNumber
    FullRequests = {a3}
    ProofRequests = {a3}
    FinalizedRequests = {a3}
    AncestorWindow = 2
    InvalidHeaders = {}
    Strays = {b2}
    HeaderRanges <- MCHeaderRanges
    StartHash = a3
    Limit = 3
    HeaderAnswers <- MCHeaderAnswers
    FaultyBodies <- MCFaultyBodies
CHECK_DEADLOCK FALSE
INVARIANTS
    RangeConnected
