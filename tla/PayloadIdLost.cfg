SPECIFICATION Spec
CONSTANTS
    g = g
    a1 = a1
    a2 = a2
    a3 = a3
    a4 = a4
    b2 = b2
    b3 = b3
    c1 = c1
    zero = zero
    none = none
    Hash <- MCHash
    Genesis = g
    Zero = zero
    None = none
    Parent <- MCParent
    Number <- MCNumber
    BufferLimit = 3
    StartBuffers <- MCBuffers
    AncestorWindow = 2
    FailsConsensus = {}
    Verdicts <- MCVerdicts
    PowBlocks = {}
    Request = {1, 2, 3, 4}
    Vectors <- MCVectors
    Addresses = {1, 2}
    Slots = {1, 2}
    Slot = 1
    MaxValue = 2
    Absent = none
    new_payload = new_payload
    forkchoice_updated = forkchoice_updated
    get_payload = get_payload
    eth_call = eth_call
    Clients = {d1, d2}
    Calls = {new_payload, forkchoice_updated, get_payload, eth_call}
    Method <- MCMethod
    Builds = {forkchoice_updated}
    Nil = nil
    MaxCalls = 3
CHECK_DEADLOCK FALSE
INVARIANT
    RethPayloadIdReturned
