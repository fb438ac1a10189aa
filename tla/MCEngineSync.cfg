SPECIFICATION Spec
CONSTANTS
    g = g
    a1 = a1
    a2 = a2
    a3 = a3
    b2 = b2
    zero = zero
    none = none
    Hash <- MCHash
    Genesis = g
    Zero = zero
    None = none
    Parent <- MCParent
    Number <- MCNumber
    BufferLimit = 5
    AncestorWindow = 4
    FailsConsensus = {}
    Verdicts <- MCVerdicts
    PowBlocks = {}
    Payloads <- MCPayloads
    MalformedPayloads = {}
    ForkchoiceStates <- MCForkchoiceStates
    Unrecoverable = {}
    MaxMessages = 3
    Persistent = FALSE
CHECK_DEADLOCK FALSE
INVARIANTS
    PiecesPending
    CanonicalSound
    NoStrandedBlock
    SyncTargetBecomesHead
PROPERTIES
    ImplementsEngineApi
