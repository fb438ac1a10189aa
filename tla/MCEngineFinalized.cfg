SPECIFICATION Spec
CONSTANTS
    g = g
    a1 = a1
    a2 = a2
    a3 = a3
    a4 = a4
    b3 = b3
    zero = zero
    none = none
    Hash <- MCHash
    Genesis = g
    Zero = zero
    None = none
    Parent <- MCParent
    Number <- MCNumber
    BufferLimit = 6
    AncestorWindow = 2
    FailsConsensus = {}
    Verdicts <- MCVerdicts
    PowBlocks = {}
    Payloads <- MCPayloads
    MalformedPayloads = {}
    ForkchoiceStates <- MCForkchoiceStates
    Unrecoverable <- MCUnrecoverable
    MaxMessages = 3
    Persistent = FALSE
CHECK_DEADLOCK FALSE
INVARIANTS
    BlockHashExact
    ReadyBlocksNotStored
PROPERTIES
    FollowsDownloadQueue
    ImplementsEngineApi
