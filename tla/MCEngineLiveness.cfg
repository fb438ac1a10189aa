SPECIFICATION FairSpec
CONSTANTS
    g = g
    a1 = a1
    a2 = a2
    a3 = a3
    zero = zero
    none = none
    Hash <- MCHash
    Genesis = g
    Zero = zero
    None = none
    Parent <- MCParent
    Number <- MCNumber
    BufferLimit = 4
    AncestorWindow = 4
    FailsConsensus = {}
    Verdicts <- MCVerdicts
    PowBlocks = {}
    Payloads <- MCPayloads
    MalformedPayloads = {}
    ForkchoiceStates <- MCForkchoiceStates
    Unrecoverable = {}
    MaxMessages = 0
    Persistent = TRUE
CHECK_DEADLOCK FALSE
PROPERTIES
    SyncCompletes
    ParkedPayloadAnswered
    RepeatedUpdatesComplete
