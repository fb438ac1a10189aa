SPECIFICATION Spec
CONSTANTS
    g = g
    a1 = a1
    a2 = a2
    b2 = b2
    x2 = x2
    x3 = x3
    y2 = y2
    zero = zero
    none = none
    Hash <- MCHash
    Genesis = g
    Zero = zero
    None = none
    Parent <- MCParent
    Number <- MCNumber
    BufferLimit = 2
    AncestorWindow = 4
    FailsConsensus <- MCFailsConsensus
    Verdicts <- MCVerdicts
    PowBlocks = {g}
    Payloads <- MCPayloads
    MalformedPayloads <- MCMalformedPayloads
    ForkchoiceStates <- MCForkchoiceStates
    Unrecoverable <- MCUnrecoverable
    MaxMessages = 3
    Persistent = FALSE
CHECK_DEADLOCK FALSE
INVARIANTS
    NoInvalidBlockAdmitted
    InvalidHeadersSound
    LatestValidHashSound
    NoStrandedBlock
PROPERTIES
    ImplementsEngineApi
