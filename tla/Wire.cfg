SPECIFICATION FairSpec
CONSTANTS
    ByteBits = 4
    JamCache = 3
    MaxDepth = 3
    MaxNodes = 8
    MaxCells = 4
    MaxBackrefs = 2
    MaxCache = 8
    MaxAtomBytes = 2
    MaxTotalAtomBytes = 4
    MaxWork = 60
    Magic <- MCMagic
    Version = 1
    Size = 4
    MaxPayload = 6
    ByteTicks = 2
    FrameTicks = 3
    Nouns <- MCNouns
    Payloads <- MCPayloads
    Noise <- MCNoise
    MaxFaults = 3
    FifoCap = 1
INVARIANTS Delivered Faithful FrameHeard
PROPERTIES HeardInTheEnd
