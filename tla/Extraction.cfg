SPECIFICATION Spec
CONSTANTS
    Inputs <- MCInputs
    Garbage <- MCGarbage
    MaxBlockSize <- MCMaxBlockSize
    MaxBlocks <- MCMaxBlocks
    MaxTotalLiterals = 20
    MaxRatio = 1
    RatioFloor = 3
    FlushAt = 4
    MaxChunks = 4
    MaxFrames = 2
    MaxSkips = 3
    MaxMembers = 3
    MaxLen = 80
    MaxBlockCount = 5
INVARIANTS TypeOK NothingLost ValidAccepted LimitsHeld ZstdExtentsExact
PROPERTY KeepsPromise
CHECK_DEADLOCK FALSE
