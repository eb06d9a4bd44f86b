SPECIFICATION Spec
CONSTANTS
    Byte = {0, 1}
    Items <- MCItems
    Hash1 <- MCHash1
    Hash2 <- MCHash2
    HashModulus = 64
    MaxBloomBits = 1024
    MinAutoBits = 64
    MaxHashes = 32
    MaxRate = 9999
    NaN <- MCNaN
    BitsPerItem <- MCBitsPerItem
    ChunkLiterals <- MCChunkLiterals
    BitCounts = {0, 23}
    HashCounts = {2}
    ItemCounts = {5, 40}
    Rates = {1}
    MaxStreamingBlocks = 2
    Patterns <- MCPatterns
INVARIANTS
    TypeOK
    ScanFindsExactly
    OnlyAcceptedBlocks
    WithinBlockLimit
    StreamingMatchesBatch
CHECK_DEADLOCK FALSE
