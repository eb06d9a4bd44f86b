SPECIFICATION Spec
CONSTANTS
    a = a
    b = b
    c = c
    Items = {a, b, c}
    Hash1 <- MCHash1
    Hash2 <- MCHash2
    HashModulus = 16
    MaxBloomBits = 6
    MinAutoBits = 4
    MaxHashes = 3
    MaxRate = 9999
    NaN <- MCNaN
    BitsPerItem <- MCBitsPerItem
    BuildOptions <- MCBuildOptions
    ReloadHashes <- MCReloadHashes
    MaxLen = 8
INVARIANTS
    TypeOK
    NoFalseNegatives
PROPERTY ImplementsPromise
