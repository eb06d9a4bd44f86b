SPECIFICATION Spec
CONSTANTS
    ByteMax = 3
    NibbleMax = 1
    MinMatch = 4
    Sources <- MCSources
    Arbitrary <- MCArbitrary
    Outputs = {2, 20}
    MaxBlockSize = 5
    MaxSequences = 3
INVARIANT PatternsKept
CHECK_DEADLOCK FALSE
