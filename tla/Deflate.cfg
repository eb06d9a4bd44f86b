SPECIFICATION Spec
CONSTANTS
    WordBits = 16
    NumLiterals = 3
    LengthExtra <- MCExtra
    DistanceExtra <- MCExtra
    FixedLiterals <- MCFixedLiterals
    FixedDistances <- MCFixedDistances
    MaxCodeBits = 3
    CodeLenBits = 2
    HclenOrder <- MCOrder
    SizeBits <- MCSizeBits
    MinHclen = 4
    Repeat <- MCRepeat
    Sources <- MCSources
    Arbitrary <- MCArbitrary
    MaxBlocks = 2
    MaxBlockLiterals = 3
    MaxInstructions = 6
    MaxTotal = 4
INVARIANTS TypeOK ReaderAgrees LimitsHeld DecodesRegular
PROPERTIES Consumes ImplementsGzipStream
