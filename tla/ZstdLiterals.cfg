SPECIFICATION Spec
CONSTANTS
    WordBits = 24
    AccLogOffset = 5
    MaxSymbol = 255
    MaxMaxNumBits = 11
    Sources <- MCSources
    Arbitrary <- MCArbitrary
    MaxLiterals = 24
    MaxAccuracyLog = 6
    MaxWeights = 255
INVARIANTS TypeOK ReaderAgrees TablesSound DecodesSection LimitsHeld
PROPERTY Consumes
