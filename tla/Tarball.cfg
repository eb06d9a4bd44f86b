SPECIFICATION Spec
CONSTANTS
    BlockSize = 8
    Inputs <- MCInputs
    Archives <- MCAll
    MaxBytes = 48
    MaxMembers = 3
    MaxDepth = 2
INVARIANTS TypeOK LimitsHeld ScanExact
PROPERTY Returns
