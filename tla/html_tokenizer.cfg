SPECIFICATION Spec
CONSTANTS
    Pieces <- MCPieces
    MaxPieces = 5
    Names <- MCNames
    TextOf <- MCTextOf
INVARIANTS
    Built
    EofEnds
    InStep
PROPERTIES
    TextKept
    Promise
CHECK_DEADLOCK FALSE
