SPECIFICATION Spec
CONSTANTS
    Counts <- AnyCount
    Registers = 227
    MaxWords = 125
INVARIANTS InBounds LandsInItsField
