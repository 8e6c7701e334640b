SPECIFICATION Spec
CONSTANTS
    Space = 4
    Existing <- Bank
    Bits = {b0, b1}
    On = {b0, b1}
    Lists <- MCLists
    MaxWords = 2
    MaxBits = 2
SYMMETRY AnyBit
INVARIANTS OnlyMultipleWritesLoseTheFrame
PROPERTIES RefusedChangesNothing OnlyNamedRegistersChange AcknowledgedWritesExist
