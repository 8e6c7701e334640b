SPECIFICATION Spec
CONSTANTS
    Types = {"coil", "hreg"}
    BitTypes = {"coil"}
    Top = 2
    MaxRegs = 2
    Words <- MCWords
    On = 1
    Callbacks <- MCCallbacks
    MaxCount = 2
    MaxCallbacks = 2
INVARIANTS NoDoubleNoOrphan
PROPERTIES ImplementsRegisterMap
