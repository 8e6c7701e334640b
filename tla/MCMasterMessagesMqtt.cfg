SPECIFICATION Spec
CONSTANTS
    Counts <- WholeCounts
    Registers = 227
    MaxWords = 125
PROPERTIES WholeMessageAccepted
