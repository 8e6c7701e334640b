SPECIFICATION Spec
CONSTANTS
    Length = 3
    Silence = 3
    MaxRead = 4
    Away = 6
    ReplyTime = 3
    MaxGap = 2
    Pause = 3
    Patiences = {4, 12}
    BufferSize = 6
    LoopLimit = 6
    Kinds <- AllKinds
    MaxFrames = 3
INVARIANTS Punctual ByteLoopEnds
PROPERTIES NoFrameSplit
