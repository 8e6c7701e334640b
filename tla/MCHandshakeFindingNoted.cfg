SPECIFICATION Spec
CONSTANTS
    Numbers = {n1}
    NoNumber = NoNumber
    Requests <- PingRequests
    Texts = {TRUE}
    MaxChunks = 1
    MaxRx = 1
    MaxFaults = 1
INVARIANTS ReadNotedIsAnswered
