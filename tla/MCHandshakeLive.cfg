SPECIFICATION FairSpec
CONSTANTS
    Numbers = {n1}
    NoNumber = NoNumber
    Requests <- CleanRequests
    Texts = {TRUE}
    MaxChunks = 2
    MaxRx = 1
    MaxFaults = 1
PROPERTIES PingAnswered PingSettles
