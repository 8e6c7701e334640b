SPECIFICATION FairSpec
CONSTANTS
    Requests <- MCRequests
    Broadcast = "all"
    Worlds <- MCWorlds
    Length = 2
    Silence = 3
    Timeout = 3
    Latest = 3
    MaxGap = 2
    Away = 3
    MaxRequests = 2
INVARIANTS EachToldOnce RightAnswer PromptIsToldRight
PROPERTIES PoliteIsTold
