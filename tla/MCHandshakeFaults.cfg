SPECIFICATION Spec
CONSTANTS
    Numbers = {n1, n2}
    NoNumber = NoNumber
    Requests <- AllRequests
    Texts = {TRUE, FALSE}
    MaxChunks = 2
    MaxRx = 1
    MaxFaults = 2
INVARIANTS EveryPingAccountedFor AckBelongsToThisPass RepliesAgree AnswerNamesPinger
PROPERTIES ClearedOnlyByRead ImplementsMailbox
