SPECIFICATION FairSpec
CONSTANTS
    Buffers <- MCBuffers
    MaxCalls = 2
INVARIANTS
    TypeOK
    ReadsInBuffer
    EntriesInBuffer
    TableIsWire
    WholeWordsConsumed
    UnknownListed
    TurnsBounded
    AcceptsWellFormed
PROPERTY DecodeReturns
CHECK_DEADLOCK FALSE
