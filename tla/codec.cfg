SPECIFICATION CodecSpec
CONSTANTS
    Capacity = 80
    Attributes <- MCAttributes
    Filler <- MCFiller
    Cuts <- MCCuts
INVARIANTS
    RejectedIffCut
    OnlyPlacedFound
    LastFoundVerifies
    FoundSealsVerify
    GettersComplete
PROPERTY ImplementsChannel
CHECK_DEADLOCK FALSE
