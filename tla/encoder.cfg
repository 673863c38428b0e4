SPECIFICATION Spec
CONSTANTS
    Capacity = 68
    Attributes <- MCAttributes
INVARIANTS
    TypeOK
    Contiguous
    CoversOwnEnd
    SealsFlagged
    HeaderInBuffer
    UnsealedFinalizeExact
PROPERTY FingerprintBrokenOnlyByIntegrity
