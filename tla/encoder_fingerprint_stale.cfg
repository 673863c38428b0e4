SPECIFICATION Spec
CONSTANTS
    Capacity = 68
    Attributes <- MCAttributes
INVARIANT FingerprintMatchesHeader
