SPECIFICATION BuilderSpec
CONSTANTS
    Capacity = 80
    Attributes <- MCAttributes
INVARIANTS
    BuilderTypeOK
    LastSealHolds
    FinalizeEndsOnAttribute
