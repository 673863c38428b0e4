SPECIFICATION Spec
CONSTANTS
    Table <- Entries
    FirstBytes <- MCFirstBytes
    OtherBytes <- MCOtherBytes
    MaxLength = 5
    Damage <- MCDamage
INVARIANTS
    IsCrc32
    PiecesMakeWhole
    DamageDetected
CHECK_DEADLOCK FALSE
