SPECIFICATION Spec
CONSTANTS
    Values <- MCValues
    Inputs <- MCInputs
    Transactions <- MCTransactions
    MaxHops = 3
INVARIANTS
    TypeOK
    AcceptedIsLegal
    LegalNeverRejected
    ArrivesAsItLeft
    BytesStable
CHECK_DEADLOCK FALSE
