SPECIFICATION Spec
CONSTANTS
    Values <- MCValues
    Inputs <- MCInputs
    Transactions <- MCTransactions
    MaxHops = 3
INVARIANT RffuIgnored
CHECK_DEADLOCK FALSE
