SPECIFICATION Spec
CONSTANTS
    Channels <- MCChannels
    Payloads <- MCPayloads
    Rooms <- MCRooms
    Methods = {1, 12}
    Messages <- MCMessages
    Inside <- MCInside
    Edges <- MCEdges
    MaxItems = 2
INVARIANTS
    TypeOK
    InStep
    TakenHasArrived
    WholeIsTaken
PROPERTY AllReceived
CHECK_DEADLOCK FALSE
