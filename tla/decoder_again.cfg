SPECIFICATION Spec
CONSTANTS
    Buffers <- MCBuffers
    MaxCalls = 2
INVARIANT AllOfTypeFound
CHECK_DEADLOCK FALSE
