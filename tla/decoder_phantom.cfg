SPECIFICATION Spec
CONSTANTS
    Buffers <- MCBuffers
    MaxCalls = 1
INVARIANT MissingNotFound
CHECK_DEADLOCK FALSE
