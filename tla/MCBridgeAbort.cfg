SPECIFICATION Spec
CONSTANTS
    Inputs <- TalkInputs
    ServerBodies <- MCServerBodies
    MAX_MESSAGE = 8
    MAX_HEADER = 5
    Past <- MCPast
    MayHang = FALSE
CHECK_DEADLOCK FALSE
PROPERTY AbortUnblocks
