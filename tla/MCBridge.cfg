SPECIFICATION Spec
CONSTANTS
    Inputs <- MCInputs
    ServerBodies <- MCServerBodies
    MAX_MESSAGE = 8
    MAX_HEADER = 5
    Past <- MCPast
    MayHang = TRUE
CHECK_DEADLOCK FALSE
INVARIANTS ForwardsWhatWasWritten OutputDecodes
PROPERTIES BridgeExits ServerGoneEndsBridge RepliesDelivered
