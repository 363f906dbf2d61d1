SPECIFICATION Spec
CONSTANTS
    Conns = {c1, c2}
    NoConn = NoConn
    Embedders = {e1}
    NoOwner = NoOwner
    Tools = {t1}
    AppIds = {}
    ValidIds = {}
    NoId = NoId
    Methods = {"initialize", "tools/list", "malformed"}
    MAX_CONNS = 1
    MAX_TOOLS = 3
    MaxStarts = 1
    MaxChanges = 1
    MaxRequests = 2
    AcceptMayFail = TRUE
CHECK_DEADLOCK FALSE
SYMMETRY ConnSymmetry
INVARIANTS ActiveCountsSlots NoUseAfterClose FramesIntact StaleExplained
