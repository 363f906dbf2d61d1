SPECIFICATION Spec
CONSTANTS
    Conns = {c1}
    NoConn = NoConn
    Embedders = {e1}
    NoOwner = NoOwner
    Tools = {t1}
    AppIds = {id1, bad}
    ValidIds = {id1}
    NoId = NoId
    Methods = {"initialize", "tools/call", "ping", "notification"}
    MAX_CONNS = 1
    MAX_TOOLS = 4
    MaxStarts = 2
    MaxChanges = 2
    MaxRequests = 2
    AcceptMayFail = TRUE
CHECK_DEADLOCK FALSE
INVARIANT StoppedIsQuiet
PROPERTIES StopTerminates ChangeReturns RequestAnswered
