SPECIFICATION Spec
CONSTANTS
    Apps = {a1, shell}
    Shell = shell
    MAX_BACKENDS = 2
    MAX_INFLIGHT = 2
    Cap = 2
    AgentIds = {1, 2}
    MaxLists = 0
    MaxChanges = 0
    MaxHangups = 1
    MayHang = {}
    MayDie = {}
CHECK_DEADLOCK FALSE
INVARIANTS RightAnswer NoDuplicateBackend
PROPERTY ImplementsProxy
