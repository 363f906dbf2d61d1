SPECIFICATION Spec
CONSTANTS
    Apps = {a1}
    Shell = shell
    MAX_BACKENDS = 1
    MAX_INFLIGHT = 4
    Cap = 1
    AgentIds = {1, 2, 3, 4}
    MaxLists = 0
    MaxChanges = 0
    MaxHangups = 0
    MayHang = {}
    MayDie = {}
CHECK_DEADLOCK FALSE
PROPERTY CallAnswered
