SPECIFICATION Spec
CONSTANTS
    Apps = {a1, shell}
    Shell = shell
    MAX_BACKENDS = 1
    MAX_INFLIGHT = 1
    Cap = 2
    AgentIds = {1}
    MaxLists = 0
    MaxChanges = 0
    MaxHangups = 1
    MayHang = {a1}
    MayDie = {a1}
CHECK_DEADLOCK FALSE
PROPERTIES CallAnswered 
