SPECIFICATION Spec
CONSTANTS
    Apps = {a1}
    Shell = shell
    MAX_BACKENDS = 1
    MAX_INFLIGHT = 1
    Cap = 2
    AgentIds = {1}
    MaxLists = 2
    MaxChanges = 2
    MaxHangups = 1
    MayHang = {a1}
    MayDie = {}
CHECK_DEADLOCK FALSE
INVARIANTS InflightExplained AgentTold CacheExplained
