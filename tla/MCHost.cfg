SPECIFICATION Spec
CONSTANTS
    Procs <- MCProcs
    RoleOf <- MCRoleOf
    NoRole = "-"
    Roles <- MCRoles
    Nothing = "nothing"
    Stale = "stale"
    MAX_PIDS = 2
    MaxStarts = 4
    MaxClients = 2
    Writers <- MCWriters
    ProcessOf <- MCProcessOf
    NoWriter = "nobody"
    MAX_FILE = 2
    MaxEntries = 8
    UINT32_MAX = 3
    LONG_MAX = 7
    MAX_ENTRIES = 2
    Texts <- MCTexts
    Unset = Unset
CHECK_DEADLOCK FALSE
INVARIANTS
    Reachable NoStaleLockout AutoMissesNobody AutoPrefersRoles
    RecentKept DiskBounded NothingInvented AllowsListed
PROPERTIES StopReturns
