CONSTANTS
    MaxTasks = 1
    KillOnTimeout = {}
    MaxOthers = 0
    UserReasons = {"user"}
    MaxRunning = 1
    MaxGlobal = 1
    MaxTracked = 1
    MaxRetained = 1
    MaxTombstones = 1
    BashCalls = {"b1"}
    ExplicitCalls = {}
    Queries = {}
    MaxReleases = 0
SPECIFICATION ToolsSpec
INVARIANTS
    ReportedEndIsReal
CHECK_DEADLOCK FALSE
