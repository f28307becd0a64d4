CONSTANTS
    MaxTasks = 2
    KillOnTimeout = {}
    MaxOthers = 0
    UserReasons = {"user"}
    MaxRunning = 2
    MaxGlobal = 2
    MaxTracked = 2
    MaxRetained = 0
    MaxTombstones = 1
    BashCalls = {"b1", "b2"}
    ExplicitCalls = {"b2"}
    Queries = {"q1"}
    MaxReleases = 1
SPECIFICATION ToolsSpec
INVARIANTS
    WaitsAreKept
    AnsweredIsSilent
\* The calls of the turn return and the session falls silent.
CHECK_DEADLOCK FALSE
