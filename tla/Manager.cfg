CONSTANTS
    MaxTasks = 2
    KillOnTimeout = {2}
    MaxOthers = 1
    UserReasons = {"user"}
    MaxRunning = 1
    MaxGlobal = 1
    MaxTracked = 2
    MaxRetained = 0
    MaxTombstones = 1
SPECIFICATION Spec
INVARIANTS
    CompletionsAreKept
    ReclaimableIsQuiet
    LimitsHold
    
PROPERTIES
    OutcomesStick
    KeepsPromise
