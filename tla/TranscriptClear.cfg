SPECIFICATION Spec
CONSTANTS
    Handles = {a, b}
    MaxMessages = 1
    MaxRetries = 1
    MaxBatch = 1
    MaxLength = 5
    Clears = TRUE
SYMMETRY AnyClient
INVARIANTS ClearedStaysCleared
