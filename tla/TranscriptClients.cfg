SPECIFICATION Spec
CONSTANTS
    Handles = {a, b}
    MaxMessages = 1
    MaxRetries = 1
    MaxBatch = 1
    MaxLength = 3
    Clears = TRUE
SYMMETRY AnyClient
INVARIANTS MemoryIsFaithful NoMessageIsLost SaidOnce StaysReadable
