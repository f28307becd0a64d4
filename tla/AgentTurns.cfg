SPECIFICATION LateSpec
CONSTANTS
    MaxPrompts = 2
    MaxVersion = 1
    Histories <- SomeHistories
    MaxTurns = 2
    MaxCalls = 2
    BatchSize = 1
    Threshold = 2
    MaxNudges = 1
    MaxNotices = 1
    Keep = 2
    Recent = 4
    Judged = TRUE
INVARIANTS RequestsAreAnswerable PromptsAreSomewhere NothingIsForgotten RequestsAreBounded
PROPERTIES CancelEndsTheRun
