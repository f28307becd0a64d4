SPECIFICATION ExchangesSpec
CONSTANTS
    Bodies <- SomeBodies
    EditCalls <- SomeEdits
    FileTexts <- SomeTexts
    CallNames <- SomeNames
    Chunks <- SomeChunks
    Trees <- SomeTrees
    Contents <- SomeContents
    Schema <- SomeSchema
    Aliases <- SomeAliases
    Inputs <- SomeInputs
    Prompts <- SomePrompts
    Answers <- SomeAnswers
    Outputs <- SomeOutputs
    Talk <- SomeTalk
    MaxReads = 4
    MaxChunks = 4
    MaxMessages = 4
    MaxItems = 3
    MaxLen = 7
    Reserve = 1
    MaxEdits = 3
    MinInitial = 2
    MaxText = 8
    MaxSinkFaults = 1
    Callers = {c1, c2}
    MaxTokens = 3
    MaxPages = 1
    MaxNetFaults = 1
INVARIANTS ToolsTellTheTruth AnswerIsShown StaleTokensHeal
PROPERTIES ModelIsUnderstood
\* Calls are answered, commands end, messages are taken.
CHECK_DEADLOCK FALSE
