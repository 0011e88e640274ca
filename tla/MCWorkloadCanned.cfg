SPECIFICATION Spec
CONSTANTS
    flaky = flaky
    slow = slow
    NoBody = NoBody
    Unnamed = Unnamed
    UnknownTool = UnknownTool
    NoTool = NoTool
    NoScope = NoScope
    Tool = {flaky, slow}
    Text <- MCText
    LongInChars <- Asked
    LongInTokens <- Asked
    Options <- MCOptions
    MixUnit = 6
    WordCount <- MCWordCount
    UserPrompts = 2
    CannedResults = 1
    RagDocs = 2
    SuccessLatency <- MCLatency
    Gaps = {0, 2}
    ThinkTime = 2
    NominalTurn = 1
    RetryGap = 1
    Capacity = 3
CHECK_DEADLOCK FALSE
INVARIANTS CannedResultsAreShared
