SPECIFICATION Spec
CONSTANTS
    search = search
    slow = slow
    short = short
    document = document
    s1 = s1
    p1 = p1
    p2 = p2
    NoBody = NoBody
    Unnamed = Unnamed
    UnknownTool = UnknownTool
    NoTool = NoTool
    NoScope = NoScope
    Tool = {search, slow}
    Text = {short, document}
    LongInChars = {document}
    LongInTokens = {document}
    InferenceRequest <- MCRequest
    Proc = {p1, p2}
    IndexCapacity = 1
    TrackerCapacity = 1
    AlphaNum = 3
    AlphaDen = 10
    Scale = 100
    PriorMean = 2
    PriorVar = 16
    ConfNum = 1
    ConfDen = 2
    ShortGap = 1
    MarginNum = 3
    MarginDen = 2
    MaxTime = 3
    MaxRequests = 4
CHECK_DEADLOCK FALSE
INVARIANTS TypeOK GapsTelescope MeanWithinObserved ForwardUnlessOverlapped NeverRaisesClient
PROPERTIES PinsFollowShortReturns SteadyToolIsPinned
SYMMETRY MCSymmetry
