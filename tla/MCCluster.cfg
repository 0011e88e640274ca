SPECIFICATION Spec
CONSTANTS
    search = search
    slow = slow
    short = short
    document = document
    sys = sys
    a1 = a1
    a2 = a2
    a3 = a3
    b1 = b1
    b2 = b2
    doc = doc
    q1 = q1
    q2 = q2
    o1 = o1
    o2 = o2
    alice = alice
    bob = bob
    rag1 = rag1
    rag2 = rag2
    one = one
    two = two
    NoBody = NoBody
    Unnamed = Unnamed
    UnknownTool = UnknownTool
    NoTool = NoTool
    NoScope = NoScope
    Forever = Forever
    NoPriority = NoPriority
    Tool = {search, slow}
    Text = {short, document}
    LongInChars = {document}
    LongInTokens = {document}
    Block <- MCBlock
    Request <- MCRequests
    Script <- MCScript
    PolicyName = {"round-robin", "cache-local", "transfer-aware", "class-aware", "class-aware-reliability", "oracle", "weighted-precise", "weighted-approx"}
    Conversation = {alice, rag1, rag2, one}
    NumNodes = 2
    Capacity = 3
    BeliefCapacity = 2
    BlockPrefill = 3
    PrefillFixed = 1
    BlockTransfer = 1
    LinkLatency = 1
    InterToken = 1
    NominalTokens = 3
    SaturationDepth = 1
    PrefixWeight = 2
    LoadWeight = 1
    IndexCapacity = 2
    TrackerCapacity = 6
    AlphaNum = 1
    AlphaDen = 2
    Scale = 4
    PriorMean = 2
    PriorVar = 16
    ConfNum = 1
    ConfDen = 2
    ShortGap = 1
    MarginNum = 3
    MarginDen = 2
    MaxTime = 3
CHECK_DEADLOCK FALSE
INVARIANTS FirstUsesAreMisses CacheLocalUsesOneNode PinsAreLeases BeliefsFollowCaches
PROPERTIES OracleIsLowerBound RoundingCostsOneService SaturatedNodesAreSpared CoupledDependsOnOthers OneShotsDisplaceNothing ImplementsRouterIndex
