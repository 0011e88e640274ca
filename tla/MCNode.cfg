SPECIFICATION ScanSpec
CONSTANTS
    h1 = h1
    h2 = h2
    h3 = h3
    o1 = o1
    Forever = Forever
    NoPriority = NoPriority
    Block <- MCBlock
    Request <- MCRequest
    Capacity = 2
    Service = {1}
    Window = {0, 2}
    Priority <- MCPriority
    MaxTime = 2
    MaxRequests = 4
CHECK_DEADLOCK FALSE
INVARIANTS TypeOK MarkIsLastAsk LostLeasesAreCounted ScanImplementsNode
PROPERTIES EvictionFollowsRank TiesGoByRecency UnmarkedIsLRU
