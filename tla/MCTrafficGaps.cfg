SPECIFICATION Spec
CONSTANTS
    Concurrency = 2
    NumRequests = 4
    Intervals = {0, 1}
    Sessions <- MCSessions
    MaxTime = 4
CHECK_DEADLOCK FALSE
INVARIANTS GapsAreAtLeastModelled
