SPECIFICATION Spec
CONSTANTS
    a = a
    b = b
    Replica = {a, b}
    Compare <- MCCompare
    Work <- MCWork
    Earlier <- MCEarlier
    MaxRequests = 3
    MaxFaults = 1
SYMMETRY MCSymmetry
CHECK_DEADLOCK FALSE
INVARIANTS CleanRowsAreExact NothingIsCountedTwice
