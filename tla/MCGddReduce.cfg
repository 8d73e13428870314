SPECIFICATION FairSpec
CONSTANTS
    Vid = {1, 2, 3}
    Seg = {s1, s2}
    MaxEdges = 4
INVARIANTS
    ReduceIsConfluent
    FindsDeadlock
PROPERTIES
    Terminates
CHECK_DEADLOCK FALSE
