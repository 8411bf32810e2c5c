SPECIFICATION Spec
CONSTANTS
    s1 = s1  s2 = s2  e1 = e1 
    Slice <- MCSlice
    Endpoint <- MCEndpoint
    InitWorkers = 1
    MaxChanges = 2
    MaxEnds = 2
INVARIANTS
    InSync
CHECK_DEADLOCK FALSE
