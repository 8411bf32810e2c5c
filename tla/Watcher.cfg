SPECIFICATION FairSpec
CONSTANTS
    s1 = s1  s2 = s2  e1 = e1 
    Slice <- MCSlice
    Endpoint <- MCEndpoint
    InitWorkers = 1
    MaxChanges = 3
    MaxEnds = 2
INVARIANTS
    TypeOK
    CaughtUp
PROPERTIES
    Converges
    ReconnectIsQuiet
CHECK_DEADLOCK FALSE
