SPECIFICATION FairSpec
CONSTANTS
    TickS = 1
    WindowS = 3
    CapMin = 2
    CapMax = 4
    InitCap = 1
    CooldownTicks = 2
    FactorNum = 3
    FactorDen = 4
    Lower = 16
    Upper = 24
    Edges <- MCEdges
    Batches <- MCBatches
    Delays = {1, 2}
INVARIANTS
    TypeOK
    CapWithinBounds
    DecisionOnFlushedWindow
    DecisionsJustified
    DecisionsSpaced
PROPERTIES
    OverloadReachesFloor
    RecoversToCeiling
    DecisionsMove
    DecisionsTimely
CHECK_DEADLOCK FALSE
