SPECIFICATION Spec
CONSTANTS
    a1 = a1  a2 = a2  a3 = a3  b1 = b1
    NumTenants = 2
    Weight <- MCWeight
    QueueMax <- MCQueueMax
    Request <- MCRequest
    TenantOf <- MCTenantOf
    InitWorkers = 2
    InitCap = 1
    Workers = {0, 2}
    Caps = {1}
    MaxResizes = 2
    DeficitBound = 4
SYMMETRY MCSymmetry
INVARIANTS
    TypeOK
    SlotConservation
    InflightExact
    LiveExact
    WaitingWithinMax
    PendingQueued
    NoIdleSlotWhileBlocked
    WorkConserving
PROPERTIES
    ShedOnlyWhenFull
    FirstComeFirstServed
    DrainProgress
    TurnsKept
CHECK_DEADLOCK FALSE
