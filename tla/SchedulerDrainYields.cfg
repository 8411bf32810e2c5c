SPECIFICATION FairSpec
CONSTANTS
    a1 = a1  a2 = a2  a3 = a3  b1 = b1
    NumTenants = 2
    Weight <- MCWeight
    QueueMax <- MCQueueMax
    Request <- MCFewRequest
    TenantOf <- MCFewTenantOf
    InitWorkers = 1
    InitCap = 1
    Workers = {0, 2}
    Caps = {}
    MaxResizes = 1
    DeficitBound = 8
PROPERTIES
    DrainYields
CHECK_DEADLOCK FALSE
