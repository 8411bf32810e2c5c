SPECIFICATION FairSpec
CONSTANTS
    r1 = r1  r2 = r2
    Env <- MCEnv
    Request <- MCRequest
    Token <- MCToken
    RawConfigs <- MCRawConfigs
    Statuses = {"200", "503"}
    MaxChunks = 1
    Budgets = {0, 1, 2}
    MaxResizes = 1
INVARIANTS
    FailedStartStopsAll
CHECK_DEADLOCK FALSE
