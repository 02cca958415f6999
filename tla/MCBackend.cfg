SPECIFICATION MCSpec
CONSTANTS
    Sessions = {1, 2, 3, 4, 5, 6}
    Plans <- MCPlans
    IdleTimeout = 1
    MaxSpawnFaults = 1
    HandRun = TRUE
    None = None
INVARIANTS OneOperation TruthApart BackendInv
PROPERTIES MergeNeverCut ImplementsLock SessionsFinish
CHECK_DEADLOCK FALSE
