SPECIFICATION RunnerFairSpec
CONSTANTS
    c1 = c1  c2 = c2
    Caller = {c1, c2}
    Workers = 2
    MaxPools = 3
INVARIANTS PoolsDoNotMeet StopDrains
PROPERTIES StopTerminates
CHECK_DEADLOCK FALSE
