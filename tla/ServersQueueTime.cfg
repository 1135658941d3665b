SPECIFICATION Spec
CONSTANTS
    Vertices = {1, 2}
    Edges <- Chain
    Gaps = {2, 3}
    Services = {1, 2}
    StopTime = 4
    Optional = {}
    Interval <- MCInterval
    mfrw_T = 2
    rl_ci = TRUE
    MaxMisorders = 0
    NULL = NULL
INVARIANTS QueueTimeExact
