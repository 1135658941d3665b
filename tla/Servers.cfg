SPECIFICATION FairSpec
CONSTANTS
    Vertices = {1, 2, 3, 4}
    Edges <- Fork
    Gaps = {2}
    Services = {0, 1}
    StopTime = 4
    Optional = {"LOG_GRAPH", "SERIALISE_ARRIVAL", "SYSTEM_STATISTICS"}
    Interval <- MCInterval
    mfrw_T = 2
    rl_ci = TRUE
    MaxMisorders = 0
    NULL = NULL
INVARIANTS TypeOK NoPastSchedule HistoryIsWalk AckFromSuccessor OneEntryPerJob LeavesWhereItEntered OneArrivalAhead
PROPERTIES FifoSpec Termination
