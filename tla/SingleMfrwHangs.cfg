SPECIFICATION FairSpec
CONSTANTS
    nodes = 5
    simulations = 2
    lhs_optimal = FALSE
    init_replications = 2
    graph_single = FALSE
    mfrw_single = TRUE
    SameBoosts = FALSE
    mfrw_exists = FALSE
    MaxJobs = 1
PROPERTIES JobsBegin
CHECK_DEADLOCK FALSE
