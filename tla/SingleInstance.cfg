SPECIFICATION FairSpec
CONSTANTS
    nodes = 5
    simulations = 2
    lhs_optimal = FALSE
    init_replications = 2
    graph_single = TRUE
    mfrw_single = TRUE
    SameBoosts = FALSE
    mfrw_exists = TRUE
    MaxJobs = 2
INVARIANTS ReadsComplete GeneratedOnce
PROPERTIES JobsBegin
