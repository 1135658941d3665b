SPECIFICATION FairSpec
CONSTANTS
    nodes = 5
    simulations = 3
    lhs_optimal = FALSE
    init_replications = 1
    lhs = TRUE
    replications = 2
    already_run = 0
    KILL_PILL = 65535
    MaxReplicas = 3
INVARIANTS NodeBooks BatchBooks ReplicaOnce NeverUndefined KilledWhenDone
PROPERTIES ExperimentSpec Finishes
