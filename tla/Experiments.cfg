CONSTANTS
    Options <- MCOptions
    Jitters = {0, 2}
    NumSeeds = 150
    MaxInvocations = 2
    MaxReplications = 3
    MaxSimulations = 18
SPECIFICATION Spec
INVARIANTS DesignIsLatin ConditionsFromDesign ClusterSendsTheSame LineTellsRuns
PROPERTIES ExperimentSpec
CHECK_DEADLOCK FALSE
