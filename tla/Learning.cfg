CONSTANTS
    Configs <- MCConfigs
    Network <- Ramp
    Entrances = {1}
    RandomIters = {0, 1, 2}
    MaxJobs = 2
    MaxTime = 3
    MaxWeight = 4
    NumInputs = 1
    NumHidden = 2
    NumOutputs = 1
    InitialWeights <- MCWeights
    Momentum = 1
    Window = 1
    TrainingRates <- MCRates
    Betas = {0, 1}
SPECIFICATION Spec
INVARIANTS TrainedOnOwnState ValueIsMeanDelay WeightsAreDistribution EmotionBounded GradientIsDescent
CHECK_DEADLOCK FALSE
