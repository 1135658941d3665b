SPECIFICATION Spec
CONSTANTS
    Plans <- MCPlans
    MaxOutdegree <- MCMaxOutdegree
    Addresses <- MCAddresses
    BoostArrival = 2
    BoostEdge = 1
INVARIANT CyclesRemoved
INVARIANT StrengthIsFlow
INVARIANT EdgesNumbered
INVARIANT ChoiceIsCommon
