SPECIFICATION Spec
CONSTANTS
    WholeTimes = {0, 1, 3}
    Unit = 840
    DblMax = 100000
    Thres = 2
    MAX_RUNGS = 2
    MaxPushes = 8
    NULL = NULL
    Times <- MCTimes
INVARIANTS Accounting EpochSeparation BottomSorted
PROPERTIES OrderedUntilPushBack PoolSpec
