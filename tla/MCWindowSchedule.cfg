SPECIFICATION Spec
CONSTANTS
    Lanes = {a, b}
    Names <- MCNames
    NamesPerPrefix = 4
    Common <- MCCommon
    WindowSize = 3
    ShardCounts = {1, 2}
    InitPools <- MCInitPools
    MaxNew = 1
    MaxWave = 5
INVARIANTS WindowFits CoverageBound
PROPERTY RetriesAreStable
CHECK_DEADLOCK FALSE
SYMMETRY LaneSymmetry
