SPECIFICATION Spec
CONSTANTS
    GeneralN = 2
    ReachT = 3
    ReachN = 4
    ControlEvery = 1
    MaxCases = 2
    MaxFaults = 2
INVARIANTS
    TypeOK
    NoFalseFinding
    TamperedMeansChecked
    AbortMatchesCounters
    BatchIsControlled
CHECK_DEADLOCK FALSE
