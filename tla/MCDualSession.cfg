SPECIFICATION Spec
CONSTANTS
    T = 2
    MaxCases = 1
    MaxFaults = 2
INVARIANTS
    TypeOK
    RunCompletes
    TamperingIsCaught
    NoFalseFinding
    AbortMatchesCounters
    AlternatingIsInterleaved
CHECK_DEADLOCK FALSE
