SPECIFICATION Spec
CONSTANTS
    Runs = {1, 2}
    Shards = {0, 1}
    MaxAttempts = 2
    Rerunnable = {1}
INVARIANTS
    TypeOK
    OneRevisionPerRun
    NoMovingBase
PROPERTY
    EveryRunEnds
CHECK_DEADLOCK FALSE
