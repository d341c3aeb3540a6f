SPECIFICATION Spec
CONSTANTS
    ByteSize = 8
    MaxBuilds = 2
    Requests <- MCRequests
INVARIANTS
    TypeOK
    BuiltAsAsked
    RunningIsSound
CHECK_DEADLOCK FALSE
