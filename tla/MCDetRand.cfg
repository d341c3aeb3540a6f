SPECIFICATION RandSpec
CONSTANTS
    FuzzTargets = {"general", "reachability", "dual"}
    Inputs = {x, y}
    ProbeKeys = {k1, k2}
    BlockSize = 3
    MaxDraw = 4
    MaxBytes = 7
    MaxCases = 3
INVARIANTS CasesAreReproducible NoByteTwice
CHECK_DEADLOCK FALSE
