SPECIFICATION Spec
CONSTANTS
    Runs = {1}
    Shards = {0, 1}
    MaxAttempts = 2
    Rerunnable = {1}
INVARIANT GreenRunIsMerged
CHECK_DEADLOCK FALSE
