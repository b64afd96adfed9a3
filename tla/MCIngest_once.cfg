SPECIFICATION Spec
CONSTANTS
    f1 = f1
    Files = {f1}
    MaxLines = 2
    MaxBlanks = 0
    MaxRewrites = 1
    MaxBoots = 2
    MaxFaults = 0
    MaxRollups = 0
    Aging = TRUE
    Policy = "replace"
    BatchSize = 3
    Capacity = 1
    WarnThreshold = 1
INVARIANTS CountedOnce
CHECK_DEADLOCK FALSE
