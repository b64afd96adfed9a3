SPECIFICATION Spec
CONSTANTS
    f1 = f1
    Files = {f1}
    MaxLines = 2
    MaxBlanks = 0
    MaxRewrites = 0
    MaxBoots = 1
    MaxFaults = 0
    MaxRollups = 1
    Aging = TRUE
    Policy = "insert_once"
    BatchSize = 2
    Capacity = 2
    WarnThreshold = 1
INVARIANTS ReadPathsAgree
CHECK_DEADLOCK FALSE
