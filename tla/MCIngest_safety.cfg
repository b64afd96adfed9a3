SPECIFICATION Spec
CONSTANTS
    f1 = f1
    Files = {f1}
    MaxLines = 2
    MaxBlanks = 1
    MaxRewrites = 0
    MaxBoots = 2
    MaxFaults = 1
    MaxRollups = 1
    Aging = FALSE
    Policy = "insert_once"
    BatchSize = 2
    Capacity = 2
    WarnThreshold = 1
INVARIANTS CheckpointCovers RollupsFollowRows VisibleUnlessFault
CHECK_DEADLOCK FALSE
