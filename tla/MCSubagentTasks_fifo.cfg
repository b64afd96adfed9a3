SPECIFICATION Spec
CONSTANTS
    t1 = t1
    t2 = t2
    s1 = s1
    Tasks = {t1, t2}
    Subagents = {s1}
    Owner <- OwnerSame
    HotExecutor = TRUE
    NoTask = NoTask
    Control = Control
    Cancellable = {t1, t2}
    RequestedOps = {"hibernate", "soft_delete", "hard_delete"}
    MaxRestarts = 0
PROPERTIES
    FifoPerSubagent
CHECK_DEADLOCK FALSE
