SPECIFICATION LiveSpec
CONSTANTS
    t1 = t1
    t2 = t2
    s1 = s1
    Tasks = {t1, t2}
    Subagents = {s1}
    Owner <- OwnerSame
    HotExecutor = TRUE
    NoTask = NoTask
    Control = Control
    Cancellable = {}
    RequestedOps = {}
    MaxRestarts = 1
PROPERTIES
    EveryTaskSettles
CHECK_DEADLOCK FALSE
