SPECIFICATION CancelSpec
CONSTANTS
    t1 = t1
    t2 = t2
    s1 = s1
    Tasks = {t1}
    Subagents = {s1}
    Owner <- OwnerSame
    HotExecutor = TRUE
    NoTask = NoTask
    Control = Control
    Cancellable = {t1}
    RequestedOps = {"hibernate", "hard_delete"}
    MaxRestarts = 1
PROPERTIES
    CancelStopsTurn
CHECK_DEADLOCK FALSE
