SPECIFICATION Spec
CONSTANTS
    t1 = t1
    t2 = t2
    t3 = t3
    t4 = t4
    t5 = t5
    s1 = s1
    s2 = s2
    s3 = s3
    Turns = {t1, t2, t3, t4, t5}
    Subagents = {s1, s2, s3}
    Owner <- OwnerSplit
    Model <- ModelOverride
    MaxHot = 2
    Cancellable = {t2}
    NoTurn = NoTurn
INVARIANTS
    PendingOrListed
    ReservedIsIdle
    BusyMeansTurn
CHECK_DEADLOCK FALSE
