SPECIFICATION TimerSpec
CONSTANTS
    t1 = t1
    t2 = t2
    t3 = t3
    t4 = t4
    t5 = t5
    s1 = s1
    s2 = s2
    s3 = s3
    Turns = {t1, t2}
    Subagents = {s1}
    Owner <- OwnerSplit
    Model <- ModelOverride
    MaxHot = 2
    Cancellable = {t1, t2}
    NoTurn = NoTurn
PROPERTIES
    QuarantineEnds
CHECK_DEADLOCK FALSE
