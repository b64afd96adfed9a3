SPECIFICATION Spec
CONSTANTS
    t1 = t1
    t2 = t2
    w1 = w1
    w2 = w2
    Tasks = {t1, t2}
    Workers = {w1, w2}
    WorkerOf <- TwoWorkers
    NoOne = NoOne
    Levels = {"normal"}
    MaxSpawns = 1
    MaxCrashes = 3
    MaxAttempts = 3
PROPERTIES
    OtherWorkersKeepSessions
CHECK_DEADLOCK FALSE
