SPECIFICATION LiveSpec
CONSTANTS
    t1 = t1
    t2 = t2
    w1 = w1
    w2 = w2
    Tasks = {t1, t2}
    Workers = {w1}
    WorkerOf <- OneWorker
    NoOne = NoOne
    Levels = {"normal", "pressure"}
    MaxSpawns = 1
    MaxCrashes = 3
    MaxAttempts = 3
PROPERTIES
    GateReopens
CHECK_DEADLOCK FALSE
