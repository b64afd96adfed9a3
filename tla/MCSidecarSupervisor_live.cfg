SPECIFICATION HangSpec
CONSTANTS
    t1 = t1
    t2 = t2
    w1 = w1
    w2 = w2
    Tasks = {t1, t2}
    Workers = {w1}
    WorkerOf <- OneWorker
    NoOne = NoOne
    Levels = {"normal"}
    MaxSpawns = 2
    MaxCrashes = 2
    MaxAttempts = 3
PROPERTIES
    TasksProceed
CHECK_DEADLOCK FALSE
