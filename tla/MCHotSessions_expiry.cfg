SPECIFICATION Spec
CONSTANTS
    s1 = s1
    s2 = s2
    p1 = p1
    p2 = p2
    Subagents = {s1, s2}
    Providers = {p1}
    ProviderOf <- OneProvider
    MaxHot = 1
    Pressure = Pressure
    Retries = 2
    MaxSessions = 2
    MaxWorkers = 2
    MaxFaults = 0
    Deletable = {}
INVARIANTS TurnOutlivesEviction
CHECK_DEADLOCK FALSE
