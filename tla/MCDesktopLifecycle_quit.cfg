SPECIFICATION Spec
CONSTANTS
    bridge = bridge
    invoke = invoke
    Clients = {bridge}
    Bridge = bridge
    NoOne = NoOne
    MaxLaunches = 2
    MaxAttempts = 2
    MaxFaults = 1
    MaxRequests = 1
INVARIANTS QuitWins
CHECK_DEADLOCK FALSE
