SPECIFICATION FairSpec
CONSTANTS
    bridge = bridge
    invoke = invoke
    Clients = {bridge}
    Bridge = bridge
    NoOne = NoOne
    MaxLaunches = 2
    MaxAttempts = 2
    MaxFaults = 1
    MaxRequests = 1
INVARIANTS TypeOK ServiceStaysDown
PROPERTIES EnsuredIsCurrent ServiceComesUp
CHECK_DEADLOCK FALSE
