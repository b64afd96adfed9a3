SPECIFICATION FairSpec
CONSTANTS
    BusCapacity = 2
    UnavailableAfter = 2
    MaxWrites = 2
    MaxFaults = 2
INVARIANTS TypeOK StaleIsAnnounced
PROPERTIES PageCatchesUp PageSaysReady
