CONSTANTS
    Length = 3
    EncBuffer = 2
    HostLists <- Addresses
    ServerPlugins <- Offers
    FaultSets <- Faults
    MaxRequests = 2
SPECIFICATION FairSpec
INVARIANTS TypeOK InStep FailsForCause
PROPERTIES ConnectEnds
CHECK_DEADLOCK FALSE
