CONSTANTS
    MaxRequests = 7
    Faults <- AllFaults
SPECIFICATION FairSpec
INVARIANTS TypeOK Owed FailsOnlyIfDisturbed MisreadOnlyAfterFailure
PROPERTIES OperationsReturn
CHECK_DEADLOCK FALSE
