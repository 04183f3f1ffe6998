CONSTANTS
    FetchBatch = 2
    ReadBuffer = 3
    BlobSegments = 2
    RowKinds <- AllKinds
    MaxRows = 4
    FaultSets <- NoneOrAll
SPECIFICATION FairSpec
INVARIANTS TypeOK RowsInOrder
PROPERTIES RowStreamSpec NoFetchPastEnd BlobsComplete Completes
