CONSTANTS
    t1 = t1
    t2 = t2
    Threads = {t1, t2}
    VectorSize = 2
    MaxRows = 5
SPECIFICATION FairSpec
INVARIANTS TypeOK CompleteUnlessCause IterInsideConnection NothingLeaks
PROPERTIES RowStreamSpec ScanEnds
CHECK_DEADLOCK FALSE
