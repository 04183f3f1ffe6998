CONSTANTS
    Threads = {c1, c2}
    Tables <- Spellings
    Place <- Alphabetical
    Names <- Spellings
    Fold <- LowerCase
    NoThread = NoThread
    NoEntry = NoEntry
    MaxChanges = 1
    MaxCalls = 1
    MaxTransactions = 1
SPECIFICATION FairSpec
INVARIANTS TypeOK HeldEntriesLive ConnectionExclusive ScanComplete OneTablePerEntry
PROPERTIES ViewSpec CallsEnd
CHECK_DEADLOCK FALSE
