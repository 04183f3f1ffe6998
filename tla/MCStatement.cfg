CONSTANTS
    Names <- TableColumns
    VirtualColumn = "rowid"
    Values <- Bits
    Null = Null
    Depth = 3
    Scans <- Queries
    MaxIndex = 2
    Tables <- SomeTables
SPECIFICATION StatementSpec
INVARIANTS NeverNarrows QueryAnswered DirectLimitPushed
CHECK_DEADLOCK FALSE
