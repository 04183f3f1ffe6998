CONSTANTS
    Tables <- BlobTables
    Rows <- SomeRows
    Versions <- Newest
    Charsets <- OneByte
    Half <- Halves
    Floating <- Floats
SPECIFICATION Spec
INVARIANTS BlobBytesKept
CHECK_DEADLOCK FALSE
