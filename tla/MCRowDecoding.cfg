CONSTANTS
    Tables <- Considered
    Rows <- SomeRows
    Versions <- EitherProtocol
    Charsets <- AllCharsets
    Half <- Halves
    Floating <- Floats
SPECIFICATION Spec
INVARIANTS MessageConsumed RowFaithful NumbersSurvive FailsForCause
CHECK_DEADLOCK FALSE
