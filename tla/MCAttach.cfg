CONSTANTS
    Words <- AllWords
    Upper <- UpperCase
    Lower <- LowerCase
    Number <- Numbers
    Letters = {"a", "b", "h", "x", "y", "C"}
    MaxPort = 65535
    Documented <- Attachable
    OptionSets <- Options
    Environments <- Variables
SPECIFICATION Spec
INVARIANTS AsWritten AnySource RefusedForCause
CHECK_DEADLOCK FALSE
