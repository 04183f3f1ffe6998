CONSTANTS
    Attributes = 2
    Sizes <- SmallAndLarge
    Room = 7
    MaxColumns = 3
    Columns = 4
SPECIFICATION DescribeSpec
INVARIANTS DescribedInOrder
PROPERTIES DescribeEnds
CHECK_DEADLOCK FALSE
