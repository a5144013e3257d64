\* The program as it is, with 9 elements: parts that are cut, and second parts
\* that are missing or begin outside of the array.  It stops when it is done.
SPECIFICATION FairSpec
CONSTANTS
  N = 9
  Inputs <- Descending
  Garbage = {0}
  Addresses <- SideBySide
CHECK_DEADLOCK FALSE
INVARIANTS RoundsSound NumbersSorted
PROPERTY Sorts
