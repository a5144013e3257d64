\* merge on any contents.  The program stops when it is done.
SPECIFICATION Spec
CONSTANTS
  N = 4
  Inputs <- Anything
  Garbage = {0}
  Addresses <- SideBySide
CHECK_DEADLOCK FALSE
INVARIANT MergesSorted
