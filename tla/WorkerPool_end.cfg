\* Two connections after one worker; Ctrl-C and its like reach all the processes
\* at any time.
CONSTANTS
  Workers = {w1}
  Master = m
  Clients = {c1, c2}
  None = none
  Backlog = 1
  SignalGroups <- Terminal
  Signals = {"int", "quit"}
  IoMayFail = FALSE
SPECIFICATION FairSpec
INVARIANT BusyHasReason
PROPERTIES PlaceReturns AllEnd
CHECK_DEADLOCK FALSE
