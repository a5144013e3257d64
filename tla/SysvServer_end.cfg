\* Two connections that may wait in the queue together, Ctrl-C, and
\* accept, fork and the workers' set-up may fail.
CONSTANTS
  Clients = {c1, c2}
  Master = m
  Backlog = 2
  Signals = {"int"}
  MayFail = TRUE
SPECIFICATION FairSpec
INVARIANT ServerSound
PROPERTIES ZombiesReaped EdgeAccepts QuietEnd
CHECK_DEADLOCK FALSE
