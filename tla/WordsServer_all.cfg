\* A client that sends two lines, whole or in part, perhaps before it has its answers,
\* and one that only comes and goes; two descriptors that they may have after each
\* other; a file with two contents that is written or removed at any time during three
\* seconds.
SPECIFICATION FairSpec
CONSTANTS
  MaxAnswers = 2
  MaxWord = 2
  c1 = c1
  c2 = c2
  Clients = {c1, c2}
  Fds = {4, 5}
  Contents <- Rewritten
  NoFile = nofile
  Asked <- SmallPrefixes
  MaxMessage = 2
  MaxLines <- OneAsks
  MaxTime = 2
CHECK_DEADLOCK FALSE
INVARIANTS ThreadsSound StaleForAReason QueryExact
PROPERTIES ChangesAreRead Answered
