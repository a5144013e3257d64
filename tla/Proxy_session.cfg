\* One session, both ends write, everything may fail.  It stops when the proxy
\* has died or both ends have nothing more to do.
SPECIFICATION FairSpec
CONSTANTS
  MaxClients = 1
  MaxBytes = 3
  BufferSize = 2
  Faults <- AllFaults
CHECK_DEADLOCK FALSE
INVARIANTS SessionsSound DiesForAReason
PROPERTIES Forwards BytesArrive EndIsHeard
