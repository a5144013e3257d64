\* Every system call that may fail may fail, and signals reach the processes one
\* by one: a worker may leave while the master passes it a connection.
CONSTANTS
  Workers = {w1, w2}
  Master = m
  Clients = {c1, c2}
  None = none
  Backlog = 2
  SignalGroups <- Single
  Signals = {"int"}
  IoMayFail = TRUE
SPECIFICATION Spec
SYMMETRY PoolSymmetry
INVARIANTS FreeMeansIdle PoolSound
PROPERTY OneToOne
CHECK_DEADLOCK FALSE
