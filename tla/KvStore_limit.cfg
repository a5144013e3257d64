\* One worker and the master; four keys for three entries, so that the store can
\* be full and closing a gap takes several turns; no time passes, so only
\* commands change the store.
CONSTANTS
  Workers = {w1}
  Master = m
  Keys = {1, 2, 3, 4}
  Values = {7, 8}
  TTLs = {0}
  Capacity = 3
  MaxTime = 0
SPECIFICATION Spec
PROPERTY Linearizable
