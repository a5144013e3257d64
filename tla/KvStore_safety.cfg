\* Two workers and the master race for a store of two entries, whose ttl of 1 is
\* over at time 2.
CONSTANTS
  Workers = {w1, w2}
  Master = m
  Keys = {1, 2}
  Values = {7}
  TTLs = {1}
  Capacity = 2
  MaxTime = 2
SPECIFICATION FairSpec
INVARIANT IInv
PROPERTIES EntriesLeave Linearizable CommandsEnd OldEntriesGo
