\* Two workers, killed wherever they are, and one more server started at any
\* time; three keys for a table of three.
CONSTANTS
  Workers = {w1, w2}
  Keys = {1, 2, 3}
  Values = {7}
  Capacity = 3
  MaxStarts = 1
SPECIFICATION FairSpec
INVARIANTS LockSound RoomLost
PROPERTIES NothingLost Linearizable LockIsFreed
CHECK_DEADLOCK FALSE
