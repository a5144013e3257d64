\* Four pointers in an arena of ten bytes: every order of allocated and free
\* areas, with runs of free areas left by shrinking.
SPECIFICATION Spec
CONSTANTS
  Pointers = {p1, p2, p3, p4}
  Free = Free
  Size = 10
SYMMETRY PointerSymmetry
INVARIANT ListSound
PROPERTIES DefragPacks KeepsBytes DefragEnds
