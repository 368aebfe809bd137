\* The removal of one descriptor and the table entry of another.
SPECIFICATION Spec
CONSTANTS
  Fd = {fd1, fd2}
  Ptr = {p1, p2}
  Mask = {m1}
  NULL = NULL
  Exits = {"quit"}
  DestructorCalls = {}
  ENTRY_CHANGE = 2
  MaxTop = 2
  MaxDepth = 2
SYMMETRY Symmetry
INVARIANTS
  WatchedIsFound
