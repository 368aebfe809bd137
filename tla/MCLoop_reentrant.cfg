\* Callbacks and destructors may call every loop function.
SPECIFICATION Spec
CONSTANTS
  Fd = {fd1, fd2}
  Ptr = {p1, p2, p3}
  Mask = {m1, m2}
  NULL = NULL
  Exits = {"quit", "failure"}
  DestructorCalls = {"add", "modify", "remove", "quit"}
  ENTRY_CHANGE = 2
  MaxTop = 3
  MaxDepth = 4
SYMMETRY Symmetry
INVARIANTS
  TypeOK
  TableShape
  TableExact
  EntryOwnership
  CleanupProgress
  TopCountsWatched
  FaultsExplained
