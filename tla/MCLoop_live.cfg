\* Fair execution; destructors may call every loop function.
SPECIFICATION FairSpec
CONSTANTS
  Fd = {fd1, fd2}
  Ptr = {p1, p2, p3}
  Mask = {m1}
  NULL = NULL
  Exits = {"quit"}
  DestructorCalls = {"add", "modify", "remove", "quit"}
  ENTRY_CHANGE = 2
  MaxTop = 3
  MaxDepth = 3
PROPERTIES
  QuitStopsLoop
  BatchDrains
  CleanupCompletes
