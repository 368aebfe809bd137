\* Callbacks may call every loop function, destructors none.
SPECIFICATION Spec
CONSTANTS
  Fd = {fd1, fd2, fd3}
  Ptr = {p1, p2, p3}
  Mask = {m1, m2}
  NULL = NULL
  Exits = {"quit"}
  DestructorCalls = {}
  ENTRY_CHANGE = 2
  MaxTop = 3
  MaxDepth = 3
SYMMETRY Symmetry
INVARIANTS
  KernelPointersLive
  BatchFresh
  FaultsExplained
PROPERTIES
  DeliveredToOwner
  ServesRegistry
