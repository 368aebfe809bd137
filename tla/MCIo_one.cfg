\* A channel whose descriptor the loop's table may have lost, with read and
\* write handlers; its address and its descriptors are used again.
SPECIFICATION Spec
CONSTANTS
  Fd = {fd1, fd2}
  Chan = {c1}
  Data = {d1}
  NULL = NULL
  Handled = {"read", "write"}
  Neighbours = TRUE
SYMMETRY Symmetry
INVARIANTS
  TypeOK
  HandlersArmed
  DataReleasedOnce
  FaultsExplained
PROPERTIES
  SilentAfterDestroy
