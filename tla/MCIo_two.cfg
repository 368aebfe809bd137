\* Two channels and two descriptors, disconnect handlers.
SPECIFICATION Spec
CONSTANTS
  Fd = {fd1, fd2}
  Chan = {c1, c2}
  Data = {d1}
  NULL = NULL
  Handled = {"disconnect"}
  Neighbours = FALSE
SYMMETRY Symmetry
INVARIANTS
  ReferencesCounted
  RegisteredChannels
PROPERTIES
  UsesRegistry
