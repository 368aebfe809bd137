SPECIFICATION Spec
CONSTANTS
  Width = 4
  MaxId = 6
  Base = 2
  NULL = NULL
  Uuid16 <- MCUuid16
  Uuid128 <- MCUuid128
  UuidTail <- MCUuidTail
  Appearance <- MCAppearance
INVARIANTS
  RoundTrip NamesAgree DeviceByCategory
PROPERTIES
  UidsUnique
