SPECIFICATION Spec
CONSTANTS
  Limit <- MCLimit
  Wide = 4
  Number <- MCNumber
  Length <- MCLength
  Default <- MCDefault
  Random <- MCRandom
  UuidBytes = 2
  Nibble = 2
  MaxText = 5
  MaxOptions = 5
INVARIANTS
   DeviceHandedBack
