\* Two timers re-armed from callbacks, under fair execution.
SPECIFICATION FairSpec
CONSTANTS
  Fd = {fd1, fd2}
  Interval = {0, 1, 2}
  MaxNow = 2
  MaxArms = 4
  NULL = NULL
INVARIANTS
  TypeOK
  NoExpiryLost
  TimersAccounted
PROPERTIES
  RingsOncePerArming
  ArmedRings
