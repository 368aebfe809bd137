SPECIFICATION FairSpec
CONSTANTS
  MaxFd = 3
  MaxTop = 2
  MaxOwn = 1
  MaxCalls = 3
  Errno = {3}
INVARIANTS
  TypeOK SentinelsUnused NothingLeftOpen SignalDataFreedOnce
PROPERTIES
  ExitRemovesNothing SignalHeard
