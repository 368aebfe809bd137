\* A timer created when the clock is past its interval.
SPECIFICATION Spec
CONSTANTS
  Fd = {fd1, fd2}
  Interval = {0, 1, 2}
  MaxNow = 3
  MaxArms = 2
  NULL = NULL
PROPERTIES
  IntervalElapses
