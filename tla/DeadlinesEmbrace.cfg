\* The recovery runner and the scheduler of one process wait for each other.
CONSTANTS
  p1 = p1
  Procs = {p1}
  Runners = {p1}
  Deadlines = {1, 2}
  Games = {1}
  PageSize = 2
  Buffer = 2
  Duration = 1
  RetryAfter = 1
  Horizon = 1
  MaxTime = 1
  MaxWrites = 3
  MaxFaults = 0
SPECIFICATION FairSpec
PROPERTIES RunnerReturns
\* The bounds stop the clock.
CHECK_DEADLOCK FALSE
