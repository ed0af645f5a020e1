\* One process with two deadlines, one to a page.
CONSTANTS
  p1 = p1
  Procs = {p1}
  Runners = {p1}
  Deadlines = {1, 2}
  Games = {1}
  PageSize = 1
  Buffer = 1
  Duration = 1
  RetryAfter = 1
  Horizon = 2
  MaxTime = 2
  MaxWrites = 4
  MaxFaults = 1
SPECIFICATION FairSpec
INVARIANTS TypeOK TimersFollowRows ReadyMeansArmed
PROPERTIES TimedOutWhenDue DueSettles
\* The bounds stop the clock.
CHECK_DEADLOCK FALSE
