\* Two processes that crash, lose their leases over three epochs, and whose
\* scans fail, with half-millisecond ticks: a disconnect and a reconnect leave a
\* game with half a millisecond in its deadline.
CONSTANTS
  m1 = m1
  m2 = m2
  p1 = p1
  p2 = p2
  Games = {1}
  Players = {m1, m2}
  Procs = {p1, p2}
  Milli = 2
  Duration = 4
  Tries = 2
  MaxTime = 2
  MaxEpoch = 3
  MaxRenewals = 0
  MaxPauses = 0
  MaxFaults = 1
SPECIFICATION FairSpec
PROPERTIES OrphansEnd
\* The bounds stop the clock.
CHECK_DEADLOCK FALSE
