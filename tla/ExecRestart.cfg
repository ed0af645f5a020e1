\* What a restart promises after a technical pause, with half-millisecond ticks.
CONSTANTS
  m1 = m1
  m2 = m2
  p1 = p1
  Games = {1}
  Players = {m1, m2}
  Procs = {p1}
  Milli = 2
  Duration = 4
  Tries = 2
  MaxTime = 4
  MaxEpoch = 2
  MaxRenewals = 0
  MaxPauses = 1
  MaxFaults = 1
SPECIFICATION Spec
PROPERTIES RestartSurvives
\* The bounds stop the clock.
CHECK_DEADLOCK FALSE
