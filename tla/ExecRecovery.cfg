\* Recovery scans of a process over two epochs and a renewal, against the
\* operator and the players of two games.
CONSTANTS
  m1 = m1
  m2 = m2
  p1 = p1
  Games = {1, 2}
  Players = {m1, m2}
  Procs = {p1}
  Milli = 1
  Duration = 2
  Tries = 2
  MaxTime = 2
  MaxEpoch = 2
  MaxRenewals = 1
  MaxPauses = 1
  MaxFaults = 0
SYMMETRY PlayerSymmetry
SPECIFICATION Spec
INVARIANTS NobodyWaits
PROPERTIES SettledOnce BindingProtects
\* The bounds stop the clock.
CHECK_DEADLOCK FALSE
