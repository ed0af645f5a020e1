\* The clock of one game through every mix of pauses, with half-millisecond
\* ticks, and the scans of one process over two epochs.
CONSTANTS
  m1 = m1
  m2 = m2
  p1 = p1
  Games = {1}
  Players = {m1, m2}
  Procs = {p1}
  Milli = 2
  Duration = 4
  Tries = 2
  MaxTime = 6
  MaxEpoch = 2
  MaxRenewals = 0
  MaxPauses = 2
  MaxFaults = 0
SYMMETRY PlayerSymmetry
SPECIFICATION Spec
INVARIANTS TimeKept
PROPERTIES ScanFailsByRaceOnly
\* The bounds stop the clock.
CHECK_DEADLOCK FALSE
