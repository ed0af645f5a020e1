\* Two players, two connections of one of them, two processes.
CONSTANTS
  a = a
  b = b
  h1 = h1
  h2 = h2
  Members = {a, b}
  Pairs <- MCPairs
  Sockets = {1, 2}
  Owner <- MCOwner
  Processes = {h1, h2}
  Window = 1
  Horizon = 2
  MaxFaults = 2
SPECIFICATION FairSpec
INVARIANTS StartedTogether NoShowJust AwayMeansGone
PROPERTIES LastTabCounts OrphansReaped
\* The bounds stop the clock, and every connection may have ended.
CHECK_DEADLOCK FALSE
