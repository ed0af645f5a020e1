\* Two processes deliver two events to one connection, with one failure of any
\* kind.  No symmetry: temporal properties.
CONSTANTS
  p1 = p1
  p2 = p2
  Procs = {p1, p2}
  Last = 2
  MaxConn = 1
  MaxFaults = 1
SPECIFICATION FairSpec
PROPERTIES FramesAfterAcknowledged EventsPublished NobodyStranded
CHECK_DEADLOCK FALSE
