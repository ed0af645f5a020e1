\* A viewer moves between two connections of two processes, and one event is
\* terminal.  No symmetry: a temporal property.
CONSTANTS
  p1 = p1
  p2 = p2
  Procs = {p1, p2}
  Last = 1
  MaxConn = 2
  MaxFaults = 0
SPECIFICATION FairSpec
INVARIANTS TypeOK AcknowledgedMeansShown
PROPERTIES SnapshotFirst FencedLeaves
CHECK_DEADLOCK FALSE
