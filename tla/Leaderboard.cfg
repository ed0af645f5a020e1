\* Two goroutines that call again and again while the ranking changes twice.
CONSTANTS
  c1 = c1
  c2 = c2
  Callers = {c1, c2}
  TTL = 2
  MaxTime = 3
  MaxCommits = 2
  MaxFaults = 1
SYMMETRY CallerSymmetry
SPECIFICATION Spec
INVARIANTS NeverBackwards StaleByTTLAtMost EditsShow
